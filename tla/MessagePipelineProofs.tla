------------------------ MODULE MessagePipelineProofs ------------------------
(***************************************************************************)
(* What the handlers of messages and pins and the three workers keep true  *)
(* however their calls interleave and fail, for any number of messages,    *)
(* users and requests and any limits; and, in the last part, what the      *)
(* generator of the messages' ids keeps true (Snowflake).                  *)
(***************************************************************************)
EXTENDS MessagePipeline, Snowflake, FunctionTheorems, FiniteSetTheorems, TLAPS

-----------------------------------------------------------------------------
(* Types.                                                                  *)

Posts == {"send_message", "execute_webhook"}

Deletes == {"delete_message", "bulk_delete"}

(* What a request is about: nothing until it has an id, a message that has *)
(* no row until it is inserted, and rows that are there otherwise.         *)
PlacedIn(r, there, used) ==
    /\ r.at \in Calls(r.op)
    /\ r.op # "execute_webhook" => r.user \in Users
    /\ r.op = "execute_webhook" => r.user = None
    /\ r.ids \subseteq 1 .. used
    /\ r.op \notin Posts => r.ids \subseteq there /\ r.todo \subseteq r.ids
    /\ r.at = "insert" => r.ids \cap there = {}
    /\ r.at \in {"set_last", "set_slow", "publish"} => r.ids \subseteq there
    /\ r.op # "bulk_delete" /\ r.at \notin {"check_slow", "next_id"} => \E m \in Ids : r.ids = {m}

Placed(r) == PlacedIn(r, Stored, ids_used)

(* No two posts have the same id.                                          *)
Posting == {p \in Slots : /\ request[p] # None /\ request[p].op \in Posts
                          /\ request[p].at \notin {"check_slow", "next_id"}}

RequestsOK ==
    /\ request \in [Slots -> Request \cup {None}]
    /\ \A p \in Slots : request[p] # None => Placed(request[p])
    /\ \A p, q \in Posting : request[p].ids = request[q].ids => p = q

RowsOK ==
    /\ messages \in [Ids -> Row \cup {None}] /\ Stored \subseteq 1 .. ids_used
    /\ ids_used \in 0 .. MaxIds
    /\ pins \subseteq Stored /\ last_message_id \in Stored \cup {0}
    /\ slowmode \subseteq Users

EventTypes == {"MESSAGE_CREATE", "MESSAGE_UPDATE", "MESSAGE_DELETE", "MESSAGE_DELETE_BULK"}

StreamOK ==
    /\ stream \in Seq([type : EventTypes, ids : SUBSET Ids, text : {"empty", "text"}])
    /\ \A e \in 1 .. Len(stream) : stream[e].ids \subseteq Stored

Kinds == {"slow", "post", "event", "pin", "overdue", "unacked"}

FlagsOK ==
    /\ races \subseteq Kinds
    /\ started \in 0 .. MaxRequests /\ faults \in 0 .. MaxFaults

(* A request publishes at most one event, and posts at most one message.   *)
Busy == {p \in Slots : request[p] # None}

Unposted(u) == {p \in Slots : /\ AtOneOf(p, {"check_slow", "next_id", "insert"})
                              /\ request[p].user = u}

CountsOK ==
    /\ Len(stream) + Cardinality(Busy) <= started
    /\ in_window \in [Users -> Nat]
    /\ \A u \in Users : in_window[u] + Cardinality(Unposted(u)) <= started

(* How often an event stands in an inbox.                                  *)
CountOf(s, e) == Cardinality({i \in 1 .. Len(s) : s[i] = e})

WorkersOK ==
    /\ deliveries \in [Workers -> [Events -> 0 .. MaxDeliver]]
    /\ acked \in [Workers -> SUBSET (1 .. Len(stream))]
    /\ \A w \in Workers : \A e \in acked[w] : deliveries[w][e] > 0
    /\ \A w \in Workers : \A e \in Events : deliveries[w][e] > 0 => e <= Len(stream)
    /\ inbox \in [Workers -> Seq(Events)]
    /\ \A w \in Workers : \A i \in 1 .. Len(inbox[w]) : deliveries[w][inbox[w][i]] > 0
    /\ \A w \in Workers : \A e \in Events : CountOf(inbox[w], e) <= deliveries[w][e]
    /\ connected \subseteq Workers
    /\ index \subseteq Stored

(* Message m was created by event e.                                       *)
Creates(e, m) == stream[e].type = "MESSAGE_CREATE" /\ m \in stream[e].ids

(* A message is created by one event, and by none before its send is over; *)
(* a notification for it is a delivery of that event that has been taken   *)
(* from the inbox.                                                         *)
PushedOK ==
    /\ \A m \in Ids : \A d, e \in 1 .. Len(stream) : Creates(d, m) /\ Creates(e, m) => d = e
    /\ \A p \in Posting : \A m \in request[p].ids : \A e \in 1 .. Len(stream) : ~Creates(e, m)
    /\ pushed \in [Ids -> Nat]
    /\ \A m \in Ids : pushed[m] > 0 =>
          "push-worker" \in Workers /\ \E e \in 1 .. Len(stream) : Creates(e, m)
    /\ "push-worker" \in Workers =>
          \A m \in Ids : \A e \in 1 .. Len(stream) : Creates(e, m) =>
             pushed[m] + CountOf(inbox["push-worker"], e) <= deliveries["push-worker"][e]

TypeInv == RequestsOK /\ RowsOK /\ StreamOK /\ FlagsOK /\ CountsOK /\ WorkersOK /\ PushedOK

-----------------------------------------------------------------------------
(* The properties, with what makes them inductive.                         *)

(* The messages that a request has deleted, and has still to tell of.      *)
Removing(p) ==
    IF request[p] = None \/ request[p].op \notin Deletes THEN {}
    ELSE IF request[p].at = "publish" THEN request[p].ids
    ELSE IF request[p].at = "delete_each" THEN request[p].ids \ request[p].todo
    ELSE {}

DeletionsInv ==
    /\ DeletionsTrue
    /\ \A p \in Slots : Removing(p) \cap Live = {}

(* Requests that have counted the pins and have not inserted theirs.       *)
Counted == {p \in Slots : AtOneOf(p, {"exists", "set_pinned", "insert_pin"})}

PinsLimited == Cardinality(pins) + Cardinality(Counted) < MaxPins + Cardinality(Slots)

(* A send of u that has found no key and has set none.                     *)
Sends(p, u) ==
    /\ AtOneOf(p, {"next_id", "insert", "set_last", "set_slow"})
    /\ request[p].user = u

SlowOnce(u) ==
    /\ \A p, q \in Slots : Sends(p, u) /\ Sends(q, u) => p = q
    /\ in_window[u] <= 1
    /\ \A p \in Slots : Sends(p, u) =>
          /\ u \notin slowmode
          /\ request[p].at \in {"next_id", "insert"} => in_window[u] = 0
    /\ u \notin slowmode /\ (\A p \in Slots : ~Sends(p, u)) => in_window[u] = 0

SlowInv == faults = 0 /\ "slow" \notin races => \A u \in Users : SlowOnce(u)

(* Where the message and the list of pins differ, the request that wrote   *)
(* the one is about to write the other.                                    *)
Pinning(p, m) == At(p, "insert_pin") /\ request[p].ids = {m}

Unpinning(p, m) == At(p, "delete_pin") /\ request[p].ids = {m}

PinsAgree(m) ==
    /\ messages[m].pinned /\ m \notin pins => \E p \in Slots : Pinning(p, m)
    /\ m \in pins /\ ~messages[m].pinned => \E p \in Slots : Unpinning(p, m)
    /\ \A p \in Slots : Pinning(p, m) => messages[m].pinned
    /\ \A p \in Slots : Unpinning(p, m) => ~messages[m].pinned

PinsInv == faults = 0 /\ "pin" \notin races => \A m \in Stored : PinsAgree(m)

(* A send that has its id and has not set last_message_id.                 *)
Newest(p) ==
    /\ AtOneOf(p, {"insert", "set_last"}) /\ request[p].op = "send_message"

Settling(p, m) == At(p, "set_last") /\ request[p].ids = {m}

LastFollows ==
    /\ \A m \in Stored : messages[m].author # None =>
          m <= last_message_id \/ \E p \in Slots : Settling(p, m)
    /\ \A p, q \in Slots : Newest(p) /\ Newest(q) => p = q
    /\ \A p \in Slots : Newest(p) => \A n \in request[p].ids :
          \A m \in Stored : messages[m].author # None => m <= n

LastInv == faults = 0 /\ "post" \notin races => LastFollows

(* The search worker has been given the events in order; it has done those *)
(* up to some event, and the others wait; ...                              *)
Done == acked["search-indexer"]

DoneTo(j) ==
    LET given == inbox["search-indexer"]
    IN  /\ Done = 1 .. j
        /\ \A i \in 1 .. Len(given) : given[i] = j + i
        /\ \A e \in Events : deliveries["search-indexer"][e] > 0 <=> e <= j + Len(given)

InOrder == \E j \in Nat : DoneTo(j)

(* ... a message is live until its sender has published it; ...            *)
SendsLive ==
    \A p \in Slots : AtOneOf(p, {"set_last", "set_slow", "publish"})
                     /\ request[p].op = "send_message" => request[p].ids \subseteq Live

(* ... what the worker has added is found while it is live; ...            *)
Found == \A e \in Done : Added(stream[e]) \cap Live \subseteq index

(* ... and what it finds, or will add, that is not live it will be told of *)
(* later.                                                                  *)
Told(m, e) ==
    \/ \E p \in Slots : m \in Removing(p)
    \/ \E d \in 1 .. Len(stream) : d \notin Done /\ d > e /\ m \in Removed(stream[d])

LostTold == \A m \in index \ Live : Told(m, 0)

AddedTold == \A e \in (1 .. Len(stream)) \ Done : \A m \in Added(stream[e]) \ Live : Told(m, e)

IndexFollows == InOrder /\ SendsLive /\ Found /\ LostTold /\ AddedTold

IndexInv ==
    "search-indexer" \in Workers /\ faults = 0 /\ races \cap {"event", "overdue"} = {}
        => IndexFollows

PipelineInv ==
    TypeInv /\ DeletionsInv /\ PinsLimited /\ SlowInv /\ PinsInv /\ LastInv /\ IndexInv

-----------------------------------------------------------------------------
(* The calls of the handlers.                                              *)

(* The handlers there are.                                                 *)
LEMMA Operations ==
    DOMAIN Handler = {"send_message", "execute_webhook", "edit_message", "delete_message",
                      "bulk_delete", "pin_message", "unpin_message"}
BY DEF Handler

(* Whose each call is, and the call after it.                              *)
Goes(op, s, next) ==
    /\ s = "check_slow"   => op = "send_message" /\ next = "next_id"
    /\ s = "next_id"      => op \in Posts /\ next = "insert"
    /\ s = "insert"       => op \in Posts /\ (op = "send_message" => next = "set_last")
                             /\ (op = "execute_webhook" => next = "end")
    /\ s = "set_last"     => op = "send_message" /\ next = "set_slow"
    /\ s = "set_slow"     => op = "send_message" /\ next = "publish"
    /\ s = "update"       => op = "edit_message" /\ next = "publish"
    /\ s = "soft_delete"  => op = "delete_message" /\ next = "publish"
    /\ s = "delete_each"  => op = "bulk_delete" /\ next = "publish"
    /\ s = "publish"      => op \notin {"execute_webhook", "pin_message", "unpin_message"}
                             /\ next = "end"
    /\ s = "count_pins"   => op = "pin_message" /\ next = "exists"
    /\ s = "exists"       => op = "pin_message" /\ next = "set_pinned"
    /\ s = "set_pinned"   => op = "pin_message" /\ next = "insert_pin"
    /\ s = "insert_pin"   => op = "pin_message" /\ next = "end"
    /\ s = "unset_pinned" => op = "unpin_message" /\ next = "delete_pin"
    /\ s = "delete_pin"   => op = "unpin_message" /\ next = "end"

(* The tables of the handlers, call by call.                               *)
LEMMA HandlersGo ==
    ASSUME NEW op \in DOMAIN Handler, NEW s \in Calls(op)
    PROVE  Goes(op, s, Handler[op][s])
<1> USE DEF Goes, Calls, Handler, Posts
<1>1. CASE op = "send_message"
    BY <1>1 DEF send_message
<1>2. CASE op = "execute_webhook"
    BY <1>2 DEF execute_webhook
<1>3. CASE op = "edit_message"
    BY <1>3 DEF edit_message
<1>4. CASE op = "delete_message"
    BY <1>4 DEF delete_message
<1>5. CASE op = "bulk_delete"
    BY <1>5 DEF bulk_delete
<1>6. CASE op = "pin_message"
    BY <1>6 DEF pin_message
<1>7. CASE op = "unpin_message"
    BY <1>7 DEF unpin_message
<1> QED BY Operations, <1>1, <1>2, <1>3, <1>4, <1>5, <1>6, <1>7

(* The calls a handler makes, one by one.                                  *)
LEMMA CallsOf ==
    /\ Calls("send_message") =
          {"check_slow", "next_id", "insert", "set_last", "set_slow", "publish"}
    /\ Calls("execute_webhook") = {"next_id", "insert"}
    /\ Calls("edit_message") = {"update", "publish"}
    /\ Calls("delete_message") = {"soft_delete", "publish"}
    /\ Calls("bulk_delete") = {"delete_each", "publish"}
    /\ Calls("pin_message") = {"count_pins", "exists", "set_pinned", "insert_pin"}
    /\ Calls("unpin_message") = {"unset_pinned", "delete_pin"}
<1> USE DEF Calls, Handler
<1>1. Calls("send_message") =
         {"check_slow", "next_id", "insert", "set_last", "set_slow", "publish"}
    BY DEF send_message
<1>2. Calls("execute_webhook") = {"next_id", "insert"}
    BY DEF execute_webhook
<1>3. Calls("edit_message") = {"update", "publish"}
    BY DEF edit_message
<1>4. Calls("delete_message") = {"soft_delete", "publish"}
    BY DEF delete_message
<1>5. Calls("bulk_delete") = {"delete_each", "publish"}
    BY DEF bulk_delete
<1>6. Calls("pin_message") = {"count_pins", "exists", "set_pinned", "insert_pin"}
    BY DEF pin_message
<1>7. Calls("unpin_message") = {"unset_pinned", "delete_pin"}
    BY DEF unpin_message
<1> QED BY <1>1, <1>2, <1>3, <1>4, <1>5, <1>6, <1>7

(* A handler begins with the call that it names.                           *)
LEMMA Beginnings ==
    /\ Handler["send_message"].start = "check_slow"
    /\ Handler["execute_webhook"].start = "next_id"
    /\ Handler["edit_message"].start = "update"
    /\ Handler["delete_message"].start = "soft_delete"
    /\ Handler["bulk_delete"].start = "delete_each"
    /\ Handler["pin_message"].start = "count_pins"
    /\ Handler["unpin_message"].start = "unset_pinned"
BY DEF Handler, send_message, execute_webhook, edit_message, delete_message, bulk_delete,
       pin_message, unpin_message

-----------------------------------------------------------------------------
(* The requests after a step.                                              *)

(* The request of slot p becomes r, the others stay.                       *)
Turns(p, r) ==
    /\ request' \in [Slots -> Request \cup {None}]
    /\ request'[p] = r /\ \A q \in Slots \ {p} : request'[q] = request[q]

(* The request r at another call.                                          *)
To(r, call) == [r EXCEPT !.at = call]

(* What a request at another call still is.                                *)
LEMMA ToFields ==
    ASSUME NEW r \in Request, NEW call \in UNION {Calls(op) : op \in DOMAIN Handler}
    PROVE  /\ To(r, call) \in Request /\ To(r, call) # None
           /\ To(r, call).op = r.op /\ To(r, call).user = r.user /\ To(r, call).ids = r.ids
           /\ To(r, call).todo = r.todo /\ To(r, call).text = r.text /\ To(r, call).at = call
<1>1. To(r, call) \in Request
    BY DEF To, Request
<1> QED BY <1>1, NoneAssumption DEF To, Request

(* A slot changes hands.                                                   *)
LEMMA Turning ==
    ASSUME request \in [Slots -> Request \cup {None}], NEW p \in Slots,
           NEW r \in Request \cup {None}, request' = [request EXCEPT ![p] = r]
    PROVE  Turns(p, r)
BY DEF Turns

(* A request at a call is one, and its handler makes the call.             *)
LEMMA Serving ==
    ASSUME RequestsOK, NEW p \in Slots, request[p] # None
    PROVE  /\ request[p] \in Request /\ request[p].op \in DOMAIN Handler
           /\ Placed(request[p])
           /\ request[p].at \in Calls(request[p].op)
           /\ Goes(request[p].op, request[p].at, Handler[request[p].op][request[p].at])
BY HandlersGo DEF RequestsOK, Request, Placed, PlacedIn

(* The call after a request, with what it may have noted.                  *)
LEMMA Following ==
    ASSUME NEW r \in Request, NEW next \in UNION {Calls(op) : op \in DOMAIN Handler},
           Handler[r.op][r.at] = next
    PROVE  After(r) = To(r, next)
<1>1. next # "end"
    BY DEF Calls
<1> QED BY <1>1 DEF After, To

(* A request that goes on to a call of some handler.                       *)
LEMMA GoingOn ==
    ASSUME RequestsOK, NEW p \in Slots, request[p] # None, Proceed(p),
           NEW next \in UNION {Calls(op) : op \in DOMAIN Handler},
           Handler[request[p].op][request[p].at] = next
    PROVE  Turns(p, To(request[p], next))
<1>1. request[p] \in Request
    BY Serving
<1>2. After(request[p]) = To(request[p], next)
    BY <1>1, Following
<1>3. request' = [request EXCEPT ![p] = To(request[p], next)]
    BY <1>2 DEF Proceed, RequestsOK
<1> QED BY <1>1, <1>3, ToFields, Turning DEF RequestsOK

(* A request that has made its last call.                                  *)
LEMMA Ending ==
    ASSUME RequestsOK, NEW p \in Slots, request[p] # None, Proceed(p),
           Handler[request[p].op][request[p].at] = "end"
    PROVE  Turns(p, None)
<1>1. request' = [request EXCEPT ![p] = None]
    BY DEF Proceed, RequestsOK, After
<1> QED BY <1>1, Turning DEF RequestsOK

(* The calls there are.                                                    *)
AllCalls ==
    {"check_slow", "next_id", "insert", "set_last", "set_slow", "publish", "update",
     "soft_delete", "delete_each", "count_pins", "exists", "set_pinned", "insert_pin",
     "unset_pinned", "delete_pin"}

(* They are the calls in the tables of the handlers.                      *)
LEMMA CallNames == UNION {Calls(op) : op \in DOMAIN Handler} = AllCalls
<1>1. ASSUME NEW c \in AllCalls
      PROVE  \E op \in DOMAIN Handler : c \in Calls(op)
    BY <1>1, CallsOf, Operations DEF AllCalls
<1>2. ASSUME NEW op \in DOMAIN Handler, NEW c \in Calls(op)
      PROVE  c \in AllCalls
    BY <1>2, CallsOf, Operations DEF AllCalls
<1> QED BY <1>1, <1>2

(* Where a request goes from a call that succeeds.                         *)
LEMMA Proceeding ==
    ASSUME RequestsOK, NEW p \in Slots, NEW s, At(p, s), Proceed(p)
    PROVE  /\ s = "check_slow"  => Turns(p, To(request[p], "next_id"))
           /\ s = "insert"      => IF request[p].op = "send_message"
                                   THEN Turns(p, To(request[p], "set_last")) ELSE Turns(p, None)
           /\ s = "set_last"    => Turns(p, To(request[p], "set_slow"))
           /\ s \in {"set_slow", "update", "soft_delete"} => Turns(p, To(request[p], "publish"))
           /\ s = "count_pins"  => Turns(p, To(request[p], "exists"))
           /\ s = "exists"      => Turns(p, To(request[p], "set_pinned"))
           /\ s = "set_pinned"  => Turns(p, To(request[p], "insert_pin"))
           /\ s = "unset_pinned" => Turns(p, To(request[p], "delete_pin"))
           /\ s \in {"publish", "insert_pin", "delete_pin"} => Turns(p, None)
<1> DEFINE next == Handler[request[p].op][request[p].at]
<1>1. request[p] # None /\ request[p].at = s /\ Goes(request[p].op, s, next)
    BY Serving DEF At
<1>2. next = "end" => Turns(p, None)
    BY <1>1, Ending
<1>3. next \in AllCalls => Turns(p, To(request[p], next))
    BY <1>1, GoingOn, CallNames
<1> HIDE DEF next
<1>4. /\ {"next_id", "set_last", "set_slow", "publish", "exists", "set_pinned", "insert_pin",
          "delete_pin"} \subseteq AllCalls
    BY DEF AllCalls
<1>5. CASE s \in {"check_slow", "set_last", "set_slow", "update", "soft_delete"}
    BY <1>1, <1>3, <1>4, <1>5 DEF Goes
<1>6. CASE s \in {"count_pins", "exists", "set_pinned", "unset_pinned"}
    BY <1>1, <1>3, <1>4, <1>6 DEF Goes
<1>7. CASE s \in {"publish", "insert_pin", "delete_pin"}
    BY <1>1, <1>2, <1>7 DEF Goes
<1>8. CASE s = "insert"
    BY <1>1, <1>2, <1>3, <1>4, <1>8 DEF Goes, Posts
<1> QED BY <1>1, <1>5, <1>6, <1>7, <1>8

(* A request that is refused, or fails.                                    *)
LEMMA Refusing ==
    ASSUME RequestsOK, NEW p \in Slots, request' = [request EXCEPT ![p] = None]
    PROVE  Turns(p, None)
BY Turning DEF RequestsOK

(* A post is given an id.                                                  *)
WithId(r, m) == To([r EXCEPT !.ids = {m}], "insert")

(* The calls of a post.                                                    *)
LEMMA PostMoves ==
    ASSUME RequestsOK, ids_used \in 0 .. MaxIds, NEW p \in Slots
    PROVE  /\ CheckSlow(p) =>
                 /\ At(p, "check_slow")
                 /\ Turns(p, None) \/ Turns(p, To(request[p], "next_id"))
           /\ NextId(p) =>
                 /\ At(p, "next_id") /\ ids_used + 1 \in Ids
                 /\ Turns(p, WithId(request[p], ids_used + 1))
           /\ InsertMessage(p) =>
                 /\ At(p, "insert")
                 /\ IF request[p].op = "send_message"
                    THEN Turns(p, To(request[p], "set_last")) ELSE Turns(p, None)
           /\ SetLast(p) => At(p, "set_last") /\ Turns(p, To(request[p], "set_slow"))
           /\ SetSlow(p) => At(p, "set_slow") /\ Turns(p, To(request[p], "publish"))
<1>1. ASSUME CheckSlow(p)
      PROVE  /\ At(p, "check_slow")
             /\ Turns(p, None) \/ Turns(p, To(request[p], "next_id"))
    BY <1>1, Refusing, Proceeding DEF CheckSlow
<1>2. ASSUME NextId(p)
      PROVE  /\ At(p, "next_id") /\ ids_used + 1 \in Ids
             /\ Turns(p, WithId(request[p], ids_used + 1))
    <2> DEFINE m == ids_used + 1
               r == [request[p] EXCEPT !.ids = {m}]
    <2>1. /\ At(p, "next_id") /\ request[p] # None /\ request[p].at = "next_id"
          /\ request' = [request EXCEPT ![p] = After([@ EXCEPT !.ids = {m}])]
          /\ m \in Ids
        BY <1>2, ConstantsAssumption DEF NextId, At, Ids
    <2>2. request[p] \in Request /\ Handler[request[p].op]["next_id"] = "insert"
        BY <2>1, Serving DEF Goes
    <2>3. r \in Request /\ r.op = request[p].op /\ r.at = "next_id"
        BY <2>1, <2>2 DEF Request
    <2>4. "insert" \in UNION {Calls(op) : op \in DOMAIN Handler}
        BY CallNames DEF AllCalls
    <2> HIDE DEF r
    <2>5. After(r) = To(r, "insert") /\ To(r, "insert") \in Request
        BY <2>2, <2>3, <2>4, Following, ToFields
    <2>6. request' = [request EXCEPT ![p] = To(r, "insert")]
        BY <2>1, <2>5 DEF r, RequestsOK
    <2>7. Turns(p, To(r, "insert"))
        BY <2>5, <2>6, Turning DEF RequestsOK
    <2> QED BY <2>1, <2>7 DEF WithId, r
<1>3. ASSUME InsertMessage(p)
      PROVE  /\ At(p, "insert")
             /\ IF request[p].op = "send_message"
                THEN Turns(p, To(request[p], "set_last")) ELSE Turns(p, None)
    BY <1>3, Proceeding DEF InsertMessage
<1>4. SetLast(p) => At(p, "set_last") /\ Turns(p, To(request[p], "set_slow"))
    BY Proceeding DEF SetLast
<1>5. SetSlow(p) => At(p, "set_slow") /\ Turns(p, To(request[p], "publish"))
    BY Proceeding DEF SetSlow
<1> QED BY <1>1, <1>2, <1>3, <1>4, <1>5

(* The calls of edits, deletions and pins that a request makes once.       *)
LEMMA OtherMoves ==
    ASSUME RequestsOK, NEW p \in Slots
    PROVE  /\ UpdateContent(p) => At(p, "update") /\ Turns(p, To(request[p], "publish"))
           /\ SoftDelete(p) => At(p, "soft_delete") /\ Turns(p, To(request[p], "publish"))
           /\ Publish(p) => At(p, "publish") /\ Turns(p, None)
           /\ CountPins(p) =>
                 /\ At(p, "count_pins")
                 /\ \/ Turns(p, None)
                    \/ Room(Cardinality(pins)) /\ Turns(p, To(request[p], "exists"))
           /\ CheckExists(p) =>
                 /\ At(p, "exists")
                 /\ Turns(p, None) \/ Turns(p, To(request[p], "set_pinned"))
           /\ SetPinned(p) => At(p, "set_pinned") /\ Turns(p, To(request[p], "insert_pin"))
           /\ InsertPin(p) => At(p, "insert_pin") /\ Turns(p, None)
           /\ UnsetPinned(p) => At(p, "unset_pinned") /\ Turns(p, To(request[p], "delete_pin"))
           /\ DeletePin(p) => At(p, "delete_pin") /\ Turns(p, None)
           /\ Fail(p) => request[p] # None /\ Turns(p, None)
<1>1. UpdateContent(p) => At(p, "update") /\ Turns(p, To(request[p], "publish"))
    BY Proceeding DEF UpdateContent
<1>2. SoftDelete(p) => At(p, "soft_delete") /\ Turns(p, To(request[p], "publish"))
    BY Proceeding DEF SoftDelete
<1>3. Publish(p) => At(p, "publish") /\ Turns(p, None)
    BY Proceeding DEF Publish
<1>4. ASSUME CountPins(p)
      PROVE  /\ At(p, "count_pins")
             /\ \/ Turns(p, None)
                \/ Room(Cardinality(pins)) /\ Turns(p, To(request[p], "exists"))
    <2>1. At(p, "count_pins")
        BY <1>4 DEF CountPins
    <2>2. CASE Room(Cardinality(pins)) /\ Proceed(p)
        BY <2>1, <2>2, Proceeding
    <2>3. CASE request' = [request EXCEPT ![p] = None]
        BY <2>1, <2>3, Refusing
    <2> QED BY <1>4, <2>1, <2>2, <2>3 DEF CountPins
<1>5. CheckExists(p) =>
         At(p, "exists") /\ (Turns(p, None) \/ Turns(p, To(request[p], "set_pinned")))
    BY Proceeding, Refusing DEF CheckExists
<1>6. SetPinned(p) => At(p, "set_pinned") /\ Turns(p, To(request[p], "insert_pin"))
    BY Proceeding DEF SetPinned
<1>7. InsertPin(p) => At(p, "insert_pin") /\ Turns(p, None)
    BY Proceeding DEF InsertPin
<1>8. UnsetPinned(p) => At(p, "unset_pinned") /\ Turns(p, To(request[p], "delete_pin"))
    BY Proceeding DEF UnsetPinned
<1>9. DeletePin(p) => At(p, "delete_pin") /\ Turns(p, None)
    BY Proceeding DEF DeletePin
<1>10. Fail(p) => request[p] # None /\ Turns(p, None)
    BY Refusing DEF Fail
<1> QED BY <1>1, <1>2, <1>3, <1>4, <1>5, <1>6, <1>7, <1>8, <1>9, <1>10

(* One message less to delete: it is deleted, or left out of the event.    *)
Deletes1(p, m, r) ==
    /\ m \in request[p].todo /\ r \in Request /\ Turns(p, r)
    /\ r.op = request[p].op /\ r.user = request[p].user /\ r.text = request[p].text
    /\ r.todo = request[p].todo \ {m}
    /\ r.at = "delete_each" \/ (r.at = "publish" /\ r.todo = {})
    /\ \/ /\ r.ids = request[p].ids /\ messages' = [messages EXCEPT ![m].deleted = TRUE]
          /\ Race("event", Unpublished(m)) /\ UNCHANGED faults
       \/ r.ids = request[p].ids \ {m} /\ Fault /\ UNCHANGED <<messages, races>>

(* The loop of a bulk deletion.                                            *)
LEMMA DeleteEachMoves ==
    ASSUME RequestsOK, NEW p \in Slots, DeleteEach(p)
    PROVE  At(p, "delete_each") /\ \E m, r : Deletes1(p, m, r)
<1>1. /\ At(p, "delete_each") /\ request[p] # None /\ request[p].at = "delete_each"
      /\ request[p] \in Request /\ Handler[request[p].op]["delete_each"] = "publish"
    BY Serving DEF DeleteEach, At, Goes
<1>2. "publish" \in UNION {Calls(op) : op \in DOMAIN Handler}
    BY CallNames DEF AllCalls
<1> DEFINE done(s, m) == request' = [request EXCEPT ![p] = DoneWithOne(s, m)]
<1>3. ASSUME NEW s \in Request, s.op = request[p].op, s.at = "delete_each", NEW m, done(s, m)
      PROVE  \E r \in Request : /\ Turns(p, r) /\ r.op = s.op /\ r.user = s.user
                                /\ r.text = s.text /\ r.todo = s.todo \ {m} /\ r.ids = s.ids
                                /\ r.at = "delete_each" \/ (r.at = "publish" /\ r.todo = {})
    <2> DEFINE left == [s EXCEPT !.todo = @ \ {m}]
    <2>0. /\ left \in Request /\ left.op = s.op /\ left.at = "delete_each"
          /\ left.user = s.user /\ left.text = s.text /\ left.ids = s.ids
          /\ left.todo = s.todo \ {m}
          /\ DoneWithOne(s, m) = IF left.todo = {} THEN After(left) ELSE left
        BY <1>3 DEF Request, DoneWithOne
    <2> HIDE DEF left
    <2>1. CASE left.todo = {}
        <3>1. After(left) = To(left, "publish")
            BY <1>1, <1>2, <1>3, <2>0, Following
        <3>2. request' = [request EXCEPT ![p] = To(left, "publish")]
            BY <1>3, <2>0, <2>1, <3>1
        <3>3. Turns(p, To(left, "publish"))
            BY <1>2, <2>0, <3>2, ToFields, Turning DEF RequestsOK
        <3> QED BY <1>2, <2>0, <2>1, <3>3, ToFields
    <2>2. CASE left.todo # {}
        <3>1. request' = [request EXCEPT ![p] = left]
            BY <1>3, <2>0, <2>2
        <3>2. Turns(p, left)
            BY <2>0, <3>1, Turning DEF RequestsOK
        <3> QED BY <2>0, <3>2
    <2> QED BY <2>1, <2>2
<1>4. PICK m \in request[p].todo :
         \/ /\ messages' = [messages EXCEPT ![m].deleted = TRUE]
            /\ Race("event", Unpublished(m)) /\ UNCHANGED faults
            /\ request' = [request EXCEPT ![p] = DoneWithOne(request[p], m)]
         \/ /\ Fault /\ UNCHANGED <<messages, races>>
            /\ request' = [request EXCEPT ![p] = DoneWithOne(LeftOut(request[p], m), m)]
    BY DEF DeleteEach
<1>5. CASE /\ messages' = [messages EXCEPT ![m].deleted = TRUE]
           /\ Race("event", Unpublished(m)) /\ UNCHANGED faults
           /\ request' = [request EXCEPT ![p] = DoneWithOne(request[p], m)]
    <2> DEFINE s == request[p]
    <2>0. /\ s \in Request /\ s.op = request[p].op /\ s.at = "delete_each"
          /\ done(s, m)
        BY <1>1, <1>5
    <2> HIDE DEF s, done
    <2>r. PICK r \in Request :
             /\ Turns(p, r) /\ r.op = s.op /\ r.user = s.user
             /\ r.text = s.text /\ r.todo = s.todo \ {m} /\ r.ids = s.ids
             /\ r.at = "delete_each" \/ (r.at = "publish" /\ r.todo = {})
        BY <1>3, <2>0
    <2>1. /\ Turns(p, r) /\ r.op = request[p].op /\ r.user = request[p].user
          /\ r.text = request[p].text /\ r.todo = request[p].todo \ {m}
          /\ r.ids = request[p].ids
          /\ r.at = "delete_each" \/ (r.at = "publish" /\ r.todo = {})
        BY <2>r DEF s
    <2>2. Deletes1(p, m, r)
        BY <1>4, <1>5, <2>1 DEF Deletes1
    <2> QED BY <1>1, <2>2
<1>6. CASE /\ Fault /\ UNCHANGED <<messages, races>>
           /\ request' = [request EXCEPT ![p] = DoneWithOne(LeftOut(request[p], m), m)]
    <2> DEFINE s == LeftOut(request[p], m)
    <2>1. /\ s \in Request /\ s.op = request[p].op /\ s.user = request[p].user
          /\ s.text = request[p].text /\ s.at = "delete_each"
          /\ s.ids = request[p].ids \ {m} /\ s.todo = request[p].todo
        BY <1>1 DEF Request, LeftOut
    <2> HIDE DEF s
    <2>2. done(s, m)
        BY <1>6 DEF s
    <2> HIDE DEF done
    <2>3. PICK r \in Request :
             /\ Turns(p, r) /\ r.op = s.op /\ r.user = s.user
             /\ r.text = s.text /\ r.todo = s.todo \ {m} /\ r.ids = s.ids
             /\ r.at = "delete_each" \/ (r.at = "publish" /\ r.todo = {})
        BY <1>3, <2>1, <2>2
    <2>4. Deletes1(p, m, r)
        BY <1>4, <1>6, <2>1, <2>3 DEF Deletes1
    <2> QED BY <1>1, <2>4
<1> QED BY <1>4, <1>5, <1>6

(* A request that arrives: nothing is written, and it names what is there. *)
LEMMA Starting ==
    ASSUME RequestsOK, RowsOK, NEW p \in Slots, Start(p)
    PROVE  /\ request[p] = None
           /\ \E r \in Request : /\ Turns(p, r) /\ PlacedIn(r, Stored, ids_used)
                                 /\ r.at \in {"check_slow", "next_id", "update", "soft_delete",
                                              "delete_each", "count_pins", "unset_pinned"}
                                 /\ r.op \in Posts <=> r.at \in {"check_slow", "next_id"}
                                 /\ r.at = "next_id" => r.op = "execute_webhook"
                                 /\ r.todo = r.ids
<1>1. PICK op \in DOMAIN Handler, u \in Users \cup {None}, ids \in SUBSET Stored,
          text \in {"empty", "text"} :
         /\ Asks(op, u, ids, text)
         /\ request' = [request EXCEPT ![p] =
               [op |-> op, user |-> u, ids |-> ids, todo |-> ids, text |-> text,
                at |-> Handler[op].start]]
    BY DEF Start
<1> DEFINE start == Handler[op].start
           r == [op |-> op, user |-> u, ids |-> ids, todo |-> ids, text |-> text, at |-> start]
<1>2. /\ start \in {"check_slow", "next_id", "update", "soft_delete", "delete_each",
                    "count_pins", "unset_pinned"}
      /\ start \in Calls(op)
      /\ op \in Posts <=> start \in {"check_slow", "next_id"}
      /\ start = "next_id" => op = "execute_webhook"
    BY <1>1, Beginnings, Operations, CallsOf DEF Posts
<1> HIDE DEF start
<1>3. Stored \subseteq Ids /\ Stored \subseteq 1 .. ids_used
    BY DEF Stored, RowsOK
<1>4. r \in Request
    BY <1>1, <1>2, <1>3 DEF Request
<1>5. /\ op # "execute_webhook" => u \in Users
      /\ op = "execute_webhook" => u = None
      /\ op \notin Posts \cup {"bulk_delete"} => IsOne(ids)
    <2>1. Managers \subseteq Users
        BY ConstantsAssumption
    <2> QED BY <1>1, <2>1, Operations DEF Asks, Posts
<1>6. IsOne(ids) => \E m \in Ids : ids = {m}
    <2>1. Stored \subseteq 1 .. MaxIds /\ MaxIds \in Nat
        BY <1>3, ConstantsAssumption DEF Ids
    <2>2. IsFiniteSet(1 .. MaxIds)
        BY <2>1, FS_Interval
    <2>3. IsFiniteSet(ids)
        BY <2>1, <2>2, FS_Subset
    <2> QED BY <1>3, <2>3, FS_Singleton DEF IsOne
<1>7. PlacedIn(r, Stored, ids_used)
    BY <1>2, <1>3, <1>5, <1>6, Operations DEF PlacedIn, Posts
<1>8. Turns(p, r)
    BY <1>1, <1>4, Turning DEF RequestsOK, start
<1> HIDE DEF r
<1>9. r.at = start /\ r.op = op /\ r.todo = r.ids
    BY DEF r
<1> QED BY <1>2, <1>4, <1>7, <1>8, <1>9 DEF Start

-----------------------------------------------------------------------------
(* The rows of the messages after a step.                                  *)

(* The one message that a request is about.                                *)
LEMMA SubjectIs ==
    ASSUME NEW p \in Slots, NEW m, request[p].ids = {m}
    PROVE  Subject(p) = m
BY DEF Subject

MessagesTyped == messages \in [Ids -> Row \cup {None}]

(* A row for m, which had none.                                            *)
Inserted(m, u) ==
    /\ m \in Ids \ Stored /\ MessagesTyped'
    /\ messages'[m] # None /\ messages'[m].author = u
    /\ messages'[m].deleted = FALSE /\ messages'[m].pinned = FALSE
    /\ \A n \in Ids \ {m} : messages'[n] = messages[n]

(* Another row for m, of the same author.                                  *)
Rewritten(m, deleted, pinned) ==
    /\ m \in Stored /\ MessagesTyped'
    /\ messages'[m] # None /\ messages'[m].author = messages[m].author
    /\ messages'[m].deleted = deleted /\ messages'[m].pinned = pinned
    /\ \A n \in Ids \ {m} : messages'[n] = messages[n]

(* The rows that one call writes.                                          *)
LEMMA RowWritten ==
    ASSUME MessagesTyped, NEW m \in Stored
    PROVE  /\ messages' = [messages EXCEPT ![m].deleted = TRUE]
                 => Rewritten(m, TRUE, messages[m].pinned)
           /\ \A b \in BOOLEAN : messages' = [messages EXCEPT ![m].pinned = b]
                 => Rewritten(m, messages[m].deleted, b)
           /\ \A t \in {"empty", "text"} : messages' = [messages EXCEPT ![m].text = t]
                 => Rewritten(m, messages[m].deleted, messages[m].pinned)
<1>1. m \in Ids /\ messages[m] \in Row
    BY DEF Stored, MessagesTyped
<1>2. ASSUME NEW row \in Row, messages' = [messages EXCEPT ![m] = row],
             row.author = messages[m].author
      PROVE  Rewritten(m, row.deleted, row.pinned)
    BY <1>1, <1>2, NoneAssumption DEF Rewritten, MessagesTyped
<1>3. ASSUME messages' = [messages EXCEPT ![m].deleted = TRUE]
      PROVE  Rewritten(m, TRUE, messages[m].pinned)
    <2> DEFINE row == [messages[m] EXCEPT !.deleted = TRUE]
    <2>1. /\ row \in Row /\ row.author = messages[m].author /\ row.deleted = TRUE
          /\ row.pinned = messages[m].pinned
        BY <1>1 DEF Row
    <2>2. messages' = [messages EXCEPT ![m] = row]
        BY <1>1, <1>3 DEF MessagesTyped
    <2> HIDE DEF row
    <2>3. Rewritten(m, row.deleted, row.pinned)
        BY <1>2, <2>1, <2>2
    <2> QED BY <2>1, <2>3
<1>4. ASSUME NEW b \in BOOLEAN, messages' = [messages EXCEPT ![m].pinned = b]
      PROVE  Rewritten(m, messages[m].deleted, b)
    <2> DEFINE row == [messages[m] EXCEPT !.pinned = b]
    <2>1. /\ row \in Row /\ row.author = messages[m].author
          /\ row.deleted = messages[m].deleted /\ row.pinned = b
        BY <1>1 DEF Row
    <2>2. messages' = [messages EXCEPT ![m] = row]
        BY <1>1, <1>4 DEF MessagesTyped
    <2> HIDE DEF row
    <2>3. Rewritten(m, row.deleted, row.pinned)
        BY <1>2, <2>1, <2>2
    <2> QED BY <2>1, <2>3
<1>5. ASSUME NEW t \in {"empty", "text"}, messages' = [messages EXCEPT ![m].text = t]
      PROVE  Rewritten(m, messages[m].deleted, messages[m].pinned)
    <2> DEFINE row == [messages[m] EXCEPT !.text = t]
    <2>1. /\ row \in Row /\ row.author = messages[m].author
          /\ row.deleted = messages[m].deleted /\ row.pinned = messages[m].pinned
        BY <1>1 DEF Row
    <2>2. messages' = [messages EXCEPT ![m] = row]
        BY <1>1, <1>5 DEF MessagesTyped
    <2> HIDE DEF row
    <2>3. Rewritten(m, row.deleted, row.pinned)
        BY <1>2, <2>1, <2>2
    <2> QED BY <2>1, <2>3
<1> QED BY <1>3, <1>4, <1>5

(* What each call is about, and what it writes.                            *)
LEMMA Writing ==
    ASSUME RequestsOK, MessagesTyped, faults \in Nat, NEW p \in Slots
    PROVE  /\ InsertMessage(p) => \E m \in Ids :
                 /\ request[p].ids = {m} /\ m \in 1 .. ids_used
                 /\ Inserted(m, request[p].user)
           /\ UpdateContent(p) =>
                 \/ UNCHANGED messages
                 \/ \E m \in Stored : /\ request[p].ids = {m}
                                      /\ Rewritten(m, messages[m].deleted, messages[m].pinned)
           /\ SoftDelete(p) => \E m \in Stored :
                 /\ request[p].ids = {m} /\ Subject(p) = m
                 /\ Rewritten(m, TRUE, messages[m].pinned)
           /\ SetPinned(p) => \E m \in Stored :
                 request[p].ids = {m} /\ Rewritten(m, messages[m].deleted, TRUE)
           /\ UnsetPinned(p) => \E m \in Stored :
                 request[p].ids = {m} /\ Rewritten(m, messages[m].deleted, FALSE)
           /\ \A m, r : Deletes1(p, m, r) /\ request[p].at = "delete_each" /\ request[p] # None =>
                 \/ UNCHANGED messages /\ faults' # 0 /\ r.ids = request[p].ids \ {m}
                 \/ /\ m \in Stored /\ Rewritten(m, TRUE, messages[m].pinned)
                    /\ r.ids = request[p].ids
                    /\ races' = IF Unpublished(m) THEN races \cup {"event"} ELSE races
<1>0. ASSUME request[p] # None, request[p].at \in {"update", "soft_delete", "set_pinned", "unset_pinned"}
      PROVE  \E m \in Stored : request[p].ids = {m}
    <2>1. /\ Placed(request[p]) /\ Goes(request[p].op, request[p].at, Handler[request[p].op][request[p].at])
        BY <1>0, Serving
    <2>2. request[p].op \notin Posts \cup {"bulk_delete"}
        BY <1>0, <2>1 DEF Goes, Posts
    <2> QED BY <1>0, <2>1, <2>2 DEF Placed, PlacedIn, Posts
<1>1. ASSUME InsertMessage(p)
      PROVE  \E m \in Ids : /\ request[p].ids = {m} /\ m \in 1 .. ids_used
                            /\ Inserted(m, request[p].user)
    <2>1. /\ request[p] # None /\ request[p].at = "insert" /\ request[p] \in Request
          /\ Placed(request[p]) /\ request[p].op \in Posts
        BY <1>1, Serving DEF InsertMessage, At, Goes
    <2>2. PICK m \in Ids : request[p].ids = {m}
        BY <2>1 DEF Placed, PlacedIn, Posts
    <2>3. Subject(p) = m /\ m \in 1 .. ids_used /\ m \notin Stored
        BY <2>1, <2>2, SubjectIs DEF Placed, PlacedIn
    <2> DEFINE row == [author |-> request[p].user, deleted |-> FALSE, pinned |-> FALSE,
                       text |-> request[p].text]
    <2>4. messages' = [messages EXCEPT ![m] = row]
        BY <1>1, <2>3 DEF InsertMessage
    <2>5. /\ row \in Row /\ row.author = request[p].user /\ row.deleted = FALSE
          /\ row.pinned = FALSE
        BY <2>1 DEF Row, Request
    <2> HIDE DEF row
    <2>6. Inserted(m, request[p].user)
        BY <2>2, <2>3, <2>4, <2>5, NoneAssumption DEF Inserted, MessagesTyped
    <2> QED BY <2>2, <2>3, <2>6
<1>2. ASSUME UpdateContent(p)
      PROVE  \/ UNCHANGED messages
             \/ \E m \in Stored : /\ request[p].ids = {m}
                                  /\ Rewritten(m, messages[m].deleted, messages[m].pinned)
    <2>1. PICK m \in Stored : request[p].ids = {m}
        BY <1>0, <1>2 DEF UpdateContent, At
    <2>2. request[p].text \in {"empty", "text"}
        BY <1>2, Serving DEF UpdateContent, At, Request
    <2> QED BY <1>2, <2>1, <2>2, SubjectIs, RowWritten DEF UpdateContent
<1>3. ASSUME SoftDelete(p)
      PROVE  \E m \in Stored : /\ request[p].ids = {m} /\ Subject(p) = m
                               /\ Rewritten(m, TRUE, messages[m].pinned)
    <2>1. PICK m \in Stored : request[p].ids = {m}
        BY <1>0, <1>3 DEF SoftDelete, At
    <2>2. Subject(p) = m
        BY <2>1, SubjectIs
    <2>3. messages' = [messages EXCEPT ![m].deleted = TRUE]
        BY <1>3, <2>2 DEF SoftDelete
    <2> QED BY <2>1, <2>2, <2>3, RowWritten
<1>4. ASSUME SetPinned(p)
      PROVE  \E m \in Stored : request[p].ids = {m} /\ Rewritten(m, messages[m].deleted, TRUE)
    <2>1. PICK m \in Stored : request[p].ids = {m}
        BY <1>0, <1>4 DEF SetPinned, At
    <2>2. Subject(p) = m
        BY <2>1, SubjectIs
    <2>3. messages' = [messages EXCEPT ![m].pinned = TRUE]
        BY <1>4, <2>2 DEF SetPinned
    <2> QED BY <2>1, <2>3, RowWritten
<1>5. ASSUME UnsetPinned(p)
      PROVE  \E m \in Stored : request[p].ids = {m} /\ Rewritten(m, messages[m].deleted, FALSE)
    <2>1. PICK m \in Stored : request[p].ids = {m}
        BY <1>0, <1>5 DEF UnsetPinned, At
    <2>2. Subject(p) = m
        BY <2>1, SubjectIs
    <2>3. messages' = [messages EXCEPT ![m].pinned = FALSE]
        BY <1>5, <2>2 DEF UnsetPinned
    <2> QED BY <2>1, <2>3, RowWritten
<1>6. ASSUME NEW m, NEW r, Deletes1(p, m, r), request[p].at = "delete_each", request[p] # None
      PROVE  \/ UNCHANGED messages /\ faults' # 0 /\ r.ids = request[p].ids \ {m}
             \/ /\ m \in Stored /\ Rewritten(m, TRUE, messages[m].pinned)
                /\ r.ids = request[p].ids
                /\ races' = IF Unpublished(m) THEN races \cup {"event"} ELSE races
    <2>1. m \in Stored
        <3>1. Placed(request[p]) /\ request[p].op \notin Posts
            BY <1>6, Serving DEF Goes, Posts
        <3> QED BY <1>6, <3>1 DEF Placed, PlacedIn, Deletes1
    <2>2. CASE /\ r.ids = request[p].ids /\ messages' = [messages EXCEPT ![m].deleted = TRUE]
               /\ Race("event", Unpublished(m))
        <3>1. Rewritten(m, TRUE, messages[m].pinned)
            BY <2>1, <2>2, RowWritten
        <3> QED BY <2>1, <2>2, <3>1 DEF Race
    <2>3. CASE r.ids = request[p].ids \ {m} /\ Fault /\ UNCHANGED <<messages, races>>
        <3>1. faults' # 0
            BY <2>3 DEF Fault
        <3>2. UNCHANGED messages
            BY <2>3
        <3> QED BY <2>3, <3>1, <3>2
    <2> QED BY <1>6, <2>2, <2>3 DEF Deletes1
<1> QED BY <1>1, <1>2, <1>3, <1>4, <1>5, <1>6

(* The rows and the served messages after a call.                          *)
LEMMA RowsThen ==
    ASSUME MessagesTyped
    PROVE  /\ UNCHANGED messages => Stored' = Stored /\ Live' = Live
           /\ \A m, u : Inserted(m, u) =>
                 m \notin Stored /\ Stored' = Stored \cup {m} /\ Live' = Live \cup {m}
           /\ \A m, pinned : Rewritten(m, TRUE, pinned) =>
                 Stored' = Stored /\ Live' = Live \ {m}
           /\ \A m, pinned : Rewritten(m, messages[m].deleted, pinned) =>
                 Stored' = Stored /\ Live' = Live
<1> USE DEF Stored, Live
<1>1. UNCHANGED messages => Stored' = Stored /\ Live' = Live
    OBVIOUS
<1>2. ASSUME NEW m, NEW u, Inserted(m, u)
      PROVE  m \notin Stored /\ Stored' = Stored \cup {m} /\ Live' = Live \cup {m}
    BY <1>2 DEF Inserted
<1>3. ASSUME NEW m, NEW pinned, Rewritten(m, TRUE, pinned)
      PROVE  Stored' = Stored /\ Live' = Live \ {m}
    BY <1>3 DEF Rewritten
<1>4. ASSUME NEW m, NEW pinned, Rewritten(m, messages[m].deleted, pinned)
      PROVE  Stored' = Stored /\ Live' = Live
    BY <1>4 DEF Rewritten
<1> QED BY <1>1, <1>2, <1>3, <1>4

-----------------------------------------------------------------------------
(* Bounds and flags.                                                       *)

(* The rows and requests are none of the workers' business.                *)
LEMMA WorkersLeave ==
    ASSUME NEW w \in Workers, Works(w) \/ Disconnect(w)
    PROVE  UNCHANGED <<messages, pins, last_message_id, slowmode, ids_used, in_window, request,
                       stream, started>>
<1>1. ASSUME NEW e, Deliver(w, e)
      PROVE  UNCHANGED <<rows, request, stream, started>>
    BY <1>1 DEF Deliver, counters
<1>2. ASSUME Handle(w)
      PROVE  UNCHANGED <<rows, request, stream, started>>
    BY <1>2 DEF Handle
<1>3. ASSUME Disconnect(w) \/ Restart(w)
      PROVE  UNCHANGED <<rows, request, stream, started>>
    BY <1>3 DEF Disconnect, Restart, counters
<1> QED BY <1>1, <1>2, <1>3 DEF Works, rows

(* The counters stay within their bounds, and what has happened stays so.  *)
LEMMA FlagsStep ==
    ASSUME FlagsOK, [Next]_vars
    PROVE  /\ FlagsOK' /\ races \subseteq races' /\ started <= started'
           /\ faults' = 0 => faults = 0
<1>0. MaxRequests \in Nat /\ MaxFaults \in Nat
    BY ConstantsAssumption
<1> DEFINE Same == UNCHANGED started /\ (UNCHANGED faults \/ Fault)
           Raced == UNCHANGED races \/ \E k \in Kinds : races' = races \cup {k}
           Ok == /\ FlagsOK' /\ races \subseteq races' /\ started <= started'
                 /\ faults' = 0 => faults = 0
<1>1. ASSUME Same, Raced
      PROVE  Ok
    <2>1. /\ started' \in 0 .. MaxRequests /\ faults' \in 0 .. MaxFaults /\ started <= started'
          /\ faults' = 0 => faults = 0
        BY <1>0, <1>1 DEF FlagsOK, Fault
    <2>2. races' \subseteq Kinds /\ races \subseteq races'
        BY <1>1 DEF FlagsOK
    <2> QED BY <2>1, <2>2 DEF FlagsOK
<1>2. ASSUME NEW happens, NEW k \in Kinds, Race(k, happens)
      PROVE  Raced
    BY <1>2 DEF Race
<1> HIDE DEF Raced
<1>12. ASSUME NEW happens, \/ Race("slow", happens) \/ Race("post", happens)
                          \/ Race("event", happens) \/ Race("pin", happens)
                          \/ Race("overdue", happens) \/ Race("unacked", happens)
       PROVE  Raced
    <2>1. {"slow", "post", "event", "pin", "overdue", "unacked"} \subseteq Kinds
        BY DEF Kinds
    <2> QED BY <1>2, <1>12, <2>1
<1> HIDE DEF Same, Raced, Ok
<1>3. ASSUME UNCHANGED races
      PROVE  Raced
    BY <1>3 DEF Raced
<1>4. ASSUME NEW p \in Slots, Start(p)
      PROVE  Ok
    BY <1>0, <1>4 DEF Start, FlagsOK, Ok
<1>5. ASSUME NEW p \in Slots, Serves(p)
      PROVE  Same /\ Raced
    <2>1. CheckSlow(p) => Same /\ Raced
        <3>1. CheckSlow(p) => Same
            BY DEF CheckSlow, Same
        <3>2. CheckSlow(p) => Raced
            BY <1>12, <1>3 DEF CheckSlow
        <3> QED BY <3>1, <3>2
    <2>2. NextId(p) => Same /\ Raced
        BY <1>12 DEF NextId, Same, counters
    <2>3. InsertMessage(p) => Same /\ Raced
        BY <1>3 DEF InsertMessage, Same, counters
    <2>4. SetLast(p) => Same /\ Raced
        BY <1>3 DEF SetLast, Same, counters
    <2>5. SetSlow(p) => Same /\ Raced
        BY <1>3 DEF SetSlow, Same
    <2>6. UpdateContent(p) => Same /\ Raced
        BY <1>3 DEF UpdateContent, Same, counters
    <2>7. SoftDelete(p) => Same /\ Raced
        BY <1>12 DEF SoftDelete, Same, counters
    <2>8. ASSUME DeleteEach(p)
          PROVE  Same /\ Raced
        <3>1. UNCHANGED started
            BY <2>8 DEF DeleteEach
        <3>2. \/ UNCHANGED faults /\ \E m : Race("event", Unpublished(m))
              \/ Fault /\ UNCHANGED races
            BY <2>8 DEF DeleteEach
        <3> QED BY <1>12, <1>3, <3>1, <3>2 DEF Same
    <2>9. Publish(p) => Same /\ Raced
        BY <1>3 DEF Publish, Same
    <2>10. CountPins(p) => Same /\ Raced
        BY <1>3 DEF CountPins, Same, counters
    <2>11. CheckExists(p) => Same /\ Raced
        BY <1>3 DEF CheckExists, Same, counters
    <2>12. SetPinned(p) => Same /\ Raced
        BY <1>12 DEF SetPinned, Same, counters
    <2>13. InsertPin(p) => Same /\ Raced
        BY <1>3 DEF InsertPin, Same, counters
    <2>14. UnsetPinned(p) => Same /\ Raced
        BY <1>12 DEF UnsetPinned, Same, counters
    <2>15. DeletePin(p) => Same /\ Raced
        BY <1>3 DEF DeletePin, Same, counters
    <2> QED BY <1>5, <2>1, <2>2, <2>3, <2>4, <2>5, <2>6, <2>7, <2>8, <2>9, <2>10, <2>11, <2>12,
               <2>13, <2>14, <2>15 DEF Serves
<1>6. ASSUME NEW p \in Slots, Fail(p)
      PROVE  Same /\ Raced
    BY <1>3, <1>6 DEF Fail, Same
<1>7. ASSUME NEW u \in Users, ExpireSlow(u)
      PROVE  Same /\ Raced
    BY <1>3, <1>7 DEF ExpireSlow, Same, counters
<1>8. ASSUME NEW w \in Workers, Handle(w)
      PROVE  Same /\ Raced
    <2>1. UNCHANGED started
        BY <1>8 DEF Handle
    <2>2. ASSUME NEW e, IndexMessage(e) \/ PushMessage(e) \/ UpdateReadStates(e)
          PROVE  (UNCHANGED faults \/ Fault) /\ Raced
        <3>1. UNCHANGED faults \/ Fault
            BY <2>2 DEF IndexMessage, PushMessage, UpdateReadStates, AckedOrNot
        <3>2. UNCHANGED races \/ \E happens : Race("unacked", happens)
            BY <2>2 DEF IndexMessage, PushMessage, UpdateReadStates
        <3> QED BY <1>3, <1>12, <3>1, <3>2
    <2>3. \E e : IndexMessage(e) \/ PushMessage(e) \/ UpdateReadStates(e)
        BY <1>8 DEF Handle
    <2> QED BY <2>1, <2>2, <2>3 DEF Same
<1>9. ASSUME NEW w \in Workers, Disconnect(w) \/ Restart(w)
      PROVE  Same /\ Raced
    BY <1>3, <1>9 DEF Disconnect, Restart, Same, counters
<1>13. ASSUME NEW w \in Workers, NEW e, Deliver(w, e)
       PROVE  Same /\ Raced
    BY <1>12, <1>13 DEF Deliver, Same, counters
<1>10. UNCHANGED vars => Same /\ Raced
    BY <1>3 DEF vars, Same, counters
<1>11. Ok
    BY <1>1, <1>4, <1>5, <1>6, <1>7, <1>8, <1>9, <1>10, <1>13 DEF Next, Works
<1> QED BY <1>11 DEF Ok

-----------------------------------------------------------------------------
(* The requests.                                                           *)

(* One slot changes hands, and the other requests are as they should be.   *)
LEMMA Placing ==
    ASSUME RequestsOK, Stored \subseteq Stored', ids_used \in Nat, ids_used' \in Nat,
           ids_used <= ids_used', NEW p \in Slots, NEW r, Turns(p, r),
           r # None => PlacedIn(r, Stored', ids_used'),
           \A q \in Slots \ {p} : At(q, "insert") => request[q].ids \cap Stored' = {},
           r # None /\ r.op \in Posts /\ r.at \notin {"check_slow", "next_id"}
               => \A q \in Posting \ {p} : request[q].ids # r.ids
    PROVE  RequestsOK'
<1>1. request' \in [Slots -> Request \cup {None}]
    BY DEF Turns
<1>2. 1 .. ids_used \subseteq 1 .. ids_used'
    OBVIOUS
<1>3. ASSUME NEW q \in Slots \ {p}, request[q] # None
      PROVE  PlacedIn(request[q], Stored', ids_used')
    <2>1. PlacedIn(request[q], Stored, ids_used)
        BY <1>3 DEF RequestsOK, Placed
    <2>2. request[q].at = "insert" => request[q].ids \cap Stored' = {}
        BY <1>3 DEF At
    <2>3. request[q].ids \subseteq 1 .. ids_used'
        BY <1>2, <2>1 DEF PlacedIn
    <2> QED BY <2>1, <2>2, <2>3 DEF PlacedIn
<1>4. \A q \in Slots : request'[q] # None => PlacedIn(request'[q], Stored', ids_used')
    BY <1>3 DEF Turns
<1>5. \A a, b \in Posting' : request'[a].ids = request'[b].ids => a = b
    <2>1. \A q \in Posting' \ {p} : q \in Posting \ {p} /\ request'[q] = request[q]
        BY DEF Posting, Turns
    <2>2. p \in Posting' => r # None /\ r.op \in Posts /\ r.at \notin {"check_slow", "next_id"}
        BY DEF Posting, Turns
    <2>3. ASSUME NEW a \in Posting', NEW b \in Posting', request'[a].ids = request'[b].ids
          PROVE  a = b
        <3>1. CASE a = p \/ b = p
            BY <2>1, <2>2, <2>3, <3>1 DEF Turns
        <3>2. CASE a # p /\ b # p
            BY <2>1, <2>3, <3>2 DEF RequestsOK
        <3> QED BY <3>1, <3>2
    <2> QED BY <2>3
<1> QED BY <1>1, <1>4, <1>5 DEF RequestsOK, Placed

(* A request goes on to another call, about the same messages.             *)
LEMMA ToPlaced ==
    ASSUME RequestsOK, Stored \subseteq Stored', ids_used \in Nat, UNCHANGED ids_used,
           NEW p \in Slots, request[p] # None, NEW c \in Calls(request[p].op),
           Turns(p, To(request[p], c)), c # "insert",
           \A q \in Slots \ {p} : At(q, "insert") => request[q].ids \cap Stored' = {},
           c \in {"set_last", "set_slow", "publish"} => request[p].ids \subseteq Stored',
           c = "next_id" <=> request[p].at = "check_slow", request[p].at # "next_id"
    PROVE  RequestsOK'
<1> DEFINE r == To(request[p], c)
<1>1. /\ request[p] \in Request /\ request[p].op \in DOMAIN Handler
      /\ PlacedIn(request[p], Stored, ids_used)
    BY Serving DEF Placed
<1>2. c \in UNION {Calls(op) : op \in DOMAIN Handler}
    BY <1>1
<1>3. /\ r # None /\ r.op = request[p].op /\ r.user = request[p].user /\ r.ids = request[p].ids
      /\ r.todo = request[p].todo /\ r.at = c
    BY <1>1, <1>2, ToFields
<1> HIDE DEF r
<1>4. PlacedIn(r, Stored', ids_used')
    BY <1>1, <1>3 DEF PlacedIn
<1>5. r.op \in Posts /\ r.at \notin {"check_slow", "next_id"}
         => \A q \in Posting \ {p} : request[q].ids # r.ids
    <2>1. ASSUME r.op \in Posts, r.at \notin {"check_slow", "next_id"}
          PROVE  p \in Posting
        BY <1>3, <2>1 DEF Posting
    <2> QED BY <1>3, <2>1 DEF RequestsOK
<1>6. Turns(p, r)
    BY DEF r
<1> QED BY <1>4, <1>5, <1>6, Placing

(* A request is over.                                                      *)
LEMMA EndPlaced ==
    ASSUME RequestsOK, Stored \subseteq Stored', ids_used \in Nat, UNCHANGED ids_used,
           NEW p \in Slots, Turns(p, None),
           \A q \in Slots \ {p} : At(q, "insert") => request[q].ids \cap Stored' = {}
    PROVE  RequestsOK'
BY Placing

(* What the rows tell of one another.                                      *)
LEMMA RowsFacts ==
    ASSUME RowsOK
    PROVE  /\ MessagesTyped /\ ids_used \in Nat /\ Stored \subseteq 1 .. ids_used
           /\ ids_used + 1 \notin Stored
<1>1. MessagesTyped /\ ids_used \in Nat /\ Stored \subseteq 1 .. ids_used
    BY DEF RowsOK, MessagesTyped
<1> QED BY <1>1

(* What a request at a call is about.                                      *)
LEMMA AboutStored ==
    ASSUME RequestsOK, NEW p \in Slots
    PROVE  /\ At(p, "insert") => request[p].ids \cap Stored = {} /\ p \in Posting
           /\ AtOneOf(p, {"set_last", "set_slow", "publish"}) => request[p].ids \subseteq Stored
           /\ AtOneOf(p, {"update", "soft_delete", "delete_each", "count_pins", "exists",
                          "set_pinned", "insert_pin", "unset_pinned", "delete_pin"})
                 => request[p].ids \subseteq Stored
           /\ request[p] # None /\ request[p].at \notin {"check_slow", "next_id", "delete_each"}
                 => request[p].op = "bulk_delete" \/ \E m \in Ids : request[p].ids = {m}
<1>1. ASSUME request[p] # None
      PROVE  /\ PlacedIn(request[p], Stored, ids_used)
             /\ Goes(request[p].op, request[p].at, Handler[request[p].op][request[p].at])
    BY <1>1, Serving DEF Placed
<1> QED BY <1>1 DEF At, AtOneOf, PlacedIn, Goes, Posts, Posting

(* The next call of a request is one of its handler's.                     *)
LEMMA CallsNext ==
    ASSUME RequestsOK, NEW p \in Slots
    PROVE  /\ At(p, "check_slow") => "next_id" \in Calls(request[p].op)
           /\ At(p, "insert") /\ request[p].op = "send_message"
                 => "set_last" \in Calls(request[p].op)
           /\ At(p, "next_id") => "insert" \in Calls(request[p].op)
           /\ At(p, "set_last") => "set_slow" \in Calls(request[p].op)
           /\ AtOneOf(p, {"set_slow", "update", "soft_delete", "delete_each"})
                 => "publish" \in Calls(request[p].op)
           /\ At(p, "count_pins") => "exists" \in Calls(request[p].op)
           /\ At(p, "exists") => "set_pinned" \in Calls(request[p].op)
           /\ At(p, "set_pinned") => "insert_pin" \in Calls(request[p].op)
           /\ At(p, "unset_pinned") => "delete_pin" \in Calls(request[p].op)
<1>1. ASSUME request[p] # None
      PROVE  Goes(request[p].op, request[p].at, Handler[request[p].op][request[p].at])
    BY <1>1, Serving
<1> QED BY <1>1, CallsOf DEF At, AtOneOf, Goes, Posts

(* The step of a post that has been given an id.                           *)
LEMMA WithIdPlaced ==
    ASSUME RequestsOK, RowsOK, NEW p \in Slots, At(p, "next_id"), ids_used + 1 \in Ids,
           Turns(p, WithId(request[p], ids_used + 1)), UNCHANGED messages,
           ids_used' = ids_used + 1
    PROVE  /\ RequestsOK'
           /\ WithId(request[p], ids_used + 1) \in Request
           /\ WithId(request[p], ids_used + 1) # None
           /\ WithId(request[p], ids_used + 1).op = request[p].op
           /\ WithId(request[p], ids_used + 1).user = request[p].user
           /\ WithId(request[p], ids_used + 1).ids = {ids_used + 1}
           /\ WithId(request[p], ids_used + 1).at = "insert"
<1> DEFINE m == ids_used + 1
           s == [request[p] EXCEPT !.ids = {m}]
           r == WithId(request[p], m)
<1>1. /\ request[p] \in Request /\ request[p].op \in Posts /\ request[p] # None
      /\ PlacedIn(request[p], Stored, ids_used) /\ "insert" \in Calls(request[p].op)
      /\ request[p].op \in DOMAIN Handler
    BY Serving, CallsNext DEF At, Goes, Placed
<1>2. ids_used \in Nat /\ m \notin Stored /\ Stored' = Stored
    BY RowsThen, RowsFacts
<1>3. s \in Request /\ s.op = request[p].op /\ s.user = request[p].user /\ s.ids = {m}
    BY <1>1 DEF Request
<1> HIDE DEF s
<1>4. "insert" \in UNION {Calls(op) : op \in DOMAIN Handler}
    BY <1>1
<1>5. /\ To(s, "insert") \in Request /\ To(s, "insert") # None
      /\ To(s, "insert").op = request[p].op /\ To(s, "insert").user = request[p].user
      /\ To(s, "insert").ids = {m} /\ To(s, "insert").at = "insert"
    BY <1>3, <1>4, ToFields
<1>6. r = To(s, "insert")
    BY DEF WithId, s
<1>7. /\ r \in Request /\ r # None /\ r.op = request[p].op /\ r.user = request[p].user
      /\ r.ids = {m} /\ r.at = "insert"
    BY <1>5, <1>6
<1> HIDE DEF r
<1>8. PlacedIn(r, Stored', ids_used')
    <2>1. {m} \subseteq 1 .. ids_used' /\ {m} \cap Stored' = {} /\ m \in Ids
        BY <1>2
    <2>2. r.ids \subseteq 1 .. ids_used' /\ r.ids \cap Stored' = {} /\ \E n \in Ids : r.ids = {n}
        BY <1>7, <2>1
    <2> QED BY <1>1, <1>7, <2>2 DEF PlacedIn, Posts
<1>9. \A q \in Posting : request[q].ids # r.ids
    <2>1. ASSUME NEW q \in Posting
          PROVE  request[q].ids \subseteq 1 .. ids_used
        BY Serving DEF Posting, Placed, PlacedIn
    <2>2. m \notin 1 .. ids_used
        BY <1>2
    <2> QED BY <1>7, <2>1, <2>2
<1>10. \A q \in Slots \ {p} : At(q, "insert") => request[q].ids \cap Stored' = {}
    BY <1>2, AboutStored
<1>11. Turns(p, r)
    BY DEF r
<1>12. ids_used' \in Nat /\ ids_used <= ids_used'
    BY <1>2
<1>13. RequestsOK'
    BY <1>2, <1>8, <1>9, <1>10, <1>11, <1>12, Placing
<1> QED BY <1>7, <1>13 DEF r

(* What a call of a request leaves of the requests and rows.               *)
LEMMA ServedRows ==
    ASSUME RequestsOK, RowsOK, faults \in Nat, NEW p \in Slots, Serves(p)
    PROVE  RequestsOK' /\ RowsOK' /\ Stored \subseteq Stored'
<1>0. /\ ids_used \in Nat /\ MessagesTyped /\ Stored \subseteq 1 .. ids_used
      /\ \A q \in Slots : At(q, "insert") => request[q].ids \cap Stored = {}
    BY RowsFacts, AboutStored
<1> DEFINE Kept == Stored' = Stored /\ UNCHANGED ids_used
           Ok == RequestsOK' /\ RowsOK' /\ Stored \subseteq Stored'
<1>1. ASSUME Kept, Turns(p, None)
      PROVE  RequestsOK'
    BY <1>0, <1>1, EndPlaced
<1>2. ASSUME Kept, NEW c \in Calls(request[p].op), Turns(p, To(request[p], c)), c # "insert",
             request[p] # None,
             c \in {"set_last", "set_slow", "publish"} => request[p].ids \subseteq Stored,
             c = "next_id" <=> request[p].at = "check_slow", request[p].at # "next_id"
      PROVE  RequestsOK'
    BY <1>0, <1>2, ToPlaced
<1>3. UNCHANGED <<messages, ids_used>> => Kept
    BY <1>0, RowsThen
<1>4. ASSUME Kept, MessagesTyped', pins' \subseteq Stored, last_message_id' \in Stored \cup {0},
             slowmode' \subseteq Users
      PROVE  RowsOK' /\ Stored \subseteq Stored'
    BY <1>4 DEF RowsOK, MessagesTyped
<1>5. ASSUME UNCHANGED rows
      PROVE  Kept /\ RowsOK' /\ Stored \subseteq Stored'
    <2>1. UNCHANGED <<messages, ids_used, pins, last_message_id, slowmode>>
        BY <1>5 DEF rows
    <2>2. Kept
        BY <2>1, <1>3
    <2>3. MessagesTyped'
        BY <2>1, <1>0 DEF MessagesTyped
    <2> QED BY <1>4, <2>1, <2>2, <2>3 DEF RowsOK
<1> HIDE DEF Kept
<1>11. CASE CheckSlow(p)
    <2>1. Kept /\ RowsOK' /\ Stored \subseteq Stored'
        BY <1>5, <1>11 DEF CheckSlow
    <2>2. /\ At(p, "check_slow") /\ "next_id" \in Calls(request[p].op)
          /\ Turns(p, None) \/ Turns(p, To(request[p], "next_id"))
        BY <1>0, <1>11, PostMoves, CallsNext DEF RowsOK
    <2> QED BY <1>1, <1>2, <2>1, <2>2 DEF At
<1>12. CASE NextId(p)
    <2>1. /\ At(p, "next_id") /\ ids_used + 1 \in Ids
          /\ Turns(p, WithId(request[p], ids_used + 1))
          /\ ids_used' = ids_used + 1 /\ UNCHANGED <<messages, pins, last_message_id, slowmode>>
        BY <1>0, <1>12, PostMoves DEF NextId, RowsOK
    <2>2. RequestsOK'
        BY <2>1, WithIdPlaced
    <2>3. Stored' = Stored /\ MessagesTyped'
        BY <1>0, <2>1, RowsThen DEF MessagesTyped
    <2>4. Stored \subseteq 1 .. ids_used' /\ ids_used' \in 0 .. MaxIds
        BY <1>0, <2>1 DEF Ids
    <2>5. RowsOK'
        BY <2>1, <2>3, <2>4 DEF RowsOK, MessagesTyped
    <2> QED BY <2>2, <2>3, <2>5
<1>13. CASE InsertMessage(p)
    <2>1. /\ At(p, "insert") /\ UNCHANGED <<pins, last_message_id, slowmode, ids_used>>
          /\ IF request[p].op = "send_message"
             THEN Turns(p, To(request[p], "set_last")) ELSE Turns(p, None)
        BY <1>0, <1>13, PostMoves DEF InsertMessage, RowsOK
    <2>2. PICK m \in Ids : /\ request[p].ids = {m} /\ m \in 1 .. ids_used
                           /\ Inserted(m, request[p].user)
        BY <1>0, <1>13, Writing
    <2>3. Stored' = Stored \cup {m} /\ MessagesTyped'
        BY <1>0, <2>2, RowsThen DEF Inserted
    <2>4. RowsOK'
        BY <1>0, <2>1, <2>2, <2>3 DEF RowsOK, MessagesTyped
    <2>5. ASSUME NEW q \in Slots \ {p}, At(q, "insert")
          PROVE  request[q].ids \cap Stored' = {}
        <3>1. q \in Posting /\ p \in Posting /\ request[q].ids \cap Stored = {}
            BY <2>1, <2>5, AboutStored
        <3>2. request[q].ids # {m}
            BY <2>2, <3>1 DEF RequestsOK
        <3>3. \E n \in Ids : request[q].ids = {n}
            BY <2>5, <3>1, AboutStored DEF At, Posting, Posts
        <3> QED BY <2>3, <3>1, <3>2, <3>3
    <2>6. RequestsOK'
        <3>1. CASE request[p].op = "send_message"
            BY <1>0, <2>1, <2>2, <2>3, <2>5, <3>1, ToPlaced, CallsNext DEF At
        <3>2. CASE request[p].op # "send_message"
            BY <1>0, <2>1, <2>3, <2>5, <3>2, EndPlaced
        <3> QED BY <3>1, <3>2
    <2> QED BY <2>3, <2>4, <2>6
<1>14. CASE SetLast(p)
    <2>1. /\ At(p, "set_last") /\ Turns(p, To(request[p], "set_slow"))
          /\ UNCHANGED <<messages, pins, slowmode, ids_used>> /\ last_message_id' = Subject(p)
          /\ "set_slow" \in Calls(request[p].op)
        BY <1>0, <1>14, PostMoves, CallsNext DEF SetLast, RowsOK
    <2>2. request[p] # None /\ request[p].at = "set_last" /\ request[p].ids \subseteq Stored
        BY <2>1, AboutStored DEF At, AtOneOf
    <2>3. PICK m \in Ids : request[p].ids = {m}
        <3>1. request[p].op # "bulk_delete"
            BY <2>2, Serving DEF Goes
        <3> QED BY <2>2, <3>1, AboutStored
    <2>4. last_message_id' \in Stored
        BY <2>1, <2>2, <2>3, SubjectIs
    <2>5. Kept /\ MessagesTyped'
        BY <1>0, <1>3, <2>1 DEF MessagesTyped
    <2>6. RowsOK' /\ Stored \subseteq Stored'
        BY <1>4, <2>1, <2>4, <2>5 DEF RowsOK
    <2>7. RequestsOK'
        BY <1>2, <2>1, <2>2, <2>5
    <2> QED BY <2>6, <2>7
<1>15. CASE SetSlow(p)
    <2>1. /\ At(p, "set_slow") /\ Turns(p, To(request[p], "publish"))
          /\ UNCHANGED <<messages, pins, last_message_id, ids_used>>
          /\ slowmode' \subseteq slowmode \cup {request[p].user}
          /\ "publish" \in Calls(request[p].op)
        BY <1>0, <1>15, PostMoves, CallsNext DEF SetSlow, RowsOK, AtOneOf, At
    <2>2. request[p] # None /\ request[p].at = "set_slow" /\ request[p].ids \subseteq Stored
        BY <2>1, AboutStored DEF At, AtOneOf
    <2>3. request[p].user \in Users
        BY <2>2, Serving DEF Goes, Placed, PlacedIn
    <2>4. Kept /\ MessagesTyped'
        BY <1>0, <1>3, <2>1 DEF MessagesTyped
    <2>5. RowsOK' /\ Stored \subseteq Stored'
        BY <1>4, <2>1, <2>3, <2>4 DEF RowsOK
    <2>6. RequestsOK'
        BY <1>2, <2>1, <2>2, <2>4
    <2> QED BY <2>5, <2>6
<1>6. ASSUME UNCHANGED <<pins, last_message_id, slowmode, ids_used>>, MessagesTyped',
             Stored' = Stored
      PROVE  Kept /\ RowsOK' /\ Stored \subseteq Stored'
    BY <1>4, <1>6 DEF RowsOK, Kept
<1>7. ASSUME NEW s, At(p, s), s \in {"update", "soft_delete", "count_pins", "exists",
                                     "set_pinned", "unset_pinned"}, Kept, NEW c,
             \/ s \in {"update", "soft_delete"} /\ c = "publish"
             \/ s = "count_pins" /\ c = "exists"
             \/ s = "exists" /\ c = "set_pinned"
             \/ s = "set_pinned" /\ c = "insert_pin"
             \/ s = "unset_pinned" /\ c = "delete_pin",
             Turns(p, To(request[p], c))
      PROVE  RequestsOK'
    <2>1. request[p] # None /\ request[p].at = s /\ c \in Calls(request[p].op)
        BY <1>7, CallsNext DEF At, AtOneOf
    <2>2. request[p].ids \subseteq Stored
        BY <1>7, AboutStored DEF At, AtOneOf
    <2>3. c # "insert" /\ c # "next_id" /\ s # "check_slow" /\ s # "next_id"
        BY <1>7
    <2> QED BY <1>2, <1>7, <2>1, <2>2, <2>3
<1>16. CASE UpdateContent(p)
    <2>1. /\ At(p, "update") /\ Turns(p, To(request[p], "publish"))
          /\ UNCHANGED <<pins, last_message_id, slowmode, ids_used>>
        BY <1>16, OtherMoves DEF UpdateContent
    <2>2. MessagesTyped' /\ Stored' = Stored
        <3>1. CASE UNCHANGED messages
            BY <1>0, <3>1, RowsThen DEF MessagesTyped
        <3>2. CASE \E m \in Stored : Rewritten(m, messages[m].deleted, messages[m].pinned)
            BY <1>0, <3>2, RowsThen DEF Rewritten
        <3> QED BY <1>0, <1>16, <3>1, <3>2, Writing
    <2>3. Kept /\ RowsOK' /\ Stored \subseteq Stored'
        BY <1>6, <2>1, <2>2
    <2> QED BY <1>7, <2>1, <2>3
<1>17. CASE SoftDelete(p)
    <2>1. /\ At(p, "soft_delete") /\ Turns(p, To(request[p], "publish"))
          /\ UNCHANGED <<pins, last_message_id, slowmode, ids_used>>
        BY <1>17, OtherMoves DEF SoftDelete
    <2>2. PICK m \in Stored : Rewritten(m, TRUE, messages[m].pinned)
        BY <1>0, <1>17, Writing
    <2>3. MessagesTyped' /\ Stored' = Stored
        BY <1>0, <2>2, RowsThen DEF Rewritten
    <2>4. Kept /\ RowsOK' /\ Stored \subseteq Stored'
        BY <1>6, <2>1, <2>3
    <2> QED BY <1>7, <2>1, <2>4
<1>18. CASE DeleteEach(p)
    <2>1. PICK m, r : At(p, "delete_each") /\ Deletes1(p, m, r)
        BY <1>18, DeleteEachMoves
    <2>2. /\ request[p] # None /\ request[p].at = "delete_each" /\ r \in Request /\ Turns(p, r)
          /\ UNCHANGED <<pins, last_message_id, slowmode, ids_used>>
          /\ r.op = request[p].op /\ r.user = request[p].user
          /\ r.ids \subseteq request[p].ids /\ r.at \in {"delete_each", "publish"}
        BY <1>18, <2>1 DEF DeleteEach, Deletes1, At
    <2>3. MessagesTyped' /\ Stored' = Stored
        <3>1. CASE UNCHANGED messages
            BY <1>0, <3>1, RowsThen DEF MessagesTyped
        <3>2. CASE Rewritten(m, TRUE, messages[m].pinned)
            BY <1>0, <3>2, RowsThen DEF Rewritten
        <3> QED BY <1>0, <2>1, <2>2, <3>1, <3>2, Writing
    <2>4. Kept /\ RowsOK' /\ Stored \subseteq Stored'
        BY <1>6, <2>2, <2>3
    <2>5. /\ PlacedIn(request[p], Stored, ids_used) /\ request[p].op = "bulk_delete"
        BY <2>2, Serving DEF Placed, Goes
    <2>6. r.todo \subseteq r.ids
        BY <2>1, <2>5 DEF Deletes1, PlacedIn, Posts
    <2>7. PlacedIn(r, Stored', ids_used')
        <3>1. r.at \in Calls(r.op) /\ r.ids \subseteq Stored' /\ r.ids \subseteq 1 .. ids_used'
            BY <1>0, <2>2, <2>3, <2>5, CallsOf DEF PlacedIn, Posts
        <3> QED BY <2>2, <2>5, <2>6, <3>1 DEF PlacedIn, Posts
    <2>8. r.op \notin Posts
        BY <2>2, <2>5 DEF Posts
    <2>9. /\ ids_used' \in Nat /\ ids_used <= ids_used' /\ Stored \subseteq Stored'
          /\ \A q \in Slots : At(q, "insert") => request[q].ids \cap Stored' = {}
        BY <1>0, <2>2, <2>3
    <2>10. RequestsOK'
        BY <1>0, <2>2, <2>7, <2>8, <2>9, Placing
    <2> QED BY <2>4, <2>10
<1>19. CASE Publish(p)
    BY <1>1, <1>5, <1>19, OtherMoves DEF Publish
<1>20. CASE CountPins(p)
    <2>1. Kept /\ RowsOK' /\ Stored \subseteq Stored'
        BY <1>5, <1>20 DEF CountPins
    <2> QED BY <1>1, <1>7, <1>20, <2>1, OtherMoves
<1>21. CASE CheckExists(p)
    <2>1. Kept /\ RowsOK' /\ Stored \subseteq Stored'
        BY <1>5, <1>21 DEF CheckExists
    <2> QED BY <1>1, <1>7, <1>21, <2>1, OtherMoves
<1>22. CASE SetPinned(p)
    <2>1. /\ At(p, "set_pinned") /\ Turns(p, To(request[p], "insert_pin"))
          /\ UNCHANGED <<pins, last_message_id, slowmode, ids_used>>
        BY <1>22, OtherMoves DEF SetPinned
    <2>2. PICK m \in Stored : Rewritten(m, messages[m].deleted, TRUE)
        BY <1>0, <1>22, Writing
    <2>3. MessagesTyped' /\ Stored' = Stored
        BY <1>0, <2>2, RowsThen DEF Rewritten
    <2>4. Kept /\ RowsOK' /\ Stored \subseteq Stored'
        BY <1>6, <2>1, <2>3
    <2> QED BY <1>7, <2>1, <2>4
<1>23. CASE UnsetPinned(p)
    <2>1. /\ At(p, "unset_pinned") /\ Turns(p, To(request[p], "delete_pin"))
          /\ UNCHANGED <<pins, last_message_id, slowmode, ids_used>>
        BY <1>23, OtherMoves DEF UnsetPinned
    <2>2. PICK m \in Stored : Rewritten(m, messages[m].deleted, FALSE)
        BY <1>0, <1>23, Writing
    <2>3. MessagesTyped' /\ Stored' = Stored
        BY <1>0, <2>2, RowsThen DEF Rewritten
    <2>4. Kept /\ RowsOK' /\ Stored \subseteq Stored'
        BY <1>6, <2>1, <2>3
    <2> QED BY <1>7, <2>1, <2>4
<1>24. ASSUME At(p, "insert_pin") \/ At(p, "delete_pin")
       PROVE  Subject(p) \in Stored
    <2>1. /\ request[p] # None /\ request[p].at \in {"insert_pin", "delete_pin"}
          /\ request[p].ids \subseteq Stored
        BY <1>24, AboutStored DEF At, AtOneOf
    <2>2. request[p].op # "bulk_delete"
        BY <2>1, Serving DEF Goes
    <2>3. PICK m \in Ids : request[p].ids = {m}
        BY <2>1, <2>2, AboutStored
    <2> QED BY <2>1, <2>3, SubjectIs
<1>25. CASE InsertPin(p) \/ DeletePin(p)
    <2>1. /\ At(p, "insert_pin") \/ At(p, "delete_pin")
          /\ Turns(p, None) /\ pins' \subseteq pins \cup {Subject(p)}
          /\ UNCHANGED <<messages, last_message_id, slowmode, ids_used>>
        BY <1>25, OtherMoves DEF InsertPin, DeletePin
    <2>2. Kept /\ MessagesTyped'
        BY <1>0, <1>3, <2>1 DEF MessagesTyped
    <2>3. RowsOK' /\ Stored \subseteq Stored'
        BY <1>4, <1>24, <2>1, <2>2 DEF RowsOK
    <2> QED BY <1>1, <2>1, <2>2, <2>3
<1> QED BY <1>11, <1>12, <1>13, <1>14, <1>15, <1>16, <1>17, <1>18, <1>19, <1>20, <1>21, <1>22,
           <1>23, <1>25 DEF Serves

(* From call s to call c of one request.                                   *)
Follows(s, c) ==
    /\ s \notin {"publish", "insert_pin", "delete_pin"}
    /\ s = "check_slow" => c = "next_id"
    /\ s = "next_id" => c = "insert"
    /\ s = "insert" => c = "set_last"
    /\ s = "set_last" => c = "set_slow"
    /\ s \in {"set_slow", "update", "soft_delete"} => c = "publish"
    /\ s = "delete_each" => c \in {"delete_each", "publish"}
    /\ s = "count_pins" => c = "exists"
    /\ s = "exists" => c = "set_pinned"
    /\ s = "set_pinned" => c = "insert_pin"
    /\ s = "unset_pinned" => c = "delete_pin"

(* The request of slot p is over, or r now.                                *)
Turned(p, r) ==
    /\ Turns(p, r) /\ request[p] # None
    /\ r = None => /\ request[p].at \in {"check_slow", "insert", "publish", "count_pins",
                                         "exists", "insert_pin", "delete_pin"}
                   /\ request[p].at = "insert" => request[p].op # "send_message"
    /\ r # None => /\ r \in Request /\ r.op = request[p].op /\ r.user = request[p].user
                   /\ Follows(request[p].at, r.at)
                   /\ request[p].at \notin {"next_id", "delete_each"} => r.ids = request[p].ids
                   /\ request[p].at = "next_id" => r.ids = {ids_used + 1}
                   /\ request[p].at = "insert" => request[p].op = "send_message"

(* How a call changes the requests.                                        *)
LEMMA ServedTurn ==
    ASSUME RequestsOK, RowsOK, NEW p \in Slots, Serves(p)
    PROVE  \E r : Turned(p, r)
<1>1. ASSUME NEW c \in AllCalls, request[p] # None, Follows(request[p].at, c),
             request[p].at \notin {"next_id", "delete_each"},
             request[p].at = "insert" => request[p].op = "send_message",
             Turns(p, To(request[p], c))
      PROVE  \E r : Turned(p, r)
    <2> DEFINE r == To(request[p], c)
    <2>1. request[p] \in Request
        BY <1>1, Serving
    <2>2. /\ r \in Request /\ r # None /\ r.op = request[p].op /\ r.user = request[p].user
          /\ r.ids = request[p].ids /\ r.at = c
        BY <1>1, <2>1, ToFields, CallNames
    <2>3. Turns(p, r)
        BY <1>1
    <2> HIDE DEF r
    <2>4. Turned(p, r)
        BY <1>1, <2>2, <2>3 DEF Turned
    <2> QED BY <2>4
<1>2. ASSUME request[p] # None, Turns(p, None),
             request[p].at \in {"check_slow", "insert", "publish", "count_pins", "exists",
                                "insert_pin", "delete_pin"},
             request[p].at = "insert" => request[p].op # "send_message"
      PROVE  \E r : Turned(p, r)
    BY <1>2 DEF Turned
<1>3. {"next_id", "set_last", "set_slow", "publish", "exists", "set_pinned", "insert_pin",
       "delete_pin"} \subseteq AllCalls
    BY DEF AllCalls
<1>4. ids_used \in 0 .. MaxIds
    BY DEF RowsOK
<1>5. ASSUME CheckSlow(p)
      PROVE  \E r : Turned(p, r)
    BY <1>1, <1>2, <1>3, <1>4, <1>5, PostMoves DEF Follows, At
<1>6. ASSUME NextId(p)
      PROVE  \E r : Turned(p, r)
    <2> DEFINE r == WithId(request[p], ids_used + 1)
    <2>1. /\ At(p, "next_id") /\ ids_used + 1 \in Ids /\ Turns(p, r)
          /\ UNCHANGED messages /\ ids_used' = ids_used + 1
        BY <1>4, <1>6, PostMoves DEF NextId
    <2>2. /\ r \in Request /\ r # None /\ r.op = request[p].op
          /\ r.user = request[p].user /\ r.ids = {ids_used + 1} /\ r.at = "insert"
        BY <2>1, WithIdPlaced
    <2> HIDE DEF r
    <2>3. Turned(p, r)
        BY <2>1, <2>2 DEF Turned, Follows, At
    <2> QED BY <2>3
<1>7. ASSUME InsertMessage(p)
      PROVE  \E r : Turned(p, r)
    BY <1>1, <1>2, <1>3, <1>4, <1>7, PostMoves DEF Follows, At
<1>8. ASSUME SetLast(p)
      PROVE  \E r : Turned(p, r)
    BY <1>1, <1>3, <1>4, <1>8, PostMoves DEF Follows, At
<1>9. ASSUME SetSlow(p)
      PROVE  \E r : Turned(p, r)
    BY <1>1, <1>3, <1>4, <1>9, PostMoves DEF Follows, At
<1>10. ASSUME UpdateContent(p)
       PROVE  \E r : Turned(p, r)
    BY <1>1, <1>3, <1>10, OtherMoves DEF Follows, At
<1>11. ASSUME SoftDelete(p)
       PROVE  \E r : Turned(p, r)
    BY <1>1, <1>3, <1>11, OtherMoves DEF Follows, At
<1>12. ASSUME DeleteEach(p)
       PROVE  \E r : Turned(p, r)
    <2>1. PICK m, r : At(p, "delete_each") /\ Deletes1(p, m, r)
        BY <1>12, DeleteEachMoves
    <2>2. Turned(p, r)
        BY <2>1, NoneAssumption DEF Turned, Follows, At, Deletes1
    <2> QED BY <2>2
<1>13. ASSUME Publish(p)
       PROVE  \E r : Turned(p, r)
    BY <1>2, <1>13, OtherMoves DEF At
<1>14. ASSUME CountPins(p)
       PROVE  \E r : Turned(p, r)
    BY <1>1, <1>2, <1>3, <1>14, OtherMoves DEF Follows, At
<1>15. ASSUME CheckExists(p)
       PROVE  \E r : Turned(p, r)
    BY <1>1, <1>2, <1>3, <1>15, OtherMoves DEF Follows, At
<1>16. ASSUME SetPinned(p)
       PROVE  \E r : Turned(p, r)
    BY <1>1, <1>3, <1>16, OtherMoves DEF Follows, At
<1>17. ASSUME InsertPin(p) \/ DeletePin(p)
       PROVE  \E r : Turned(p, r)
    BY <1>2, <1>17, OtherMoves DEF At
<1>18. ASSUME UnsetPinned(p)
       PROVE  \E r : Turned(p, r)
    BY <1>1, <1>3, <1>18, OtherMoves DEF Follows, At
<1> QED BY <1>5, <1>6, <1>7, <1>8, <1>9, <1>10, <1>11, <1>12, <1>13, <1>14, <1>15, <1>16, <1>17,
           <1>18 DEF Serves

(* The requests and the rows after any step.                               *)
LEMMA RowsStep ==
    ASSUME RequestsOK, RowsOK, FlagsOK, [Next]_vars
    PROVE  RequestsOK' /\ RowsOK' /\ Stored \subseteq Stored'
<1> DEFINE Ok == RequestsOK' /\ RowsOK' /\ Stored \subseteq Stored'
<1>0. /\ ids_used \in Nat /\ MessagesTyped /\ faults \in Nat
      /\ \A q \in Slots : At(q, "insert") => request[q].ids \cap Stored = {}
    BY RowsFacts, AboutStored DEF FlagsOK
<1>1. ASSUME UNCHANGED <<messages, pins, last_message_id, ids_used>>, slowmode' \subseteq slowmode
      PROVE  RowsOK' /\ Stored' = Stored /\ UNCHANGED ids_used
    <2>1. Stored' = Stored
        BY <1>0, <1>1, RowsThen
    <2> QED BY <1>1, <2>1 DEF RowsOK
<1>2. ASSUME UNCHANGED request, Stored' = Stored, UNCHANGED ids_used
      PROVE  RequestsOK'
    BY <1>2 DEF RequestsOK, Placed, Posting
<1>3. ASSUME NEW p \in Slots, Start(p)
      PROVE  Ok
    <2>1. RowsOK' /\ Stored' = Stored /\ UNCHANGED ids_used
        BY <1>1, <1>3 DEF Start, rows
    <2>2. PICK r \in Request :
             /\ Turns(p, r) /\ PlacedIn(r, Stored, ids_used)
             /\ r.op \in Posts <=> r.at \in {"check_slow", "next_id"}
        BY <1>3, Starting
    <2>3. RequestsOK'
        BY <1>0, <2>1, <2>2, Placing
    <2> QED BY <2>1, <2>3
<1>4. ASSUME NEW p \in Slots, Fail(p)
      PROVE  Ok
    <2>1. RowsOK' /\ Stored' = Stored /\ UNCHANGED ids_used
        BY <1>1, <1>4 DEF Fail, rows
    <2>2. RequestsOK'
        BY <1>0, <1>4, <2>1, OtherMoves, EndPlaced
    <2> QED BY <2>1, <2>2
<1>5. ASSUME NEW p \in Slots, Serves(p)
      PROVE  Ok
    BY <1>0, <1>5, ServedRows
<1>6. ASSUME NEW u \in Users, ExpireSlow(u)
      PROVE  Ok
    BY <1>1, <1>2, <1>6 DEF ExpireSlow
<1>7. ASSUME NEW w \in Workers, Works(w) \/ Disconnect(w)
      PROVE  Ok
    <2>1. UNCHANGED <<messages, pins, last_message_id, slowmode, ids_used, request>>
        BY <1>7, WorkersLeave
    <2> QED BY <1>1, <1>2, <2>1
<1>8. ASSUME UNCHANGED vars
      PROVE  Ok
    <2>1. UNCHANGED <<messages, pins, last_message_id, slowmode, ids_used, request>>
        BY <1>8 DEF vars, rows
    <2> QED BY <1>1, <1>2, <2>1
<1> HIDE DEF Ok
<1>9. Ok
    BY <1>3, <1>4, <1>5, <1>6, <1>7, <1>8 DEF Next
<1> QED BY <1>9 DEF Ok

-----------------------------------------------------------------------------
(* The events.                                                             *)

(* What a request says in the event it publishes.                          *)
LEMMA EventIs ==
    ASSUME RequestsOK, NEW p \in Slots, At(p, "publish")
    PROVE  /\ Event(request[p]) \in
                 [type : EventTypes, ids : SUBSET Ids, text : {"empty", "text"}]
           /\ Event(request[p]).ids = request[p].ids /\ request[p].ids \subseteq Stored
           /\ Event(request[p]).type = "MESSAGE_CREATE" <=> request[p].op = "send_message"
           /\ Removed(Event(request[p])) =
                 IF request[p].op \in Deletes THEN request[p].ids ELSE {}
           /\ Added(Event(request[p])) \subseteq
                 IF request[p].op = "send_message" THEN request[p].ids ELSE {}
<1>1. /\ request[p] \in Request /\ request[p].ids \subseteq Stored
      /\ request[p].op \in {"send_message", "edit_message", "delete_message", "bulk_delete"}
    <2>1. request[p] # None /\ request[p].at = "publish"
        BY DEF At
    <2>2. request[p] \in Request /\ request[p].op \in DOMAIN Handler
          /\ request[p].op \notin {"execute_webhook", "pin_message", "unpin_message"}
        BY <2>1, Serving DEF Goes
    <2> QED BY <2>1, <2>2, Operations, AboutStored DEF AtOneOf
<1>2. /\ Event(request[p]).ids = request[p].ids /\ Event(request[p]).text = request[p].text
      /\ request[p].op = "send_message" => Event(request[p]).type = "MESSAGE_CREATE"
      /\ request[p].op = "edit_message" => Event(request[p]).type = "MESSAGE_UPDATE"
      /\ request[p].op = "delete_message" => Event(request[p]).type = "MESSAGE_DELETE"
      /\ request[p].op = "bulk_delete" => Event(request[p]).type = "MESSAGE_DELETE_BULK"
    BY DEF Event
<1>3. Event(request[p]) \in [type : EventTypes, ids : SUBSET Ids, text : {"empty", "text"}]
    <2>1. Event(request[p]).type \in EventTypes
        BY <1>1, <1>2 DEF EventTypes
    <2>2. request[p].ids \in SUBSET Ids /\ request[p].text \in {"empty", "text"}
        BY <1>1 DEF Request
    <2>3. PICK t : Event(request[p]) = [type |-> t, ids |-> request[p].ids,
                                        text |-> request[p].text]
        BY DEF Event
    <2>4. t \in EventTypes
        BY <2>1, <2>3
    <2> QED BY <2>2, <2>3, <2>4
<1>4. Removed(Event(request[p])) = IF request[p].op \in Deletes THEN request[p].ids ELSE {}
    BY <1>1, <1>2 DEF Removed, Deletes
<1>5. Added(Event(request[p])) \subseteq
         IF request[p].op = "send_message" THEN request[p].ids ELSE {}
    BY <1>1, <1>2 DEF Added
<1> QED BY <1>1, <1>2, <1>3, <1>4, <1>5

(* The stream grows by an event at most.                                   *)
Published(p) ==
    /\ Publish(p) /\ At(p, "publish") /\ Turns(p, None)
    /\ stream' = Append(stream, Event(request[p]))
    /\ UNCHANGED <<rows, workers, races, started, faults>>

(* No other step writes the stream.                                        *)
LEMMA StreamMoves ==
    ASSUME RequestsOK, [Next]_vars
    PROVE  UNCHANGED stream \/ \E p \in Slots : Published(p)
<1>1. ASSUME NEW p \in Slots, Publish(p)
      PROVE  UNCHANGED stream \/ Published(p)
    <2>1. At(p, "publish") /\ Turns(p, None)
        BY <1>1, OtherMoves
    <2> QED BY <1>1, <2>1 DEF Publish, Published
<1>2. ASSUME NEW p \in Slots, Serves(p), ~Publish(p)
      PROVE  UNCHANGED stream
    BY <1>2 DEF Serves, CheckSlow, NextId, InsertMessage, SetLast, SetSlow, UpdateContent,
       SoftDelete, DeleteEach, CountPins, CheckExists, SetPinned, InsertPin, UnsetPinned,
       DeletePin
<1>3. ASSUME NEW p \in Slots, Start(p) \/ Fail(p)
      PROVE  UNCHANGED stream
    BY <1>3 DEF Start, Fail
<1>4. ASSUME NEW u \in Users, ExpireSlow(u)
      PROVE  UNCHANGED stream
    BY <1>4 DEF ExpireSlow
<1>5. ASSUME NEW w \in Workers, Works(w) \/ Disconnect(w)
      PROVE  UNCHANGED stream
    BY <1>5, WorkersLeave
<1> QED BY <1>1, <1>2, <1>3, <1>4, <1>5 DEF Next, vars

(* An event is added behind the others.                                    *)
LEMMA Appended ==
    ASSUME RequestsOK, StreamOK, NEW p \in Slots, Published(p)
    PROVE  /\ Len(stream) \in Nat /\ Len(stream') = Len(stream) + 1
           /\ \A e \in 1 .. Len(stream) : stream'[e] = stream[e]
           /\ stream'[Len(stream) + 1] = Event(request[p])
           /\ stream' \in Seq([type : EventTypes, ids : SUBSET Ids, text : {"empty", "text"}])
<1>1. Event(request[p]) \in [type : EventTypes, ids : SUBSET Ids, text : {"empty", "text"}]
    BY EventIs DEF Published
<1> DEFINE S == [type : EventTypes, ids : SUBSET Ids, text : {"empty", "text"}]
<1>2. stream \in Seq(S) /\ Event(request[p]) \in S /\ stream' = Append(stream, Event(request[p]))
    BY <1>1 DEF StreamOK, Published
<1> HIDE DEF S
<1>3. /\ Len(stream) \in Nat /\ Len(stream') = Len(stream) + 1
      /\ \A e \in 1 .. Len(stream) : stream'[e] = stream[e]
      /\ stream'[Len(stream) + 1] = Event(request[p])
      /\ stream' \in Seq(S)
    BY <1>2
<1> QED BY <1>3 DEF S

(* The events are of messages that are there.                              *)
LEMMA StreamStep ==
    ASSUME RequestsOK, RowsOK, FlagsOK, StreamOK, [Next]_vars
    PROVE  StreamOK'
<1>1. Stored \subseteq Stored'
    BY RowsStep
<1>2. CASE UNCHANGED stream
    BY <1>1, <1>2 DEF StreamOK
<1>3. CASE \E p \in Slots : Published(p)
    <2>1. PICK p \in Slots : Published(p)
        BY <1>3
    <2>2. /\ Len(stream) \in Nat /\ Len(stream') = Len(stream) + 1
          /\ \A e \in 1 .. Len(stream) : stream'[e] = stream[e]
          /\ stream'[Len(stream) + 1] = Event(request[p])
          /\ stream' \in Seq([type : EventTypes, ids : SUBSET Ids, text : {"empty", "text"}])
        BY <2>1, Appended
    <2>3. Event(request[p]).ids \subseteq Stored
        BY <2>1, EventIs DEF Published
    <2>4. ASSUME NEW e \in 1 .. Len(stream')
          PROVE  stream'[e].ids \subseteq Stored'
        <3>1. CASE e \in 1 .. Len(stream)
            BY <1>1, <2>2, <3>1 DEF StreamOK
        <3>2. CASE e = Len(stream) + 1
            BY <1>1, <2>2, <2>3, <3>2
        <3> QED BY <2>2, <2>4, <3>1, <3>2
    <2> QED BY <2>2, <2>4 DEF StreamOK
<1> QED BY <1>2, <1>3, StreamMoves

-----------------------------------------------------------------------------
(* Counts.                                                                 *)

(* Sets of slots are finite.                                               *)
LEMMA SlotsCount ==
    ASSUME NEW S, S \subseteq Slots
    PROVE  /\ Cardinality(S) \in Nat /\ IsFiniteSet(S)
           /\ \A T : T \subseteq S => Cardinality(T) \in Nat /\ Cardinality(T) <= Cardinality(S)
           /\ \A p \in Slots : Cardinality(S \cup {p}) \in Nat
                               /\ Cardinality(S \cup {p}) <= Cardinality(S) + 1
           /\ \A p \in S : /\ Cardinality(S \ {p}) \in Nat
                           /\ Cardinality(S \ {p}) + 1 <= Cardinality(S)
<1>0. IsFiniteSet(Slots)
    BY ConstantsAssumption
<1>1. IsFiniteSet(S)
    BY <1>0, FS_Subset
<1>2. Cardinality(S) \in Nat
    BY <1>1, FS_CardinalityType
<1>3. ASSUME NEW T, T \subseteq S
      PROVE  Cardinality(T) \in Nat /\ Cardinality(T) <= Cardinality(S)
    BY <1>1, <1>3, FS_Subset, FS_CardinalityType
<1>4. ASSUME NEW p \in Slots
      PROVE  Cardinality(S \cup {p}) \in Nat /\ Cardinality(S \cup {p}) <= Cardinality(S) + 1
    <2>1. Cardinality(S \cup {p}) = IF p \in S THEN Cardinality(S) ELSE Cardinality(S) + 1
        BY <1>1, FS_AddElement
    <2> QED BY <1>2, <2>1
<1>5. ASSUME NEW p \in S
      PROVE  Cardinality(S \ {p}) \in Nat /\ Cardinality(S \ {p}) + 1 <= Cardinality(S)
    <2>1. Cardinality(S \ {p}) = IF p \in S THEN Cardinality(S) - 1 ELSE Cardinality(S)
        BY <1>1, FS_RemoveElement
    <2>2. IsFiniteSet(S \ {p})
        BY <1>1, FS_RemoveElement
    <2>3. Cardinality(S \ {p}) \in Nat
        BY <2>2, FS_CardinalityType
    <2> QED BY <1>2, <2>1, <2>3
<1> QED BY <1>1, <1>2, <1>3, <1>4, <1>5

(* A request that is served goes on, and does not become another's.        *)
LEMMA TurnedCounts ==
    ASSUME RequestsOK, NEW p \in Slots, NEW r, Turned(p, r)
    PROVE  /\ Busy' \subseteq Busy
           /\ \A u \in Users : Unposted(u)' \subseteq Unposted(u)
           /\ request[p].at \in {"insert", "publish"} =>
                 \A u \in Users : Unposted(u)' \subseteq Unposted(u) \ {p}
           /\ r = None => p \notin Busy'
<1>1. ASSUME NEW q \in Slots \ {p}
      PROVE  request'[q] = request[q]
    BY DEF Turned, Turns
<1>2. request'[p] = r /\ request[p] # None
    BY DEF Turned, Turns
<1>3. Busy' \subseteq Busy /\ (r = None => p \notin Busy')
    BY <1>1, <1>2 DEF Busy
<1>4. r # None /\ r.at \in {"check_slow", "next_id", "insert"}
         => request[p].at \in {"check_slow", "next_id"} /\ r.user = request[p].user
    <2>1. request[p].at \in AllCalls
        <3>1. request[p].at \in Calls(request[p].op) /\ request[p].op \in DOMAIN Handler
            BY <1>2, Serving
        <3> QED BY <3>1, CallNames
    <2>2. ASSUME NEW s \in AllCalls \ {"check_slow", "next_id"}, NEW c, Follows(s, c)
          PROVE  c \notin {"check_slow", "next_id", "insert"}
        <3>1. CASE s \in {"insert", "set_last", "set_slow", "update", "soft_delete", "delete_each"}
            BY <2>2, <3>1 DEF Follows
        <3>2. CASE s \in {"count_pins", "exists", "set_pinned", "unset_pinned"}
            BY <2>2, <3>2 DEF Follows
        <3>3. CASE s \in {"publish", "insert_pin", "delete_pin"}
            BY <2>2, <3>3 DEF Follows
        <3> QED BY <3>1, <3>2, <3>3 DEF AllCalls
    <2>3. r # None => Follows(request[p].at, r.at) /\ r.user = request[p].user
        BY DEF Turned
    <2> QED BY <2>1, <2>2, <2>3
<1> QED BY <1>1, <1>2, <1>3, <1>4 DEF Unposted, AtOneOf

(* The bounds on events and on messages per user.                          *)
LEMMA CountsStep ==
    ASSUME RequestsOK, RowsOK, FlagsOK, StreamOK, CountsOK, [Next]_vars
    PROVE  CountsOK'
<1>0. /\ started \in Nat /\ started' \in Nat /\ started <= started' /\ Len(stream) \in Nat
      /\ Busy \subseteq Slots /\ Cardinality(Busy) \in Nat
      /\ \A u \in Users : /\ in_window[u] \in Nat /\ Unposted(u) \subseteq Slots
                          /\ Cardinality(Unposted(u)) \in Nat
    <2>1. started \in Nat /\ started' \in Nat /\ started <= started'
        BY FlagsStep, ConstantsAssumption DEF FlagsOK
    <2>2. Busy \subseteq Slots /\ \A u \in Users : Unposted(u) \subseteq Slots
        BY DEF Busy, Unposted
    <2>3. Len(stream) \in Nat
        BY DEF StreamOK
    <2> QED BY <2>1, <2>2, <2>3, SlotsCount DEF CountsOK
<1> DEFINE Fewer == Busy' \subseteq Busy /\ \A u \in Users : Unposted(u)' \subseteq Unposted(u)
<1>1. ASSUME NEW b, b \subseteq Busy
      PROVE  Cardinality(b) \in Nat /\ Cardinality(b) <= Cardinality(Busy)
    BY <1>0, <1>1, SlotsCount
<1>2. ASSUME NEW u \in Users, NEW b, b \subseteq Unposted(u)
      PROVE  Cardinality(b) \in Nat /\ Cardinality(b) <= Cardinality(Unposted(u))
    BY <1>0, <1>2, SlotsCount
<1>3. ASSUME Busy' \subseteq Busy, UNCHANGED stream
      PROVE  Len(stream') + Cardinality(Busy') <= started'
    <2>1. Cardinality(Busy') \in Nat /\ Cardinality(Busy') <= Cardinality(Busy)
        BY <1>1, <1>3
    <2> QED BY <1>0, <1>3, <2>1 DEF CountsOK
<1>4. ASSUME \A u \in Users : Unposted(u)' \subseteq Unposted(u), in_window' \in [Users -> Nat],
             \A u \in Users : in_window'[u] <= in_window[u]
      PROVE  \A u \in Users : in_window'[u] + Cardinality(Unposted(u)') <= started'
    <2>1. ASSUME NEW u \in Users
          PROVE  in_window'[u] + Cardinality(Unposted(u)') <= started'
        <3>1. /\ Cardinality(Unposted(u)') \in Nat
              /\ Cardinality(Unposted(u)') <= Cardinality(Unposted(u))
            BY <1>2, <1>4
        <3>2. in_window'[u] \in Nat /\ in_window'[u] <= in_window[u]
            BY <1>4
        <3>3. in_window[u] + Cardinality(Unposted(u)) <= started
            BY DEF CountsOK
        <3> QED BY <1>0, <3>1, <3>2, <3>3
    <2> QED BY <2>1
<1>5. ASSUME UNCHANGED in_window
      PROVE  in_window' \in [Users -> Nat] /\ \A u \in Users : in_window'[u] <= in_window[u]
    BY <1>0, <1>5 DEF CountsOK
<1>6. ASSUME Fewer, UNCHANGED <<stream, in_window>>
      PROVE  CountsOK'
    BY <1>3, <1>4, <1>5, <1>6 DEF CountsOK
<1>7. ASSUME UNCHANGED request
      PROVE  Fewer
    BY <1>7 DEF Busy, Unposted, AtOneOf
<1>8. ASSUME NEW p \in Slots, Start(p)
      PROVE  CountsOK'
    <2>1. /\ UNCHANGED <<stream, in_window>> /\ started' = started + 1
          /\ \A q \in Slots \ {p} : request'[q] = request[q]
        BY <1>8, Starting DEF Start, rows, Turns
    <2>2. Busy' \subseteq Busy \cup {p} /\ \A u \in Users : Unposted(u)' \subseteq Unposted(u) \cup {p}
        BY <2>1 DEF Busy, Unposted, AtOneOf
    <2>3. ASSUME NEW S, S \subseteq Slots, NEW T, T \subseteq S \cup {p}
          PROVE  Cardinality(T) \in Nat /\ Cardinality(T) <= Cardinality(S) + 1
        <3>1. Cardinality(S) \in Nat /\ Cardinality(S \cup {p}) \in Nat
              /\ Cardinality(S \cup {p}) <= Cardinality(S) + 1
            BY <2>3, SlotsCount
        <3>2. S \cup {p} \subseteq Slots
            BY <2>3
        <3>3. Cardinality(T) \in Nat /\ Cardinality(T) <= Cardinality(S \cup {p})
            BY <2>3, <3>2, SlotsCount
        <3> QED BY <3>1, <3>3
    <2>4. Cardinality(Busy') \in Nat /\ Cardinality(Busy') <= Cardinality(Busy) + 1
        BY <1>0, <2>2, <2>3
    <2>5. ASSUME NEW u \in Users
          PROVE  in_window'[u] + Cardinality(Unposted(u)') <= started'
        <3>1. /\ Cardinality(Unposted(u)') \in Nat
              /\ Cardinality(Unposted(u)') <= Cardinality(Unposted(u)) + 1
            BY <1>0, <2>2, <2>3
        <3>2. in_window[u] + Cardinality(Unposted(u)) <= started
            BY DEF CountsOK
        <3> QED BY <1>0, <2>1, <3>1, <3>2
    <2>6. Len(stream') + Cardinality(Busy') <= started'
        BY <1>0, <2>1, <2>4 DEF CountsOK
    <2> QED BY <1>5, <2>1, <2>5, <2>6 DEF CountsOK
<1>9. ASSUME NEW p \in Slots, Fail(p)
      PROVE  CountsOK'
    <2>1. UNCHANGED <<stream, in_window>> /\ Turns(p, None)
        BY <1>9, OtherMoves DEF Fail, rows
    <2>2. Fewer
        BY <2>1 DEF Turns, Busy, Unposted, AtOneOf
    <2> QED BY <1>6, <2>1, <2>2
<1>10. ASSUME NEW p \in Slots, Serves(p), ~InsertMessage(p), UNCHANGED stream
       PROVE  CountsOK'
    <2>1. UNCHANGED in_window
        BY <1>10 DEF Serves, CheckSlow, NextId, SetLast, SetSlow, UpdateContent, Publish,
           SoftDelete, DeleteEach, CountPins, CheckExists, SetPinned, InsertPin, UnsetPinned,
           DeletePin, rows
    <2>2. Fewer
        BY <1>10, ServedTurn, TurnedCounts
    <2> QED BY <1>6, <1>10, <2>1, <2>2
<1>11. ASSUME NEW p \in Slots, Published(p)
       PROVE  CountsOK'
    <2>1. Len(stream') = Len(stream) + 1 /\ UNCHANGED in_window
        BY <1>11, Appended DEF Published, rows
    <2>2. p \in Busy /\ Turns(p, None)
        BY <1>11 DEF Busy, Published, At
    <2>3. Busy' \subseteq Busy \ {p} /\ \A u \in Users : Unposted(u)' \subseteq Unposted(u)
        BY <2>2 DEF Turns, Busy, Unposted, AtOneOf
    <2>4. Cardinality(Busy \ {p}) \in Nat /\ Cardinality(Busy \ {p}) + 1 <= Cardinality(Busy)
        BY <1>0, <2>2, SlotsCount
    <2>5. Busy \ {p} \subseteq Slots
        BY <1>0
    <2>6. Cardinality(Busy') \in Nat /\ Cardinality(Busy') <= Cardinality(Busy \ {p})
        BY <2>3, <2>5, SlotsCount
    <2>7. Len(stream') + Cardinality(Busy') <= started'
        BY <1>0, <2>1, <2>4, <2>6 DEF CountsOK
    <2> QED BY <1>4, <1>5, <2>1, <2>3, <2>7 DEF CountsOK
<1>12. ASSUME NEW p \in Slots, InsertMessage(p)
       PROVE  CountsOK'
    <2> DEFINE v == request[p].user
    <2>1. /\ request[p] # None /\ request[p].at = "insert" /\ UNCHANGED stream
          /\ in_window' = IF v = None THEN in_window ELSE [in_window EXCEPT ![v] = @ + 1]
        BY <1>12 DEF InsertMessage, At
    <2>2. Busy' \subseteq Busy /\ \A u \in Users : Unposted(u)' \subseteq Unposted(u) \ {p}
        BY <1>12, <2>1, ServedTurn, TurnedCounts DEF Serves
    <2> HIDE DEF v
    <2>3. ASSUME NEW u \in Users
          PROVE  /\ in_window'[u] \in Nat
                 /\ in_window'[u] + Cardinality(Unposted(u)') <= started'
        <3>1. in_window[u] + Cardinality(Unposted(u)) <= started /\ in_window \in [Users -> Nat]
            BY DEF CountsOK
        <3>2. CASE u = v
            <4>1. p \in Unposted(u)
                BY <2>1, <3>2 DEF Unposted, AtOneOf, v
            <4>2. /\ Cardinality(Unposted(u) \ {p}) \in Nat
                  /\ Cardinality(Unposted(u) \ {p}) + 1 <= Cardinality(Unposted(u))
                BY <1>0, <4>1, SlotsCount
            <4>3. Unposted(u) \ {p} \subseteq Slots
                BY <1>0
            <4>4. /\ Cardinality(Unposted(u)') \in Nat
                  /\ Cardinality(Unposted(u)') <= Cardinality(Unposted(u) \ {p})
                BY <2>2, <4>3, SlotsCount
            <4>5. in_window'[u] = in_window[u] + 1
                BY <2>1, <3>1, <3>2, ConstantsAssumption
            <4> QED BY <1>0, <3>1, <4>2, <4>4, <4>5
        <3>3. CASE u # v
            <4>1. in_window'[u] = in_window[u]
                BY <2>1, <3>1, <3>3
            <4>2. /\ Cardinality(Unposted(u)') \in Nat
                  /\ Cardinality(Unposted(u)') <= Cardinality(Unposted(u))
                BY <1>2, <2>2
            <4> QED BY <1>0, <3>1, <4>1, <4>2
        <3> QED BY <3>2, <3>3
    <2>4. in_window' \in [Users -> Nat]
        <3>1. in_window \in [Users -> Nat]
            BY DEF CountsOK
        <3>2. DOMAIN in_window' = Users /\ in_window' = [u \in DOMAIN in_window' |-> in_window'[u]]
            BY <2>1, <3>1
        <3> QED BY <2>3, <3>2
    <2>5. Len(stream') + Cardinality(Busy') <= started'
        BY <1>3, <2>1, <2>2
    <2> QED BY <2>3, <2>4, <2>5 DEF CountsOK
<1>13. ASSUME NEW u \in Users, ExpireSlow(u)
       PROVE  CountsOK'
    <2>1. UNCHANGED <<request, stream>> /\ in_window' = [in_window EXCEPT ![u] = 0]
        BY <1>13 DEF ExpireSlow
    <2>2. in_window' \in [Users -> Nat] /\ \A v \in Users : in_window'[v] <= in_window[v]
        BY <1>0, <2>1 DEF CountsOK
    <2>3. Fewer
        BY <1>7, <2>1
    <2> QED BY <1>3, <1>4, <2>1, <2>2, <2>3 DEF CountsOK
<1>14. ASSUME NEW w \in Workers, Works(w) \/ Disconnect(w)
       PROVE  CountsOK'
    <2>1. UNCHANGED <<request, stream, in_window>>
        BY <1>14, WorkersLeave
    <2> QED BY <1>6, <1>7, <2>1
<1>15. ASSUME UNCHANGED vars
       PROVE  CountsOK'
    <2>1. UNCHANGED <<request, stream, in_window>>
        BY <1>15 DEF vars, rows
    <2> QED BY <1>6, <1>7, <2>1
<1> QED BY <1>8, <1>9, <1>10, <1>11, <1>12, <1>13, <1>14, <1>15, StreamMoves DEF Next

(* No more events than requests.                                           *)
LEMMA EventsBound ==
    ASSUME FlagsOK, StreamOK, CountsOK
    PROVE  /\ Len(stream) \in Nat /\ 1 .. Len(stream) \subseteq Events
           /\ \A u \in Users : in_window[u] \in 0 .. MaxRequests
<1>1. Cardinality(Busy) \in Nat /\ \A u \in Users : Cardinality(Unposted(u)) \in Nat
    <2>1. Busy \subseteq Slots /\ \A u \in Users : Unposted(u) \subseteq Slots
        BY DEF Busy, Unposted
    <2> QED BY <2>1, SlotsCount
<1>2. Len(stream) \in Nat /\ started \in Nat /\ started <= MaxRequests /\ MaxRequests \in Nat
    BY ConstantsAssumption DEF StreamOK, FlagsOK
<1>3. Len(stream) <= MaxRequests
    BY <1>1, <1>2 DEF CountsOK
<1>4. ASSUME NEW u \in Users
      PROVE  in_window[u] \in 0 .. MaxRequests
    <2>1. in_window[u] \in Nat /\ in_window[u] + Cardinality(Unposted(u)) <= started
        BY DEF CountsOK
    <2> QED BY <1>1, <1>2, <2>1
<1> QED BY <1>2, <1>3, <1>4 DEF Events

-----------------------------------------------------------------------------
(* The workers.                                                            *)

(* Counting in a sequence, one longer ...                                  *)
LEMMA CountAppend ==
    ASSUME NEW S, NEW s \in Seq(S), NEW x \in S, NEW e
    PROVE  /\ CountOf(s, e) \in Nat
           /\ CountOf(Append(s, x), e) = CountOf(s, e) + IF x = e THEN 1 ELSE 0
<1> DEFINE n == Len(s)
           A == {i \in 1 .. n : s[i] = e}
           B == {i \in 1 .. Len(Append(s, x)) : Append(s, x)[i] = e}
<1>1. /\ n \in Nat /\ Len(Append(s, x)) = n + 1 /\ Append(s, x)[n + 1] = x
      /\ \A i \in 1 .. n : Append(s, x)[i] = s[i]
    OBVIOUS
<1>2. IsFiniteSet(A) /\ n + 1 \notin A
    <2>1. IsFiniteSet(1 .. n)
        BY <1>1, FS_Interval
    <2>2. n + 1 \notin 1 .. n
        BY <1>1
    <2> QED BY <2>1, <2>2, FS_Subset
<1>3. 1 .. n + 1 = 1 .. n \cup {n + 1}
    BY <1>1
<1>4. B = IF x = e THEN A \cup {n + 1} ELSE A
    BY <1>1, <1>3
<1>5. CountOf(s, e) = Cardinality(A) /\ CountOf(Append(s, x), e) = Cardinality(B)
    BY DEF CountOf
<1> HIDE DEF A, B
<1>6. Cardinality(A) \in Nat
    BY <1>2, FS_CardinalityType
<1>7. Cardinality(A \cup {n + 1}) = Cardinality(A) + 1
    BY <1>2, FS_AddElement
<1> QED BY <1>4, <1>5, <1>6, <1>7

(* ... and one shorter.                                                    *)
LEMMA CountTail ==
    ASSUME NEW S, NEW s \in Seq(S), s # << >>, NEW e
    PROVE  /\ CountOf(Tail(s), e) \in Nat
           /\ CountOf(s, e) = CountOf(Tail(s), e) + IF Head(s) = e THEN 1 ELSE 0
<1> DEFINE n == Len(s)
           A == {i \in 1 .. n : s[i] = e}
           B == {i \in 1 .. Len(Tail(s)) : Tail(s)[i] = e}
           f == [i \in B |-> i + 1]
<1>1. /\ n \in Nat /\ n # 0 /\ Len(Tail(s)) = n - 1 /\ Head(s) = s[1]
      /\ \A i \in 1 .. n - 1 : Tail(s)[i] = s[i + 1]
    OBVIOUS
<1>2. IsFiniteSet(A) /\ IsFiniteSet(B)
    <2>1. IsFiniteSet(1 .. n) /\ IsFiniteSet(1 .. n - 1)
        BY <1>1, FS_Interval
    <2> QED BY <1>1, <2>1, FS_Subset
<1>3. f \in Bijection(B, A \ {1})
    <2>1. \A i \in B : f[i] = i + 1 /\ i \in Nat /\ f[i] \in A \ {1}
        BY <1>1
    <2>2. ASSUME NEW j \in A \ {1}
          PROVE  \E i \in B : f[i] = j
        <3>1. j - 1 \in B
            BY <1>1
        <3>2. f[j - 1] = j
            BY <1>1, <3>1
        <3> QED BY <3>1, <3>2
    <2>3. \A i, k \in B : f[i] = f[k] => i = k
        BY <2>1
    <2> HIDE DEF A, B
    <2>4. f \in [B -> A \ {1}]
        BY <2>1
    <2> HIDE DEF f
    <2> QED BY <2>2, <2>3, <2>4, Fun_IsBij
<1>4. CountOf(s, e) = Cardinality(A) /\ CountOf(Tail(s), e) = Cardinality(B)
    BY DEF CountOf
<1>5. 1 \in A <=> Head(s) = e
    BY <1>1
<1> HIDE DEF A, B, f
<1>6. Cardinality(A \ {1}) = Cardinality(B) /\ IsFiniteSet(A \ {1})
    <2>1. IsFiniteSet(A \ {1})
        BY <1>2, FS_RemoveElement
    <2>2. ExistsBijection(B, A \ {1})
        BY <1>3 DEF ExistsBijection
    <2> QED BY <1>2, <2>1, <2>2, FS_Bijection
<1>7. Cardinality(A \ {1}) = IF 1 \in A THEN Cardinality(A) - 1 ELSE Cardinality(A)
    BY <1>2, FS_RemoveElement
<1>8. Cardinality(A) \in Nat /\ Cardinality(B) \in Nat
    BY <1>2, FS_CardinalityType
<1> QED BY <1>4, <1>5, <1>6, <1>7, <1>8

(* Worker w is done with the first event of its inbox, e.                  *)
Handles(w, e) ==
    /\ inbox[w] # << >> /\ e = Head(inbox[w])
    /\ inbox' = [inbox EXCEPT ![w] = Tail(@)]
    /\ UNCHANGED <<stream, deliveries, connected, messages, request>>
    /\ Acked(w, e) \/ UNCHANGED acked
    /\ index' \subseteq index \cup stream[e].ids
    /\ w # "search-indexer" => UNCHANGED index
    /\ w = "search-indexer" /\ faults' = 0 => Indexed(stream[e], Ids) /\ Acked(w, e)
    /\ w # "push-worker" => UNCHANGED pushed
    /\ \/ UNCHANGED pushed
       \/ /\ stream[e].type = "MESSAGE_CREATE"
          /\ pushed' = [m \in Ids |-> pushed[m] + IF m \in stream[e].ids THEN 1 ELSE 0]
          /\ "unacked" \notin races' => e \in acked'[w]

(* What the three workers do with an event is that much.                   *)
LEMMA HandleMoves ==
    ASSUME faults \in Nat, NEW w \in Workers, Handle(w)
    PROVE  \E e : Handles(w, e)
<1>0. /\ inbox[w] # << >> /\ inbox' = [inbox EXCEPT ![w] = Tail(@)]
      /\ UNCHANGED <<stream, deliveries, connected, messages, request>>
    BY DEF Handle, rows
<1>1. Fault => faults' # 0
    BY DEF Fault
<1>2. ASSUME NEW e
      PROVE  AckedOrNot(w, e) => /\ Acked(w, e) \/ UNCHANGED acked
                                 /\ faults' = 0 => Acked(w, e)
    BY <1>1 DEF AckedOrNot
<1>3. ASSUME NEW e, NEW done, Indexed(stream[e], done)
      PROVE  index' \subseteq index \cup stream[e].ids
    BY <1>3 DEF Indexed, Added
<1>4. ASSUME NEW e, e = Head(inbox[w]), w = "search-indexer", IndexMessage(e)
      PROVE  Handles(w, e)
    <2>1. UNCHANGED pushed
        BY <1>4 DEF IndexMessage
    <2>2. CASE Indexed(stream[e], Ids) /\ AckedOrNot(w, e)
        <3>1. index' \subseteq index \cup stream[e].ids
            BY <1>3, <2>2
        <3>2. (Acked(w, e) \/ UNCHANGED acked) /\ (faults' = 0 => Acked(w, e))
            BY <1>2, <2>2
        <3> QED BY <1>0, <1>4, <2>1, <2>2, <3>1, <3>2 DEF Handles
    <2>3. CASE /\ Fault /\ Acked(w, e)
               /\ \E done \in (SUBSET stream[e].ids) \ {stream[e].ids} : Indexed(stream[e], done)
        <3>1. index' \subseteq index \cup stream[e].ids
            BY <1>3, <2>3
        <3> QED BY <1>0, <1>1, <1>4, <2>1, <2>3, <3>1 DEF Handles
    <2> QED BY <1>4, <2>2, <2>3 DEF IndexMessage
<1>5. ASSUME NEW e, e = Head(inbox[w]), w = "push-worker", PushMessage(e)
      PROVE  Handles(w, e)
    <2>1. /\ UNCHANGED index /\ AckedOrNot(w, e)
          /\ \/ UNCHANGED pushed
             \/ /\ stream[e].type = "MESSAGE_CREATE"
                /\ pushed' = [m \in Ids |-> pushed[m] + IF m \in stream[e].ids THEN 1 ELSE 0]
                /\ Race("unacked", e \notin acked'[w])
        BY <1>5 DEF PushMessage
    <2>2. Race("unacked", e \notin acked'[w]) /\ "unacked" \notin races' => e \in acked'[w]
        BY DEF Race
    <2> QED BY <1>0, <1>2, <1>5, <2>1, <2>2 DEF Handles
<1>6. ASSUME NEW e, e = Head(inbox[w]), w = "read-state-updater", UpdateReadStates(e)
      PROVE  Handles(w, e)
    <2>1. UNCHANGED <<index, pushed>> /\ (UNCHANGED acked \/ AckedOrNot(w, e))
        BY <1>6 DEF UpdateReadStates
    <2> QED BY <1>0, <1>2, <1>6, <2>1 DEF Handles
<1> QED BY <1>4, <1>5, <1>6 DEF Handle

(* What an inbox holds.                                                    *)
LEMMA HeadIs ==
    ASSUME FlagsOK, StreamOK, CountsOK, WorkersOK, NEW w \in Workers, NEW e, Handles(w, e)
    PROVE  /\ e \in Events /\ e \in 1 .. Len(stream) /\ deliveries[w][e] > 0
           /\ stream[e].ids \subseteq Stored
           /\ inbox' \in [Workers -> Seq(Events)] /\ inbox'[w] = Tail(inbox[w])
           /\ \A v \in Workers \ {w} : inbox'[v] = inbox[v]
           /\ Len(inbox[w]) \in Nat /\ Len(inbox[w]) # 0 /\ e = inbox[w][1]
           /\ Len(inbox'[w]) = Len(inbox[w]) - 1
           /\ \A i \in 1 .. Len(inbox'[w]) :
                 i + 1 \in 1 .. Len(inbox[w]) /\ inbox'[w][i] = inbox[w][i + 1]
           /\ \A v \in Workers, d \in Events :
                 /\ CountOf(inbox[v], d) \in Nat /\ CountOf(inbox'[v], d) \in Nat
                 /\ CountOf(inbox[v], d) =
                       CountOf(inbox'[v], d) + IF v = w /\ d = e THEN 1 ELSE 0
<1>1. /\ inbox \in [Workers -> Seq(Events)] /\ inbox[w] \in Seq(Events) /\ inbox[w] # << >>
      /\ e = Head(inbox[w]) /\ inbox' = [inbox EXCEPT ![w] = Tail(inbox[w])]
    BY DEF WorkersOK, Handles
<1>2. /\ Tail(inbox[w]) \in Seq(Events) /\ Len(inbox[w]) \in Nat /\ Len(inbox[w]) # 0
      /\ e = inbox[w][1] /\ e \in Events /\ Len(Tail(inbox[w])) = Len(inbox[w]) - 1
      /\ \A i \in 1 .. Len(inbox[w]) - 1 : Tail(inbox[w])[i] = inbox[w][i + 1]
    BY <1>1
<1>3. /\ inbox' \in [Workers -> Seq(Events)] /\ inbox'[w] = Tail(inbox[w])
      /\ \A v \in Workers \ {w} : inbox'[v] = inbox[v]
    BY <1>1, <1>2
<1>4. /\ deliveries[w][e] > 0 /\ e <= Len(stream) /\ e \in 1 .. Len(stream)
    <2>1. 1 \in 1 .. Len(inbox[w])
        BY <1>2
    <2>2. deliveries[w][e] > 0
        BY <1>2, <2>1 DEF WorkersOK
    <2>3. e <= Len(stream) /\ e \in Nat /\ e >= 1 /\ Len(stream) \in Nat
        BY <1>2, <2>2, EventsBound DEF WorkersOK, Events
    <2> QED BY <2>2, <2>3
<1>5. ASSUME NEW v \in Workers, NEW d \in Events
      PROVE  /\ CountOf(inbox[v], d) \in Nat /\ CountOf(inbox'[v], d) \in Nat
             /\ CountOf(inbox[v], d) = CountOf(inbox'[v], d) + IF v = w /\ d = e THEN 1 ELSE 0
    <2>1. CASE v = w
        <3>1. /\ CountOf(Tail(inbox[w]), d) \in Nat
              /\ CountOf(inbox[w], d) = CountOf(Tail(inbox[w]), d) + IF e = d THEN 1 ELSE 0
            BY <1>1, CountTail
        <3>2. inbox'[v] = Tail(inbox[w]) /\ inbox[v] = inbox[w]
            BY <1>3, <2>1
        <3>3. CASE d = e
            BY <2>1, <3>1, <3>2, <3>3
        <3>4. CASE d # e
            BY <3>1, <3>2, <3>4
        <3> QED BY <3>3, <3>4
    <2>2. CASE v # w
        <3>1. inbox'[v] = inbox[v] /\ inbox[v] \in Seq(Events)
            BY <1>1, <1>3, <2>2
        <3>2. CountOf(inbox[v], d) \in Nat
            BY <1>2, <3>1, CountAppend
        <3> QED BY <2>2, <3>1, <3>2
    <2> QED BY <2>1, <2>2
<1>6. stream[e].ids \subseteq Stored
    BY <1>4 DEF StreamOK
<1>7. \A i \in 1 .. Len(inbox'[w]) : i + 1 \in 1 .. Len(inbox[w])
                                     /\ inbox'[w][i] = inbox[w][i + 1]
    BY <1>2, <1>3
<1>8. Len(inbox'[w]) = Len(inbox[w]) - 1
    BY <1>2, <1>3
<1> QED BY <1>2, <1>3, <1>4, <1>5, <1>6, <1>7, <1>8

(* One more delivery.                                                      *)
LEMMA DeliveryIs ==
    ASSUME WorkersOK, NEW w \in Workers, NEW e \in Events, Deliver(w, e)
    PROVE  /\ deliveries' \in [Workers -> [Events -> 0 .. MaxDeliver]]
           /\ deliveries[w][e] \in Nat /\ deliveries'[w][e] = deliveries[w][e] + 1
           /\ \A v \in Workers, d \in Events :
                 v # w \/ d # e => deliveries'[v][d] = deliveries[v][d]
           /\ inbox' \in [Workers -> Seq(Events)] /\ inbox'[w] = Append(inbox[w], e)
           /\ \A v \in Workers \ {w} : inbox'[v] = inbox[v]
           /\ Len(inbox[w]) \in Nat /\ Len(inbox'[w]) = Len(inbox[w]) + 1
           /\ \A i \in 1 .. Len(inbox[w]) : inbox'[w][i] = inbox[w][i]
           /\ inbox'[w][Len(inbox[w]) + 1] = e
           /\ \A v \in Workers, d \in Events :
                 /\ CountOf(inbox[v], d) \in Nat /\ CountOf(inbox'[v], d) \in Nat
                 /\ CountOf(inbox'[v], d) =
                       CountOf(inbox[v], d) + IF v = w /\ d = e THEN 1 ELSE 0
<1>1. /\ deliveries \in [Workers -> [Events -> 0 .. MaxDeliver]]
      /\ deliveries[w][e] \in 0 .. MaxDeliver /\ deliveries[w][e] < MaxDeliver
      /\ deliveries' = [deliveries EXCEPT ![w][e] = deliveries[w][e] + 1]
    BY DEF WorkersOK, Deliver
<1>2. MaxDeliver \in Nat
    BY ConstantsAssumption
<1> DEFINE n == deliveries[w][e] + 1
           f == [deliveries[w] EXCEPT ![e] = n]
<1>3. n \in 0 .. MaxDeliver
    BY <1>1, <1>2
<1>4. deliveries' = [deliveries EXCEPT ![w] = f]
    BY <1>1
<1>5. f \in [Events -> 0 .. MaxDeliver] /\ f[e] = n
      /\ \A d \in Events \ {e} : f[d] = deliveries[w][d]
    <2> HIDE DEF n
    <2> QED BY <1>1, <1>3
<1> HIDE DEF f
<1>6. /\ deliveries' \in [Workers -> [Events -> 0 .. MaxDeliver]] /\ deliveries'[w] = f
      /\ \A v \in Workers \ {w} : deliveries'[v] = deliveries[v]
    BY <1>1, <1>4, <1>5
<1>7. /\ inbox \in [Workers -> Seq(Events)] /\ inbox[w] \in Seq(Events)
      /\ inbox' = [inbox EXCEPT ![w] = Append(inbox[w], e)]
    BY DEF WorkersOK, Deliver
<1>8. /\ Append(inbox[w], e) \in Seq(Events) /\ Len(inbox[w]) \in Nat
      /\ Len(Append(inbox[w], e)) = Len(inbox[w]) + 1
      /\ \A i \in 1 .. Len(inbox[w]) : Append(inbox[w], e)[i] = inbox[w][i]
      /\ Append(inbox[w], e)[Len(inbox[w]) + 1] = e
    BY <1>7
<1>9. /\ inbox' \in [Workers -> Seq(Events)] /\ inbox'[w] = Append(inbox[w], e)
      /\ \A v \in Workers \ {w} : inbox'[v] = inbox[v]
    BY <1>7, <1>8
<1>10. ASSUME NEW v \in Workers, NEW d \in Events
       PROVE  /\ CountOf(inbox[v], d) \in Nat /\ CountOf(inbox'[v], d) \in Nat
              /\ CountOf(inbox'[v], d) = CountOf(inbox[v], d) + IF v = w /\ d = e THEN 1 ELSE 0
    <2>1. inbox[v] \in Seq(Events)
        BY <1>7
    <2>2. CountOf(inbox[v], d) \in Nat
          /\ CountOf(Append(inbox[v], e), d) = CountOf(inbox[v], d) + IF e = d THEN 1 ELSE 0
        BY <2>1, CountAppend
    <2>3. CASE v = w
        <3>1. inbox'[v] = Append(inbox[v], e)
            BY <1>9, <2>3
        <3>2. CASE d = e
            BY <2>2, <2>3, <3>1, <3>2
        <3>3. CASE d # e
            BY <2>2, <3>1, <3>3
        <3> QED BY <3>2, <3>3
    <2>4. CASE v # w
        <3>1. inbox'[v] = inbox[v]
            BY <1>9, <2>4
        <3> QED BY <2>2, <2>4, <3>1
    <2> QED BY <2>3, <2>4
<1>11. deliveries[w][e] \in Nat /\ deliveries'[w][e] = deliveries[w][e] + 1
    BY <1>1, <1>5, <1>6
<1>12. \A v \in Workers, d \in Events : v # w \/ d # e => deliveries'[v][d] = deliveries[v][d]
    BY <1>5, <1>6
<1>13. /\ Len(inbox[w]) \in Nat /\ Len(inbox'[w]) = Len(inbox[w]) + 1
       /\ \A i \in 1 .. Len(inbox[w]) : inbox'[w][i] = inbox[w][i]
       /\ inbox'[w][Len(inbox[w]) + 1] = e
    BY <1>8, <1>9
<1> QED BY <1>6, <1>9, <1>10, <1>11, <1>12, <1>13

(* A consumer ends, and its inbox is gone, or begins anew.                 *)
Reconnects(w) ==
    /\ UNCHANGED <<stream, deliveries, acked, index, pushed>>
    /\ connected' \subseteq connected \cup {w}
    /\ UNCHANGED inbox \/ (inbox' = [inbox EXCEPT ![w] = << >>] /\ faults' # 0)

(* What the workers do not touch.                                          *)
LEMMA WorkersMoves ==
    ASSUME faults \in Nat, [Next]_vars
    PROVE  \/ UNCHANGED <<deliveries, inbox, acked, index, pushed, connected>>
           \/ \E w \in Workers : \/ \E e \in 1 .. Len(stream) : Deliver(w, e)
                                 \/ \E e : Handles(w, e)
                                 \/ Reconnects(w)
<1>1. ASSUME NEW p \in Slots, Start(p) \/ Serves(p) \/ Fail(p)
      PROVE  UNCHANGED workers
    BY <1>1 DEF Start, Fail, Serves, CheckSlow, NextId, InsertMessage, SetLast, SetSlow,
       UpdateContent, Publish, SoftDelete, DeleteEach, CountPins, CheckExists, SetPinned,
       InsertPin, UnsetPinned, DeletePin
<1>2. ASSUME NEW u \in Users, ExpireSlow(u)
      PROVE  UNCHANGED workers
    BY <1>2 DEF ExpireSlow
<1>3. ASSUME NEW w \in Workers, Disconnect(w) \/ Restart(w)
      PROVE  Reconnects(w)
    BY <1>3 DEF Disconnect, Restart, Reconnects, Fault
<1>4. UNCHANGED vars => UNCHANGED workers
    BY DEF vars
<1>5. ASSUME NEW w \in Workers, Handle(w)
      PROVE  \E e : Handles(w, e)
    BY <1>5, HandleMoves
<1> QED BY <1>1, <1>2, <1>3, <1>4, <1>5 DEF Next, Works, workers

(* An empty inbox holds nothing.                                           *)
LEMMA CountNone ==
    ASSUME NEW e
    PROVE  CountOf(<< >>, e) = 0
<1>1. {i \in 1 .. Len(<< >>) : << >>[i] = e} = {}
    OBVIOUS
<1> QED BY <1>1, FS_EmptySet DEF CountOf

(* The inboxes of a worker that begins anew.                               *)
LEMMA ReconnectIs ==
    ASSUME WorkersOK, NEW w \in Workers, Reconnects(w)
    PROVE  /\ inbox' \in [Workers -> Seq(Events)]
           /\ \A v \in Workers : inbox'[v] = inbox[v] \/ inbox'[v] = << >>
           /\ \A v \in Workers, d \in Events :
                 /\ CountOf(inbox[v], d) \in Nat /\ CountOf(inbox'[v], d) \in Nat
                 /\ CountOf(inbox'[v], d) <= CountOf(inbox[v], d)
<1>1. inbox \in [Workers -> Seq(Events)]
    BY DEF WorkersOK
<1>2. << >> \in Seq(Events)
    OBVIOUS
<1>3. \A v \in Workers : inbox'[v] = inbox[v] \/ inbox'[v] = << >>
    BY <1>1 DEF Reconnects
<1>4. inbox' \in [Workers -> Seq(Events)]
    BY <1>1, <1>2 DEF Reconnects
<1>5. ASSUME NEW v \in Workers, NEW d \in Events
      PROVE  /\ CountOf(inbox[v], d) \in Nat /\ CountOf(inbox'[v], d) \in Nat
             /\ CountOf(inbox'[v], d) <= CountOf(inbox[v], d)
    <2>1. CountOf(inbox[v], d) \in Nat
        BY <1>1, CountAppend
    <2>2. CASE inbox'[v] = inbox[v]
        BY <2>1, <2>2
    <2>3. CASE inbox'[v] = << >>
        BY <2>1, <2>3, CountNone
    <2> QED BY <1>3, <2>2, <2>3
<1> QED BY <1>3, <1>4, <1>5

(* What the workers have been given and have done.                         *)
LEMMA WorkersStep ==
    ASSUME RequestsOK, RowsOK, FlagsOK, StreamOK, CountsOK, WorkersOK, [Next]_vars
    PROVE  WorkersOK'
<1>0. /\ Stored \subseteq Stored' /\ Len(stream) \in Nat /\ Len(stream') \in Nat
      /\ Len(stream) <= Len(stream') /\ 1 .. Len(stream) \subseteq Events /\ faults \in Nat
      /\ 1 .. Len(stream) \subseteq 1 .. Len(stream')
    <2>1. Len(stream) \in Nat /\ Len(stream') \in Nat /\ Len(stream) <= Len(stream')
        BY StreamMoves, Appended, EventsBound
    <2> QED BY <2>1, RowsStep, EventsBound DEF FlagsOK
<1>1. CASE UNCHANGED <<deliveries, inbox, acked, index, connected>>
    <2>1. acked' \in [Workers -> SUBSET (1 .. Len(stream'))]
        BY <1>0, <1>1 DEF WorkersOK
    <2>2. ASSUME NEW w \in Workers, NEW e \in Events, deliveries'[w][e] > 0
          PROVE  e <= Len(stream')
        <3>1. e <= Len(stream) /\ e \in Nat
            BY <1>1, <2>2 DEF WorkersOK, Events
        <3> QED BY <1>0, <3>1
    <2>3. index' \subseteq Stored'
        BY <1>0, <1>1 DEF WorkersOK
    <2> QED BY <1>1, <2>1, <2>2, <2>3 DEF WorkersOK
<1>2. ASSUME NEW w \in Workers, Reconnects(w)
      PROVE  WorkersOK'
    <2>1. /\ inbox' \in [Workers -> Seq(Events)]
          /\ \A v \in Workers : inbox'[v] = inbox[v] \/ inbox'[v] = << >>
          /\ \A v \in Workers, d \in Events :
                /\ CountOf(inbox[v], d) \in Nat /\ CountOf(inbox'[v], d) \in Nat
                /\ CountOf(inbox'[v], d) <= CountOf(inbox[v], d)
        BY <1>2, ReconnectIs
    <2>2. UNCHANGED <<stream, deliveries, acked, index>> /\ connected' \subseteq Workers
        BY <1>2 DEF Reconnects, WorkersOK
    <2>3. ASSUME NEW v \in Workers, NEW i \in 1 .. Len(inbox'[v])
          PROVE  deliveries'[v][inbox'[v][i]] > 0
        <3>1. inbox'[v] = inbox[v]
            BY <2>1
        <3> QED BY <2>2, <3>1 DEF WorkersOK
    <2>4. ASSUME NEW v \in Workers, NEW d \in Events
          PROVE  CountOf(inbox'[v], d) <= deliveries'[v][d]
        <3>1. deliveries[v][d] \in Nat /\ CountOf(inbox[v], d) <= deliveries[v][d]
            BY DEF WorkersOK
        <3> QED BY <2>1, <2>2, <3>1
    <2>5. index' \subseteq Stored'
        BY <1>0, <2>2 DEF WorkersOK
    <2> QED BY <2>1, <2>2, <2>3, <2>4, <2>5 DEF WorkersOK
<1>3. ASSUME NEW w \in Workers, NEW e \in 1 .. Len(stream), Deliver(w, e)
      PROVE  WorkersOK'
    <2>1. e \in Events /\ UNCHANGED <<stream, acked, connected, index>>
        BY <1>0, <1>3 DEF Deliver
    <2>2. /\ deliveries' \in [Workers -> [Events -> 0 .. MaxDeliver]]
          /\ deliveries[w][e] \in Nat /\ deliveries'[w][e] = deliveries[w][e] + 1
          /\ \A v \in Workers, d \in Events :
                v # w \/ d # e => deliveries'[v][d] = deliveries[v][d]
        BY <1>3, <2>1, DeliveryIs
    <2>3. /\ inbox' \in [Workers -> Seq(Events)]
          /\ \A v \in Workers \ {w} : inbox'[v] = inbox[v]
          /\ Len(inbox[w]) \in Nat /\ Len(inbox'[w]) = Len(inbox[w]) + 1
          /\ \A i \in 1 .. Len(inbox[w]) : inbox'[w][i] = inbox[w][i]
          /\ inbox'[w][Len(inbox[w]) + 1] = e
        BY <1>3, <2>1, DeliveryIs
    <2>4. \A v \in Workers, d \in Events :
             /\ CountOf(inbox[v], d) \in Nat /\ CountOf(inbox'[v], d) \in Nat
             /\ CountOf(inbox'[v], d) = CountOf(inbox[v], d) + IF v = w /\ d = e THEN 1 ELSE 0
        BY <1>3, <2>1, DeliveryIs
    <2>5. \A v \in Workers, d \in Events : deliveries[v][d] \in Nat
                                           /\ deliveries[v][d] <= deliveries'[v][d]
        <3>1. ASSUME NEW v \in Workers, NEW d \in Events
              PROVE  deliveries[v][d] \in Nat /\ deliveries[v][d] <= deliveries'[v][d]
            <4>1. deliveries[v][d] \in Nat
                BY DEF WorkersOK
            <4> QED BY <2>2, <4>1
        <3> QED BY <3>1
    <2>6. ASSUME NEW v \in Workers, NEW d \in acked'[v]
          PROVE  deliveries'[v][d] > 0
        <3>1. d \in acked[v] /\ d \in Events /\ deliveries[v][d] > 0
            BY <1>0, <2>1 DEF WorkersOK
        <3>2. deliveries[v][d] \in Nat /\ deliveries[v][d] <= deliveries'[v][d]
              /\ deliveries'[v][d] \in Nat
            BY <2>2, <2>5, <3>1
        <3> QED BY <3>1, <3>2
    <2>7. ASSUME NEW v \in Workers, NEW d \in Events, deliveries'[v][d] > 0
          PROVE  d <= Len(stream')
        <3>1. CASE v = w /\ d = e
            BY <1>0, <2>1, <3>1
        <3>2. CASE v # w \/ d # e
            BY <2>1, <2>2, <2>7, <3>2 DEF WorkersOK
        <3> QED BY <3>1, <3>2
    <2>8. ASSUME NEW v \in Workers, NEW i \in 1 .. Len(inbox'[v])
          PROVE  deliveries'[v][inbox'[v][i]] > 0
        <3>1. CASE v = w /\ i = Len(inbox[w]) + 1
            BY <2>2, <2>3, <3>1
        <3>2. CASE v # w \/ i # Len(inbox[w]) + 1
            <4>1. i \in 1 .. Len(inbox[v]) /\ inbox'[v][i] = inbox[v][i]
                BY <2>3, <3>2
            <4>2. inbox[v] \in Seq(Events)
                BY DEF WorkersOK
            <4>3. inbox[v][i] \in Events
                BY <4>1, <4>2
            <4>4. deliveries[v][inbox[v][i]] > 0
                BY <4>1 DEF WorkersOK
            <4>5. /\ deliveries[v][inbox[v][i]] \in Nat /\ deliveries'[v][inbox[v][i]] \in Nat
                  /\ deliveries[v][inbox[v][i]] <= deliveries'[v][inbox[v][i]]
                BY <2>2, <2>5, <4>3
            <4> QED BY <4>1, <4>4, <4>5
        <3> QED BY <3>1, <3>2
    <2>9. ASSUME NEW v \in Workers, NEW d \in Events
          PROVE  CountOf(inbox'[v], d) <= deliveries'[v][d]
        <3>1. CountOf(inbox[v], d) <= deliveries[v][d] /\ deliveries[v][d] \in Nat
            BY <2>5 DEF WorkersOK
        <3>2. CASE v = w /\ d = e
            BY <2>2, <2>4, <3>1, <3>2
        <3>3. CASE v # w \/ d # e
            <4>1. CountOf(inbox'[v], d) = CountOf(inbox[v], d)
                  /\ deliveries'[v][d] = deliveries[v][d]
                BY <2>2, <2>4, <3>3
            <4> QED BY <3>1, <4>1
        <3> QED BY <3>2, <3>3
    <2>10. acked' \in [Workers -> SUBSET (1 .. Len(stream'))] /\ connected' \subseteq Workers
           /\ index' \subseteq Stored'
        BY <1>0, <2>1 DEF WorkersOK
    <2> QED BY <2>2, <2>3, <2>6, <2>7, <2>8, <2>9, <2>10 DEF WorkersOK
<1>4. ASSUME NEW w \in Workers, NEW e, Handles(w, e)
      PROVE  WorkersOK'
    <2>1. /\ e \in Events /\ e \in 1 .. Len(stream) /\ deliveries[w][e] > 0
          /\ stream[e].ids \subseteq Stored
          /\ inbox' \in [Workers -> Seq(Events)]
          /\ \A v \in Workers \ {w} : inbox'[v] = inbox[v]
          /\ \A i \in 1 .. Len(inbox'[w]) :
                i + 1 \in 1 .. Len(inbox[w]) /\ inbox'[w][i] = inbox[w][i + 1]
        BY <1>4, HeadIs
    <2>2. \A v \in Workers, d \in Events :
             /\ CountOf(inbox[v], d) \in Nat /\ CountOf(inbox'[v], d) \in Nat
             /\ CountOf(inbox[v], d) = CountOf(inbox'[v], d) + IF v = w /\ d = e THEN 1 ELSE 0
        BY <1>4, HeadIs
    <2>3. UNCHANGED <<stream, deliveries, connected>>
        BY <1>4 DEF Handles
    <2>4. acked' \in [Workers -> SUBSET (1 .. Len(stream'))]
          /\ \A v \in Workers : acked'[v] \subseteq IF v = w THEN acked[v] \cup {e} ELSE acked[v]
        <3>1. acked \in [Workers -> SUBSET (1 .. Len(stream))]
            BY DEF WorkersOK
        <3>2. CASE UNCHANGED acked
            BY <2>3, <3>1, <3>2
        <3>3. CASE Acked(w, e)
            <4>1. acked' = [acked EXCEPT ![w] = acked[w] \cup {e}]
                BY <3>3 DEF Acked
            <4>2. acked[w] \cup {e} \in SUBSET (1 .. Len(stream'))
                BY <2>1, <2>3, <3>1
            <4> QED BY <2>3, <3>1, <4>1, <4>2
        <3> QED BY <1>4, <3>2, <3>3 DEF Handles
    <2>5. ASSUME NEW v \in Workers, NEW d \in acked'[v]
          PROVE  deliveries'[v][d] > 0
        <3>1. CASE v = w /\ d = e
            BY <2>1, <2>3, <3>1
        <3>2. CASE v # w \/ d # e
            BY <2>3, <2>4, <2>5, <3>2 DEF WorkersOK
        <3> QED BY <3>1, <3>2
    <2>6. ASSUME NEW v \in Workers, NEW i \in 1 .. Len(inbox'[v])
          PROVE  deliveries'[v][inbox'[v][i]] > 0
        <3>1. CASE v = w
            BY <2>1, <2>3, <3>1 DEF WorkersOK
        <3>2. CASE v # w
            BY <2>1, <2>3, <3>2 DEF WorkersOK
        <3> QED BY <3>1, <3>2
    <2>7. ASSUME NEW v \in Workers, NEW d \in Events
          PROVE  CountOf(inbox'[v], d) <= deliveries'[v][d]
        <3>1. CountOf(inbox[v], d) <= deliveries[v][d] /\ deliveries[v][d] \in Nat
            BY DEF WorkersOK
        <3>2. CountOf(inbox'[v], d) \in Nat /\ CountOf(inbox[v], d) \in Nat
              /\ CountOf(inbox'[v], d) <= CountOf(inbox[v], d)
            BY <2>2
        <3> QED BY <2>3, <3>1, <3>2
    <2>8. index' \subseteq Stored'
        BY <1>0, <1>4, <2>1 DEF Handles, WorkersOK
    <2>9. \A v \in Workers : \A d \in Events : deliveries'[v][d] > 0 => d <= Len(stream')
        BY <2>3 DEF WorkersOK
    <2> QED BY <2>1, <2>3, <2>4, <2>5, <2>6, <2>7, <2>8, <2>9 DEF WorkersOK
<1>5. UNCHANGED <<deliveries, inbox, acked, index, pushed, connected>>
         => UNCHANGED <<deliveries, inbox, acked, index, connected>>
    OBVIOUS
<1> QED BY <1>0, <1>1, <1>2, <1>3, <1>4, <1>5, WorkersMoves

(* The posts after a call: as before, but for one that is given its id.    *)
LEMMA PostingMoves ==
    ASSUME RequestsOK, RowsOK, [Next]_vars, NEW q \in Posting', NEW m \in request'[q].ids
    PROVE  \/ q \in Posting /\ request'[q].ids = request[q].ids
           \/ m = ids_used + 1
<1>1. ASSUME NEW p \in Slots, NEW r, Turns(p, r), q # p
      PROVE  q \in Posting /\ request'[q].ids = request[q].ids
    BY <1>1 DEF Posting, Turns
<1>2. ASSUME NEW p \in Slots, Start(p)
      PROVE  q \in Posting /\ request'[q].ids = request[q].ids
    <2>1. PICK r \in Request : /\ Turns(p, r)
                               /\ r.op \in Posts <=> r.at \in {"check_slow", "next_id"}
        BY <1>2, Starting
    <2>2. q # p
        BY <2>1 DEF Turns, Posting
    <2> QED BY <1>1, <2>1, <2>2
<1>3. ASSUME NEW p \in Slots, Fail(p)
      PROVE  q \in Posting /\ request'[q].ids = request[q].ids
    <2>1. Turns(p, None)
        BY <1>3, OtherMoves
    <2>2. q # p
        BY <2>1 DEF Turns, Posting
    <2> QED BY <1>1, <2>1, <2>2
<1>4. ASSUME NEW p \in Slots, Serves(p)
      PROVE  \/ q \in Posting /\ request'[q].ids = request[q].ids
             \/ m = ids_used + 1
    <2>1. PICK r : Turned(p, r)
        BY <1>4, ServedTurn
    <2>2. Turns(p, r)
        BY <2>1 DEF Turned
    <2>3. CASE q = p
        <3>1. /\ request'[p] = r /\ r # None /\ r.op \in Posts
              /\ r.at \notin {"check_slow", "next_id"}
            BY <2>2, <2>3 DEF Turns, Posting
        <3>2. /\ request[p] # None /\ r.op = request[p].op /\ Follows(request[p].at, r.at)
              /\ request[p].at \notin {"next_id", "delete_each"} => r.ids = request[p].ids
              /\ request[p].at = "next_id" => r.ids = {ids_used + 1}
            BY <2>1, <3>1 DEF Turned
        <3>3. request[p].at # "check_slow" /\ request[p].at # "delete_each"
            <4>1. Goes(request[p].op, request[p].at, Handler[request[p].op][request[p].at])
                BY <3>2, Serving
            <4> QED BY <3>1, <3>2, <4>1 DEF Follows, Goes, Posts
        <3>4. CASE request[p].at = "next_id"
            BY <2>3, <3>1, <3>2, <3>4
        <3>5. CASE request[p].at # "next_id"
            BY <2>3, <3>1, <3>2, <3>3, <3>5 DEF Posting
        <3> QED BY <3>4, <3>5
    <2> QED BY <1>1, <2>2, <2>3
<1>5. ASSUME UNCHANGED request
      PROVE  q \in Posting /\ request'[q].ids = request[q].ids
    BY <1>5 DEF Posting
<1>6. ASSUME NEW u \in Users, ExpireSlow(u)
      PROVE  UNCHANGED request
    BY <1>6 DEF ExpireSlow
<1>7. ASSUME NEW w \in Workers, Works(w) \/ Disconnect(w)
      PROVE  UNCHANGED request
    BY <1>7, WorkersLeave
<1> QED BY <1>2, <1>3, <1>4, <1>5, <1>6, <1>7 DEF Next, vars

(* What the events say of the posts.                                       *)
CreatedOK ==
    /\ \A m \in Ids : \A d, e \in 1 .. Len(stream) : Creates(d, m) /\ Creates(e, m) => d = e
    /\ \A p \in Posting : \A m \in request[p].ids : \A e \in 1 .. Len(stream) : ~Creates(e, m)

(* A message is created once.                                              *)
LEMMA CreatedStep ==
    ASSUME RequestsOK, RowsOK, FlagsOK, StreamOK, CreatedOK, [Next]_vars
    PROVE  CreatedOK'
<1>0. \A e \in 1 .. Len(stream) : stream[e].ids \subseteq Stored /\ ids_used + 1 \notin stream[e].ids
    BY RowsFacts DEF StreamOK
<1>1. CASE UNCHANGED stream
    <2>1. ASSUME NEW q \in Posting', NEW m \in request'[q].ids, NEW e \in 1 .. Len(stream')
          PROVE  ~Creates(e, m)'
        <3>1. CASE q \in Posting /\ request'[q].ids = request[q].ids
            BY <1>1, <2>1, <3>1 DEF CreatedOK, Creates
        <3>2. CASE m = ids_used + 1
            BY <1>0, <1>1, <3>2 DEF Creates
        <3> QED BY <3>1, <3>2, PostingMoves
    <2> QED BY <1>1, <2>1 DEF CreatedOK, Creates
<1>2. CASE \E p \in Slots : Published(p)
    <2>1. PICK p \in Slots : Published(p)
        BY <1>2
    <2> DEFINE last == Len(stream) + 1
               Made(e, m) == stream'[e].type = "MESSAGE_CREATE" /\ m \in stream'[e].ids
    <2>2. /\ Len(stream) \in Nat /\ Len(stream') = last
          /\ \A e \in 1 .. Len(stream) : stream'[e] = stream[e]
          /\ stream'[last] = Event(request[p])
        BY <2>1, Appended
    <2>3. At(p, "publish") /\ request[p] # None /\ request[p].at = "publish" /\ Turns(p, None)
        BY <2>1 DEF Published, At
    <2>4. /\ Event(request[p]).ids = request[p].ids
          /\ Event(request[p]).type = "MESSAGE_CREATE" <=> request[p].op = "send_message"
        BY <2>3, EventIs
    <2>5. 1 .. last = 1 .. Len(stream) \cup {last} /\ last \notin 1 .. Len(stream)
        BY <2>2
    <2> HIDE DEF last
    <2>6. ASSUME NEW m, Made(last, m)
          PROVE  p \in Posting /\ request[p].ids = {m} /\ m \in request[p].ids
        <3>1. request[p].op = "send_message" /\ m \in request[p].ids
            BY <2>2, <2>4, <2>6 DEF Creates
        <3>2. p \in Posting
            BY <2>3, <3>1 DEF Posting, Posts
        <3>3. \E n \in Ids : request[p].ids = {n}
            BY <2>3, <3>1, AboutStored
        <3> QED BY <3>1, <3>2, <3>3
    <2>7. \A m : \A e \in 1 .. Len(stream) : Made(e, m) <=> Creates(e, m)
        BY <2>2 DEF Creates
    <2>8. ASSUME NEW m \in Ids, NEW d \in 1 .. last, NEW e \in 1 .. last, Made(d, m),
                 Made(e, m)
          PROVE  d = e
        <3>1. CASE d \in 1 .. Len(stream) /\ e \in 1 .. Len(stream)
            BY <2>7, <2>8, <3>1 DEF CreatedOK
        <3>2. CASE d \in 1 .. Len(stream) /\ e = last
            BY <2>6, <2>7, <2>8, <3>2 DEF CreatedOK
        <3>3. CASE d = last /\ e \in 1 .. Len(stream)
            BY <2>6, <2>7, <2>8, <3>3 DEF CreatedOK
        <3> QED BY <2>5, <2>8, <3>1, <3>2, <3>3
    <2>9. ASSUME NEW q \in Posting', NEW m \in request'[q].ids, NEW e \in 1 .. last, Made(e, m)
          PROVE  FALSE
        <3>1. q # p /\ q \in Posting /\ request'[q].ids = request[q].ids
            BY <2>3, <2>9 DEF Turns, Posting
        <3>2. CASE e \in 1 .. Len(stream)
            BY <2>7, <2>9, <3>1, <3>2 DEF CreatedOK
        <3>3. CASE e = last
            <4>1. p \in Posting /\ request[p].ids = {m}
                BY <2>6, <2>9, <3>3
            <4>2. request[q].ids # request[p].ids
                BY <3>1, <4>1 DEF RequestsOK
            <4>3. \E n \in Ids : request[q].ids = {n}
                <5>1. /\ request[q] # None /\ request[q].op \in Posts
                      /\ request[q].at \notin {"check_slow", "next_id"} /\ q \in Slots
                    BY <3>1 DEF Posting
                <5> QED BY <5>1, Serving DEF Placed, PlacedIn, Posts
            <4> QED BY <2>9, <3>1, <4>1, <4>2, <4>3
        <3> QED BY <2>5, <2>9, <3>2, <3>3
    <2>10. \A e, m : Creates(e, m)' <=> Made(e, m)
        BY DEF Creates
    <2> QED BY <2>2, <2>8, <2>9, <2>10 DEF CreatedOK
<1> QED BY <1>1, <1>2, StreamMoves

(* As many notifications for a message as deliveries of its event at most. *)
LEMMA PushedStep ==
    ASSUME RequestsOK, RowsOK, FlagsOK, StreamOK, CountsOK, WorkersOK, PushedOK, [Next]_vars
    PROVE  PushedOK'
<1> DEFINE w == "push-worker"
           Bound == w \in Workers =>
              \A m \in Ids : \A e \in 1 .. Len(stream') : Creates(e, m)' =>
                 pushed'[m] + CountOf(inbox'[w], e) <= deliveries'[w][e]
           Caused == pushed' \in [Ids -> Nat] /\ \A m \in Ids : pushed'[m] > 0 =>
              w \in Workers /\ \E e \in 1 .. Len(stream') : Creates(e, m)'
<1>0. /\ CreatedOK /\ Len(stream) \in Nat /\ Len(stream') \in Nat /\ Len(stream) <= Len(stream')
      /\ 1 .. Len(stream) \subseteq Events /\ 1 .. Len(stream) \subseteq 1 .. Len(stream')
      /\ \A e \in 1 .. Len(stream) : stream'[e] = stream[e]
      /\ faults \in Nat
    <2>1. /\ Len(stream) \in Nat /\ Len(stream') \in Nat /\ Len(stream) <= Len(stream')
          /\ \A e \in 1 .. Len(stream) : stream'[e] = stream[e]
        BY StreamMoves, Appended, EventsBound
    <2> QED BY <2>1, EventsBound DEF FlagsOK, PushedOK, CreatedOK
<1>1. CreatedOK'
    BY <1>0, CreatedStep
<1>2. \A m : \A e \in 1 .. Len(stream) : Creates(e, m)' <=> Creates(e, m)
    BY <1>0 DEF Creates
<1>3. /\ pushed \in [Ids -> Nat]
      /\ \A m \in Ids : pushed[m] > 0 => w \in Workers /\ \E e \in 1 .. Len(stream) : Creates(e, m)
      /\ w \in Workers => \A m \in Ids : \A e \in 1 .. Len(stream) : Creates(e, m) =>
            pushed[m] + CountOf(inbox[w], e) <= deliveries[w][e]
    BY DEF PushedOK
<1>4. w \in Workers => \A e \in Events : /\ deliveries[w][e] \in Nat
                                         /\ CountOf(inbox[w], e) \in Nat
                                         /\ e > Len(stream) => deliveries[w][e] = 0
                                         /\ CountOf(inbox[w], e) <= deliveries[w][e]
    <2>1. ASSUME w \in Workers, NEW e \in Events
          PROVE  /\ deliveries[w][e] \in Nat /\ CountOf(inbox[w], e) \in Nat
                 /\ e > Len(stream) => deliveries[w][e] = 0
                 /\ CountOf(inbox[w], e) <= deliveries[w][e]
        <3>1. deliveries[w][e] \in Nat /\ inbox[w] \in Seq(Events)
            BY <2>1 DEF WorkersOK
        <3>2. CountOf(inbox[w], e) \in Nat
            BY <3>1, CountAppend
        <3>3. e > Len(stream) => ~(deliveries[w][e] > 0)
            <4>1. e \in Nat
                BY DEF Events
            <4> QED BY <1>0, <2>1, <4>1 DEF WorkersOK
        <3>4. CountOf(inbox[w], e) <= deliveries[w][e]
            BY <2>1 DEF WorkersOK
        <3> QED BY <3>1, <3>2, <3>3, <3>4
    <2> QED BY <2>1
<1>5. 1 .. Len(stream') \subseteq Events
    <2>1. CountsOK' /\ FlagsOK' /\ StreamOK'
        BY CountsStep, FlagsStep, StreamStep
    <2>2. Busy' \subseteq Slots
        BY DEF Busy
    <2>3. /\ Cardinality(Busy') \in Nat /\ Len(stream') \in Nat /\ started' \in Nat
          /\ started' <= MaxRequests /\ MaxRequests \in Nat
        BY <2>1, <2>2, SlotsCount, ConstantsAssumption DEF FlagsOK, StreamOK
    <2>4. Len(stream') <= MaxRequests
        BY <2>1, <2>3 DEF CountsOK
    <2> QED BY <2>3, <2>4 DEF Events
<1>6. ASSUME UNCHANGED pushed
      PROVE  Caused
    <2>1. ASSUME NEW m \in Ids, pushed'[m] > 0
          PROVE  w \in Workers /\ \E e \in 1 .. Len(stream') : Creates(e, m)'
        <3>1. PICK e \in 1 .. Len(stream) : w \in Workers /\ Creates(e, m)
            BY <1>3, <1>6, <2>1
        <3> QED BY <1>0, <1>2, <3>1
    <2> QED BY <1>3, <1>6, <2>1
<1>7. ASSUME NEW m \in Ids, NEW e \in 1 .. Len(stream'), Creates(e, m)', w \in Workers
      PROVE  \/ e \in 1 .. Len(stream) /\ Creates(e, m)
             \/ pushed[m] = 0 /\ CountOf(inbox[w], e) = 0 /\ e \in Events
    <2>1. CASE e \in 1 .. Len(stream)
        BY <1>2, <1>7, <2>1
    <2>2. CASE e \notin 1 .. Len(stream)
        <3>1. e > Len(stream)
            BY <1>0, <2>2
        <3>2. CountOf(inbox[w], e) = 0
            BY <1>4, <1>5, <1>7, <3>1
        <3>3. ASSUME pushed[m] > 0
              PROVE  FALSE
            <4>1. PICK d \in 1 .. Len(stream) : Creates(d, m)
                BY <1>3, <3>3
            <4>2. d \in 1 .. Len(stream') /\ Creates(d, m)'
                BY <1>0, <1>2, <4>1
            <4>3. d = e
                BY <1>1, <1>7, <4>2 DEF CreatedOK
            <4> QED BY <2>2, <4>1, <4>3
        <3>4. pushed[m] = 0
            BY <1>3, <3>3
        <3> QED BY <1>5, <3>2, <3>4
    <2> QED BY <2>1, <2>2
<1>8. ASSUME UNCHANGED pushed,
             w \in Workers => \A e \in Events :
                /\ CountOf(inbox'[w], e) \in Nat /\ deliveries'[w][e] \in Nat
                /\ CountOf(inbox'[w], e) - CountOf(inbox[w], e)
                      <= deliveries'[w][e] - deliveries[w][e]
      PROVE  Bound
    <2>1. ASSUME w \in Workers, NEW m \in Ids, NEW e \in 1 .. Len(stream'), Creates(e, m)'
          PROVE  pushed'[m] + CountOf(inbox'[w], e) <= deliveries'[w][e]
        <3>1. /\ CountOf(inbox'[w], e) \in Nat /\ deliveries'[w][e] \in Nat
              /\ CountOf(inbox[w], e) \in Nat /\ deliveries[w][e] \in Nat
              /\ CountOf(inbox'[w], e) - CountOf(inbox[w], e)
                    <= deliveries'[w][e] - deliveries[w][e]
              /\ CountOf(inbox[w], e) <= deliveries[w][e]
              /\ pushed[m] \in Nat /\ pushed'[m] = pushed[m]
            BY <1>3, <1>4, <1>5, <1>8, <2>1
        <3>2. CASE e \in 1 .. Len(stream) /\ Creates(e, m)
            <4>1. pushed[m] + CountOf(inbox[w], e) <= deliveries[w][e]
                BY <1>3, <2>1, <3>2
            <4> QED BY <3>1, <4>1
        <3>3. CASE pushed[m] = 0
            BY <3>1, <3>3
        <3> QED BY <1>7, <2>1, <3>2, <3>3
    <2> QED BY <2>1
<1>9. CASE UNCHANGED <<deliveries, inbox, pushed>>
    <2>1. w \in Workers => \A e \in Events :
             /\ CountOf(inbox'[w], e) \in Nat /\ deliveries'[w][e] \in Nat
             /\ CountOf(inbox'[w], e) - CountOf(inbox[w], e)
                   <= deliveries'[w][e] - deliveries[w][e]
        BY <1>4, <1>9
    <2>2. Bound
        BY <1>8, <1>9, <2>1
    <2>3. Caused
        BY <1>6, <1>9
    <2> QED BY <1>1, <2>2, <2>3 DEF PushedOK, CreatedOK
<1>10. ASSUME NEW v \in Workers, Reconnects(v)
       PROVE  PushedOK'
    <2>1. \A u \in Workers, d \in Events :
             /\ CountOf(inbox[u], d) \in Nat /\ CountOf(inbox'[u], d) \in Nat
             /\ CountOf(inbox'[u], d) <= CountOf(inbox[u], d)
        BY <1>10, ReconnectIs
    <2>2. UNCHANGED <<deliveries, pushed>>
        BY <1>10 DEF Reconnects
    <2>3. w \in Workers => \A e \in Events :
             /\ CountOf(inbox'[w], e) \in Nat /\ deliveries'[w][e] \in Nat
             /\ CountOf(inbox'[w], e) - CountOf(inbox[w], e)
                   <= deliveries'[w][e] - deliveries[w][e]
        BY <1>4, <2>1, <2>2
    <2>4. Bound /\ Caused
        BY <1>6, <1>8, <2>2, <2>3
    <2> QED BY <1>1, <2>4 DEF PushedOK, CreatedOK
<1>11. ASSUME NEW v \in Workers, NEW e \in 1 .. Len(stream), Deliver(v, e)
       PROVE  PushedOK'
    <2>1. e \in Events /\ UNCHANGED pushed
        BY <1>0, <1>11 DEF Deliver
    <2>2. /\ deliveries[v][e] \in Nat /\ deliveries'[v][e] = deliveries[v][e] + 1
          /\ \A x \in Workers, d \in Events :
                x # v \/ d # e => deliveries'[x][d] = deliveries[x][d]
          /\ \A x \in Workers, d \in Events :
                /\ CountOf(inbox[x], d) \in Nat /\ CountOf(inbox'[x], d) \in Nat
                /\ CountOf(inbox'[x], d) = CountOf(inbox[x], d) + IF x = v /\ d = e THEN 1 ELSE 0
        BY <1>11, <2>1, DeliveryIs
    <2>3. ASSUME w \in Workers, NEW d \in Events
          PROVE  /\ CountOf(inbox'[w], d) \in Nat /\ deliveries'[w][d] \in Nat
                 /\ CountOf(inbox'[w], d) - CountOf(inbox[w], d)
                       <= deliveries'[w][d] - deliveries[w][d]
        <3>1. CASE w = v /\ d = e
            BY <2>2, <2>3, <3>1
        <3>2. CASE w # v \/ d # e
            <4>1. deliveries'[w][d] = deliveries[w][d] /\ CountOf(inbox'[w], d) = CountOf(inbox[w], d)
                BY <2>2, <2>3, <3>2
            <4> QED BY <1>4, <2>3, <4>1
        <3> QED BY <3>1, <3>2
    <2>4. Bound /\ Caused
        BY <1>6, <1>8, <2>1, <2>3
    <2> QED BY <1>1, <2>4 DEF PushedOK, CreatedOK
<1>12. ASSUME NEW v \in Workers, NEW e, Handles(v, e)
       PROVE  PushedOK'
    <2>1. /\ e \in Events /\ e \in 1 .. Len(stream)
          /\ \A x \in Workers, d \in Events :
                /\ CountOf(inbox[x], d) \in Nat /\ CountOf(inbox'[x], d) \in Nat
                /\ CountOf(inbox[x], d) = CountOf(inbox'[x], d) + IF x = v /\ d = e THEN 1 ELSE 0
        BY <1>12, HeadIs
    <2>2. UNCHANGED <<deliveries, stream>>
        BY <1>12 DEF Handles
    <2>3. CASE UNCHANGED pushed
        <3>1. w \in Workers => \A d \in Events :
                 /\ CountOf(inbox'[w], d) \in Nat /\ deliveries'[w][d] \in Nat
                 /\ CountOf(inbox'[w], d) - CountOf(inbox[w], d)
                       <= deliveries'[w][d] - deliveries[w][d]
            BY <1>4, <2>1, <2>2
        <3>2. Bound /\ Caused
            BY <1>6, <1>8, <2>3, <3>1
        <3> QED BY <1>1, <3>2 DEF PushedOK, CreatedOK
    <2>4. CASE /\ stream[e].type = "MESSAGE_CREATE" /\ v = w
               /\ pushed' = [m \in Ids |-> pushed[m] + IF m \in stream[e].ids THEN 1 ELSE 0]
        <3>1. /\ \A m \in Ids : /\ pushed[m] \in Nat /\ pushed'[m] \in Nat
                                /\ m \in stream[e].ids => pushed'[m] = pushed[m] + 1
                                /\ m \notin stream[e].ids => pushed'[m] = pushed[m]
              /\ pushed' \in [Ids -> Nat]
            BY <1>3, <2>4
        <3>2. ASSUME NEW m \in Ids, pushed'[m] > 0
              PROVE  w \in Workers /\ \E d \in 1 .. Len(stream') : Creates(d, m)'
            <4>1. CASE m \in stream[e].ids
                <5>1. Creates(e, m)'
                    BY <2>2, <2>4, <4>1 DEF Creates
                <5> QED BY <2>1, <2>2, <2>4, <5>1
            <4>2. CASE m \notin stream[e].ids
                BY <1>0, <1>2, <1>3, <3>1, <3>2, <4>2
            <4> QED BY <4>1, <4>2
        <3>3. ASSUME NEW m \in Ids, NEW d \in 1 .. Len(stream'), Creates(d, m)'
              PROVE  pushed'[m] + CountOf(inbox'[w], d) <= deliveries'[w][d]
            <4>1. d \in 1 .. Len(stream) /\ Creates(d, m) /\ d \in Events
                BY <1>0, <1>2, <2>2, <3>3
            <4>2. /\ pushed[m] + CountOf(inbox[w], d) <= deliveries[w][d]
                  /\ CountOf(inbox[w], d) \in Nat /\ CountOf(inbox'[w], d) \in Nat
                  /\ CountOf(inbox[w], d) = CountOf(inbox'[w], d) + IF d = e THEN 1 ELSE 0
                  /\ deliveries[w][d] \in Nat
                BY <1>3, <1>4, <2>1, <2>4, <4>1
            <4>3. CASE d = e
                <5>1. m \in stream[e].ids
                    BY <4>1, <4>3 DEF Creates
                <5> QED BY <2>2, <3>1, <4>2, <4>3, <5>1
            <4>4. CASE d # e
                <5>1. m \notin stream[e].ids
                    <6>1. m \in stream[e].ids => Creates(e, m)
                        BY <2>4 DEF Creates
                    <6> QED BY <1>0, <2>1, <4>1, <4>4, <6>1 DEF CreatedOK
                <5> QED BY <2>2, <3>1, <4>2, <4>4, <5>1
            <4> QED BY <4>3, <4>4
        <3> QED BY <1>1, <3>1, <3>2, <3>3 DEF PushedOK, CreatedOK
    <2> QED BY <1>12, <2>3, <2>4 DEF Handles
<1>13. UNCHANGED <<deliveries, inbox, acked, index, pushed, connected>>
          => UNCHANGED <<deliveries, inbox, pushed>>
    OBVIOUS
<1> QED BY <1>0, <1>9, <1>10, <1>11, <1>12, <1>13, WorkersMoves

(* The type invariant is kept.                                             *)
LEMMA TypeStep ==
    ASSUME TypeInv, [Next]_vars
    PROVE  TypeInv'
BY RowsStep, FlagsStep, StreamStep, CountsStep, WorkersStep, PushedStep DEF TypeInv

-----------------------------------------------------------------------------
(* Deletions.                                                              *)

(* Which calls write rows.                                                 *)
LEMMA MessagesMoves ==
    ASSUME [Next]_vars
    PROVE  \/ UNCHANGED messages
           \/ \E p \in Slots : \/ InsertMessage(p) \/ UpdateContent(p) \/ SoftDelete(p)
                               \/ DeleteEach(p) \/ SetPinned(p) \/ UnsetPinned(p)
<1>1. ASSUME NEW p \in Slots, Serves(p)
      PROVE  \/ UNCHANGED messages
             \/ InsertMessage(p) \/ UpdateContent(p) \/ SoftDelete(p)
             \/ DeleteEach(p) \/ SetPinned(p) \/ UnsetPinned(p)
    <2>1. ASSUME CheckSlow(p) \/ Publish(p) \/ CountPins(p) \/ CheckExists(p)
          PROVE  UNCHANGED messages
        BY <2>1 DEF CheckSlow, Publish, CountPins, CheckExists, rows
    <2>2. ASSUME NextId(p) \/ SetLast(p) \/ SetSlow(p) \/ InsertPin(p) \/ DeletePin(p)
          PROVE  UNCHANGED messages
        BY <2>2 DEF NextId, SetLast, SetSlow, InsertPin, DeletePin
    <2> QED BY <1>1, <2>1, <2>2 DEF Serves
<1>2. ASSUME NEW p \in Slots, Start(p) \/ Fail(p)
      PROVE  UNCHANGED messages
    BY <1>2 DEF Start, Fail, rows
<1>3. ASSUME NEW u \in Users, ExpireSlow(u)
      PROVE  UNCHANGED messages
    BY <1>3 DEF ExpireSlow
<1>4. ASSUME NEW w \in Workers, Works(w) \/ Disconnect(w)
      PROVE  UNCHANGED messages
    BY <1>4, WorkersLeave
<1>5. UNCHANGED vars => UNCHANGED messages
    BY DEF vars, rows
<1> QED BY <1>1, <1>2, <1>3, <1>4, <1>5 DEF Next

(* What a call does to the served messages.                                *)
LEMMA LiveMoves ==
    ASSUME RequestsOK, RowsOK, FlagsOK, NEW p \in Slots
    PROVE  /\ InsertMessage(p) => \E m \in Ids \ Stored :
                 request[p].ids = {m} /\ Stored' = Stored \cup {m} /\ Live' = Live \cup {m}
           /\ UpdateContent(p) \/ SetPinned(p) \/ UnsetPinned(p) =>
                 Stored' = Stored /\ Live' = Live
           /\ SoftDelete(p) => \E m \in Stored :
                 /\ request[p].ids = {m} /\ Subject(p) = m
                 /\ Stored' = Stored /\ Live' = Live \ {m}
           /\ \A m, r : Deletes1(p, m, r) /\ request[p].at = "delete_each" /\ request[p] # None =>
                 \/ /\ Stored' = Stored /\ Live' = Live /\ faults' # 0
                    /\ r.ids = request[p].ids \ {m}
                 \/ /\ m \in Stored /\ r.ids = request[p].ids
                    /\ Stored' = Stored /\ Live' = Live \ {m}
                    /\ races' = IF Unpublished(m) THEN races \cup {"event"} ELSE races
<1>0. MessagesTyped /\ faults \in Nat
    BY RowsFacts DEF FlagsOK
<1>1. ASSUME InsertMessage(p)
      PROVE  \E m \in Ids \ Stored :
                 request[p].ids = {m} /\ Stored' = Stored \cup {m} /\ Live' = Live \cup {m}
    <2>1. PICK m \in Ids : request[p].ids = {m} /\ Inserted(m, request[p].user)
        BY <1>0, <1>1, Writing
    <2> QED BY <1>0, <2>1, RowsThen
<1>2. ASSUME UpdateContent(p)
      PROVE  Stored' = Stored /\ Live' = Live
    BY <1>0, <1>2, Writing, RowsThen
<1>3. ASSUME SetPinned(p)
      PROVE  Stored' = Stored /\ Live' = Live
    BY <1>0, <1>3, Writing, RowsThen
<1>4. ASSUME UnsetPinned(p)
      PROVE  Stored' = Stored /\ Live' = Live
    BY <1>0, <1>4, Writing, RowsThen
<1>5. ASSUME SoftDelete(p)
      PROVE  \E m \in Stored : /\ request[p].ids = {m} /\ Subject(p) = m
                               /\ Stored' = Stored /\ Live' = Live \ {m}
    <2>1. PICK m \in Stored : /\ request[p].ids = {m} /\ Subject(p) = m
                              /\ Rewritten(m, TRUE, messages[m].pinned)
        BY <1>0, <1>5, Writing
    <2> QED BY <1>0, <2>1, RowsThen
<1>6. ASSUME NEW m, NEW r, Deletes1(p, m, r), request[p].at = "delete_each", request[p] # None
      PROVE  \/ /\ Stored' = Stored /\ Live' = Live /\ faults' # 0
                /\ r.ids = request[p].ids \ {m}
             \/ /\ m \in Stored /\ r.ids = request[p].ids
                /\ Stored' = Stored /\ Live' = Live \ {m}
                /\ races' = IF Unpublished(m) THEN races \cup {"event"} ELSE races
    <2>1. CASE UNCHANGED messages /\ faults' # 0 /\ r.ids = request[p].ids \ {m}
        BY <1>0, <2>1, RowsThen
    <2>2. CASE /\ m \in Stored /\ Rewritten(m, TRUE, messages[m].pinned)
               /\ r.ids = request[p].ids
               /\ races' = IF Unpublished(m) THEN races \cup {"event"} ELSE races
        BY <1>0, <2>2, RowsThen
    <2> QED BY <1>0, <1>6, <2>1, <2>2, Writing
<1> QED BY <1>1, <1>2, <1>3, <1>4, <1>5, <1>6

(* What a step leaves of what is being told of, and of what is served.     *)
LEMMA RemovingStep ==
    ASSUME RequestsOK, RowsOK, FlagsOK, [Next]_vars
    PROVE  /\ Live' \cap Stored \subseteq Live
           /\ \A m \in Live \ Live' : \E p \in Slots : m \in Removing(p)'
           /\ \A q \in Slots : /\ Removing(q) \subseteq Stored
                               /\ Removing(q)' \subseteq Removing(q) \cup (Stored \ Live')
                               /\ \/ faults' # 0 \/ Published(q)
                                  \/ Removing(q) \subseteq Removing(q)'
<1> DEFINE Kept(q) == Removing(q)' = Removing(q)
           Lives == Live' \cap Stored \subseteq Live
                    /\ \A m \in Live \ Live' : \E p \in Slots : m \in Removing(p)'
           Good(q) == /\ Removing(q)' \subseteq Removing(q) \cup (Stored \ Live')
                      /\ \/ faults' # 0 \/ Published(q)
                         \/ Removing(q) \subseteq Removing(q)'
<1>0. MessagesTyped /\ Live \subseteq Stored /\ faults \in Nat
    BY RowsFacts DEF Live, Stored, FlagsOK
<1>1. ASSUME NEW q \in Slots
      PROVE  Removing(q) \subseteq Stored
    BY Serving DEF Removing, Placed, PlacedIn, Deletes, Posts
<1>2. ASSUME NEW p \in Slots, NEW r, Turns(p, r), NEW q \in Slots \ {p}
      PROVE  Kept(q)
    BY <1>2 DEF Turns, Removing
<1>3. ASSUME NEW q \in Slots, Kept(q)
      PROVE  Good(q)
    BY <1>3
<1>4. ASSUME UNCHANGED messages
      PROVE  Live' = Live /\ Stored' = Stored
    BY <1>0, <1>4, RowsThen
<1>5. ASSUME UNCHANGED messages
      PROVE  Lives
    BY <1>4, <1>5
<1>6. ASSUME NEW p \in Slots, NEW r, Turned(p, r),
             request[p].at \notin {"soft_delete", "delete_each", "publish"}
      PROVE  Kept(p)
    <2>1. /\ request[p] # None /\ request'[p] = r
          /\ r # None => r.op = request[p].op
        BY <1>6 DEF Turned, Turns
    <2>2. request[p].op \notin Deletes
        BY <1>6, <2>1, Serving, CallsOf DEF Deletes
    <2> QED BY <2>1, <2>2 DEF Removing
<1>7. ASSUME NEW p \in Slots, Start(p)
      PROVE  Lives /\ \A q \in Slots : Good(q)
    <2>1. UNCHANGED messages
        BY <1>7 DEF Start, rows
    <2>2. PICK r \in Request :
             /\ Turns(p, r) /\ r.todo = r.ids
             /\ r.at \in {"check_slow", "next_id", "update", "soft_delete", "delete_each",
                          "count_pins", "unset_pinned"}
        BY <1>7, Starting
    <2>3. Removing(p) = {} /\ Removing(p)' = {}
        BY <1>7, <2>2, Starting DEF Removing, Turns
    <2>4. Kept(p)
        BY <2>3
    <2> QED BY <1>2, <1>3, <1>5, <2>1, <2>2, <2>4
<1>8. ASSUME NEW p \in Slots, Fail(p)
      PROVE  Lives /\ \A q \in Slots : Good(q)
    <2>1. UNCHANGED messages /\ faults' # 0
        BY <1>0, <1>8 DEF Fail, rows, Fault
    <2>2. Turns(p, None)
        BY <1>8, OtherMoves
    <2>3. Removing(p)' = {}
        BY <2>2 DEF Removing, Turns
    <2>4. Good(p)
        BY <2>1, <2>3
    <2> QED BY <1>2, <1>3, <1>5, <2>1, <2>2, <2>4
<1>9. ASSUME NEW p \in Slots, Serves(p)
      PROVE  Lives /\ \A q \in Slots : Good(q)
    <2>1. PICK r : Turned(p, r) /\ Turns(p, r) /\ request[p] # None
        BY <1>9, ServedTurn DEF Turned
    <2>2. \A q \in Slots \ {p} : Good(q)
        BY <1>2, <1>3, <2>1
    <2>3. CASE SoftDelete(p)
        <3>1. PICK m \in Stored : /\ request[p].ids = {m} /\ Stored' = Stored
                                  /\ Live' = Live \ {m}
            BY <2>3, LiveMoves
        <3>2. /\ At(p, "soft_delete") /\ request[p].at = "soft_delete"
              /\ request[p].op = "delete_message"
            BY <2>1, <2>3, Serving DEF SoftDelete, At, Goes
        <3>3. r # None /\ r.op = "delete_message" /\ r.at = "publish" /\ r.ids = {m}
            BY <2>1, <3>1, <3>2 DEF Turned, Follows
        <3>4. Removing(p) = {} /\ Removing(p)' = {m}
            BY <2>1, <3>2, <3>3 DEF Removing, Turns, Deletes
        <3>5. Good(p)
            BY <3>1, <3>4
        <3>6. Lives
            BY <3>1, <3>4
        <3> QED BY <2>2, <3>5, <3>6
    <2>4. CASE DeleteEach(p)
        <3>1. PICK m, s : At(p, "delete_each") /\ Deletes1(p, m, s)
            BY <2>4, DeleteEachMoves
        <3>2. request[p].at = "delete_each" /\ request[p] # None
              /\ request[p].op = "bulk_delete"
            BY <3>1, Serving DEF At, Goes
        <3>3. /\ Turns(p, s) /\ s \in Request /\ s.op = "bulk_delete"
              /\ m \in request[p].todo /\ s.todo = request[p].todo \ {m}
              /\ s.at = "delete_each" \/ (s.at = "publish" /\ s.todo = {})
            BY <3>1, <3>2 DEF Deletes1
        <3>4. s # None /\ request'[p] = s
            BY <3>3, NoneAssumption DEF Turns
        <3>5. Removing(p) = request[p].ids \ request[p].todo
            BY <3>2 DEF Removing, Deletes
        <3>6. Removing(p)' = s.ids \ s.todo
            BY <3>3, <3>4 DEF Removing, Deletes
        <3>7. CASE /\ Stored' = Stored /\ Live' = Live /\ faults' # 0
                   /\ s.ids = request[p].ids \ {m}
            <4>1. Removing(p)' \subseteq Removing(p)
                BY <3>3, <3>5, <3>6, <3>7
            <4> QED BY <2>2, <3>7, <4>1
        <3>8. CASE /\ m \in Stored /\ s.ids = request[p].ids
                   /\ Stored' = Stored /\ Live' = Live \ {m}
            <4>1. m \in request[p].ids
                BY <3>2, <3>3, Serving DEF Placed, PlacedIn, Posts
            <4>2. Removing(p)' = Removing(p) \cup {m}
                BY <3>3, <3>5, <3>6, <3>8, <4>1
            <4> QED BY <2>2, <3>8, <4>2
        <3> QED BY <3>1, <3>2, <3>7, <3>8, LiveMoves
    <2>5. CASE Publish(p)
        <3>1. UNCHANGED messages /\ Turns(p, None)
            BY <2>5, OtherMoves DEF Publish, rows
        <3>2. Removing(p)' = {}
            BY <3>1 DEF Removing, Turns
        <3>3. Published(p) \/ faults' # 0
            BY <1>0, <2>5, OtherMoves DEF Publish, Published, Fault
        <3> QED BY <1>5, <2>2, <3>1, <3>2, <3>3
    <2>6. CASE ~SoftDelete(p) /\ ~DeleteEach(p) /\ ~Publish(p)
        <3>1. request[p].at \notin {"soft_delete", "delete_each", "publish"}
            BY <1>9, <2>1, <2>6 DEF Serves, CheckSlow, NextId, InsertMessage, SetLast, SetSlow,
               UpdateContent, CountPins, CheckExists, SetPinned, InsertPin, UnsetPinned,
               DeletePin, At
        <3>2. Kept(p)
            BY <1>6, <2>1, <3>1
        <3>3. Good(p)
            BY <1>3, <3>2
        <3>4. Lives
            <4>1. CASE InsertMessage(p)
                BY <1>0, <4>1, LiveMoves
            <4>2. CASE UpdateContent(p) \/ SetPinned(p) \/ UnsetPinned(p)
                BY <4>2, LiveMoves
            <4>3. CASE CheckSlow(p) \/ CountPins(p) \/ CheckExists(p)
                BY <1>5, <4>3 DEF CheckSlow, CountPins, CheckExists, rows
            <4>4. CASE NextId(p) \/ SetLast(p) \/ SetSlow(p) \/ InsertPin(p) \/ DeletePin(p)
                BY <1>5, <4>4 DEF NextId, SetLast, SetSlow, InsertPin, DeletePin
            <4> QED BY <1>9, <2>6, <4>1, <4>2, <4>3, <4>4 DEF Serves
        <3> QED BY <2>2, <3>3, <3>4
    <2> QED BY <2>3, <2>4, <2>5, <2>6
<1>10. ASSUME UNCHANGED <<messages, request>>
       PROVE  Lives /\ \A q \in Slots : Good(q)
    <2>1. \A q \in Slots : Kept(q)
        BY <1>10 DEF Removing
    <2> QED BY <1>3, <1>5, <1>10, <2>1
<1>11. ASSUME NEW u \in Users, ExpireSlow(u)
       PROVE  UNCHANGED <<messages, request>>
    BY <1>11 DEF ExpireSlow
<1>12. ASSUME NEW w \in Workers, Works(w) \/ Disconnect(w)
       PROVE  UNCHANGED <<messages, request>>
    BY <1>12, WorkersLeave
<1>13. UNCHANGED vars => UNCHANGED <<messages, request>>
    BY DEF vars, rows
<1> HIDE DEF Lives, Good
<1>14. Lives /\ \A q \in Slots : Good(q)
    BY <1>7, <1>8, <1>9, <1>10, <1>11, <1>12, <1>13 DEF Next
<1> QED BY <1>1, <1>14 DEF Lives, Good

(* Of what is told no message is served, nor of what is about to be.       *)
LEMMA DeletionsStep ==
    ASSUME RequestsOK, RowsOK, FlagsOK, StreamOK, DeletionsInv, [Next]_vars
    PROVE  DeletionsInv'
<1>1. /\ Live' \cap Stored \subseteq Live
      /\ \A q \in Slots : /\ Removing(q) \subseteq Stored
                          /\ Removing(q)' \subseteq Removing(q) \cup (Stored \ Live')
    BY RemovingStep
<1>2. ASSUME NEW q \in Slots
      PROVE  Removing(q)' \cap Live' = {}
    BY <1>1 DEF DeletionsInv
<1>3. ASSUME NEW e \in 1 .. Len(stream)
      PROVE  Removed(stream[e]) \cap Live' = {}
    <2>1. Removed(stream[e]) \subseteq stream[e].ids /\ stream[e].ids \subseteq Stored
        BY DEF Removed, StreamOK
    <2>2. Removed(stream[e]) \cap Live = {}
        BY DEF DeletionsInv, DeletionsTrue
    <2> QED BY <1>1, <2>1, <2>2
<1>4. ASSUME NEW p \in Slots, Published(p)
      PROVE  DeletionsTrue'
    <2>1. /\ Len(stream) \in Nat /\ Len(stream') = Len(stream) + 1
          /\ \A e \in 1 .. Len(stream) : stream'[e] = stream[e]
          /\ stream'[Len(stream) + 1] = Event(request[p])
        BY <1>4, Appended
    <2>2. Removed(Event(request[p])) = Removing(p)
        BY <1>4, EventIs DEF Removing, Published, At
    <2>3. Live' = Live
        <3>1. MessagesTyped /\ UNCHANGED messages
            BY <1>4, RowsFacts DEF Published, rows
        <3> QED BY <3>1, RowsThen
    <2>4. Removing(p) \cap Live = {}
        BY DEF DeletionsInv
    <2>5. ASSUME NEW e \in 1 .. Len(stream')
          PROVE  Removed(stream'[e]) \cap Live' = {}
        <3>1. CASE e \in 1 .. Len(stream)
            BY <1>3, <2>1, <3>1
        <3>2. CASE e = Len(stream) + 1
            BY <2>1, <2>2, <2>3, <2>4, <3>2
        <3> QED BY <2>1, <2>5, <3>1, <3>2
    <2>6. ASSUME NEW e \in 1 .. Len(stream'), NEW m \in Removed(stream'[e])
          PROVE  m \notin Live'
        BY <2>5, <2>6
    <2> QED BY <2>6 DEF DeletionsTrue, Removed
<1>5. ASSUME UNCHANGED stream
      PROVE  DeletionsTrue'
    <2>1. ASSUME NEW e \in 1 .. Len(stream'), NEW m \in Removed(stream'[e])
          PROVE  m \notin Live'
        <3>1. stream'[e] = stream[e] /\ e \in 1 .. Len(stream)
            BY <1>5
        <3>2. m \in Removed(stream[e])
            BY <2>1, <3>1
        <3> QED BY <1>3, <3>1, <3>2
    <2> QED BY <2>1 DEF DeletionsTrue, Removed
<1> QED BY <1>2, <1>4, <1>5, StreamMoves DEF DeletionsInv

-----------------------------------------------------------------------------
(* Limits.                                                                 *)

(* Which calls write the list of pins.                                     *)
LEMMA PinsMoves ==
    ASSUME [Next]_vars
    PROVE  UNCHANGED pins \/ \E p \in Slots : InsertPin(p) \/ DeletePin(p)
<1>1. ASSUME NEW p \in Slots, Serves(p)
      PROVE  UNCHANGED pins \/ InsertPin(p) \/ DeletePin(p)
    <2>1. ASSUME CheckSlow(p) \/ Publish(p) \/ CountPins(p) \/ CheckExists(p)
          PROVE  UNCHANGED pins
        BY <2>1 DEF CheckSlow, Publish, CountPins, CheckExists, rows
    <2>2. ASSUME \/ NextId(p) \/ InsertMessage(p) \/ SetLast(p) \/ SetSlow(p) \/ UpdateContent(p)
                 \/ SoftDelete(p) \/ DeleteEach(p) \/ SetPinned(p) \/ UnsetPinned(p)
          PROVE  UNCHANGED pins
        BY <2>2 DEF NextId, InsertMessage, SetLast, SetSlow, UpdateContent, SoftDelete,
           DeleteEach, SetPinned, UnsetPinned
    <2> QED BY <1>1, <2>1, <2>2 DEF Serves
<1>2. ASSUME NEW p \in Slots, Start(p) \/ Fail(p)
      PROVE  UNCHANGED pins
    BY <1>2 DEF Start, Fail, rows
<1>3. ASSUME NEW u \in Users, ExpireSlow(u)
      PROVE  UNCHANGED pins
    BY <1>3 DEF ExpireSlow
<1>4. ASSUME NEW w \in Workers, Works(w) \/ Disconnect(w)
      PROVE  UNCHANGED pins
    BY <1>4, WorkersLeave
<1>5. UNCHANGED vars => UNCHANGED pins
    BY DEF vars, rows
<1> QED BY <1>1, <1>2, <1>3, <1>4, <1>5 DEF Next

(* The requests that have counted: one more when there is room, and one    *)
(* less with each pin.                                                     *)
LEMMA CountedMoves ==
    ASSUME RequestsOK, RowsOK, [Next]_vars
    PROVE  /\ Counted' \subseteq Counted \/ (Room(Cardinality(pins)) /\ UNCHANGED pins)
           /\ \A p \in Slots : InsertPin(p) => p \in Counted /\ Counted' \subseteq Counted \ {p}
           /\ \A p \in Slots : DeletePin(p) => Counted' \subseteq Counted
<1>1. ASSUME NEW p \in Slots, NEW r, Turned(p, r), request[p].at # "count_pins"
      PROVE  Counted' \subseteq Counted
    <2>1. /\ request[p] # None /\ request'[p] = r
          /\ \A q \in Slots \ {p} : request'[q] = request[q]
        BY <1>1 DEF Turned, Turns
    <2>2. ASSUME r # None, r.at \in {"exists", "set_pinned", "insert_pin"}
          PROVE  request[p].at \in {"exists", "set_pinned"}
        <3>1. Follows(request[p].at, r.at) /\ request[p].at \in AllCalls
            BY <1>1, <2>1, <2>2, Serving, CallNames DEF Turned
        <3>2. CASE request[p].at \in {"check_slow", "next_id", "insert", "set_last", "set_slow",
                                      "update"}
            BY <2>2, <3>1, <3>2 DEF Follows
        <3>3. CASE request[p].at \in {"soft_delete", "delete_each", "publish", "unset_pinned",
                                      "insert_pin", "delete_pin"}
            BY <2>2, <3>1, <3>3 DEF Follows
        <3> QED BY <1>1, <3>1, <3>2, <3>3 DEF AllCalls
    <2> QED BY <2>1, <2>2 DEF Counted, AtOneOf
<1>2. ASSUME NEW p \in Slots, NEW r, Turns(p, r), r = None \/ p \notin Counted'
      PROVE  Counted' \subseteq Counted \ {p}
    BY <1>2 DEF Turns, Counted, AtOneOf
<1>3. ASSUME NEW p \in Slots, CountPins(p)
      PROVE  Counted' \subseteq Counted \/ (Room(Cardinality(pins)) /\ UNCHANGED pins)
    <2>1. UNCHANGED pins
        BY <1>3 DEF CountPins, rows
    <2> QED BY <1>2, <1>3, <2>1, OtherMoves
<1>4. ASSUME NEW p \in Slots, Serves(p), ~CountPins(p)
      PROVE  Counted' \subseteq Counted
    <2>1. PICK r : Turned(p, r)
        BY <1>4, ServedTurn
    <2>2. request[p].at # "count_pins"
        BY <1>4 DEF Serves, CheckSlow, NextId, InsertMessage, SetLast, SetSlow, UpdateContent,
           SoftDelete, DeleteEach, Publish, CheckExists, SetPinned, InsertPin, UnsetPinned,
           DeletePin, At
    <2> QED BY <1>1, <2>1, <2>2
<1>5. ASSUME NEW p \in Slots, Start(p)
      PROVE  Counted' \subseteq Counted
    <2>1. PICK r \in Request :
             /\ Turns(p, r)
             /\ r.at \in {"check_slow", "next_id", "update", "soft_delete", "delete_each",
                          "count_pins", "unset_pinned"}
        BY <1>5, Starting
    <2>2. p \notin Counted'
        BY <2>1 DEF Turns, Counted, AtOneOf
    <2> QED BY <1>2, <2>1, <2>2
<1>6. ASSUME NEW p \in Slots, Fail(p)
      PROVE  Counted' \subseteq Counted
    BY <1>2, <1>6, OtherMoves
<1>7. ASSUME UNCHANGED request
      PROVE  Counted' \subseteq Counted
    BY <1>7 DEF Counted, AtOneOf
<1>8. ASSUME NEW u \in Users, ExpireSlow(u)
      PROVE  UNCHANGED request
    BY <1>8 DEF ExpireSlow
<1>9. ASSUME NEW w \in Workers, Works(w) \/ Disconnect(w)
      PROVE  UNCHANGED request
    BY <1>9, WorkersLeave
<1>10. Counted' \subseteq Counted \/ (Room(Cardinality(pins)) /\ UNCHANGED pins)
    BY <1>3, <1>4, <1>5, <1>6, <1>7, <1>8, <1>9 DEF Next, vars
<1>11. ASSUME NEW p \in Slots, InsertPin(p)
       PROVE  p \in Counted /\ Counted' \subseteq Counted \ {p}
    <2>1. At(p, "insert_pin") /\ Turns(p, None)
        BY <1>11, OtherMoves
    <2>2. p \in Counted
        BY <2>1 DEF At, AtOneOf, Counted
    <2> QED BY <1>2, <2>1, <2>2
<1>12. ASSUME NEW p \in Slots, DeletePin(p)
       PROVE  Counted' \subseteq Counted
    BY <1>2, <1>12, OtherMoves
<1> QED BY <1>10, <1>11, <1>12

(* The limit on pins is passed by fewer than the requests at once.         *)
LEMMA PinsLimitedStep ==
    ASSUME RequestsOK, RowsOK, PinsLimited, [Next]_vars
    PROVE  PinsLimited'
<1>0. /\ MaxPins \in Nat /\ MaxPins # 0 /\ Cardinality(Slots) \in Nat /\ Counted \subseteq Slots
      /\ Counted' \subseteq Slots /\ Cardinality(Slots) # 0
    <2>1. IsFiniteSet(Slots) /\ Slots # {}
        BY ConstantsAssumption
    <2> QED BY <2>1, FS_EmptySet, FS_CardinalityType, ConstantsAssumption DEF Counted
<1>1. IsFiniteSet(pins) /\ Cardinality(pins) \in Nat
    <2>1. pins \subseteq 1 .. ids_used /\ ids_used \in Nat
        BY RowsFacts DEF RowsOK
    <2>2. IsFiniteSet(1 .. ids_used)
        BY <2>1, FS_Interval
    <2> QED BY <2>1, <2>2, FS_Subset, FS_CardinalityType
<1>2. /\ Cardinality(Counted) \in Nat /\ Cardinality(Counted') \in Nat
      /\ Cardinality(Counted') <= Cardinality(Slots)
      /\ Counted' \subseteq Counted => Cardinality(Counted') <= Cardinality(Counted)
    BY <1>0, SlotsCount
<1>3. ASSUME pins' \subseteq pins, Counted' \subseteq Counted
      PROVE  PinsLimited'
    <2>1. Cardinality(pins') \in Nat /\ Cardinality(pins') <= Cardinality(pins)
        BY <1>1, <1>3, FS_Subset, FS_CardinalityType
    <2> QED BY <1>0, <1>1, <1>2, <1>3, <2>1 DEF PinsLimited
<1>4. ASSUME Room(Cardinality(pins)), UNCHANGED pins
      PROVE  PinsLimited'
    <2>1. Cardinality(pins') < MaxPins /\ Cardinality(pins') = Cardinality(pins)
        BY <1>4 DEF Room
    <2> QED BY <1>0, <1>1, <1>2, <2>1 DEF PinsLimited
<1>5. ASSUME NEW p \in Slots, InsertPin(p)
      PROVE  PinsLimited'
    <2>1. pins' = pins \cup {Subject(p)} /\ p \in Counted /\ Counted' \subseteq Counted \ {p}
        BY <1>5, CountedMoves DEF InsertPin
    <2>2. Cardinality(pins') \in Nat /\ Cardinality(pins') <= Cardinality(pins) + 1
        <3>1. Cardinality(pins \cup {Subject(p)}) =
                 IF Subject(p) \in pins THEN Cardinality(pins) ELSE Cardinality(pins) + 1
            BY <1>1, FS_AddElement
        <3> QED BY <1>1, <2>1, <3>1
    <2>3. Cardinality(Counted \ {p}) \in Nat /\ Cardinality(Counted \ {p}) + 1 <= Cardinality(Counted)
        BY <1>0, <2>1, SlotsCount
    <2>4. Cardinality(Counted') <= Cardinality(Counted \ {p})
        <3>1. Counted \ {p} \subseteq Slots
            BY <1>0
        <3> QED BY <2>1, <3>1, SlotsCount
    <2> QED BY <1>0, <1>1, <1>2, <2>2, <2>3, <2>4 DEF PinsLimited
<1>6. ASSUME NEW p \in Slots, DeletePin(p)
      PROVE  PinsLimited'
    <2>1. pins' \subseteq pins /\ Counted' \subseteq Counted
        BY <1>6, CountedMoves DEF DeletePin
    <2> QED BY <1>3, <2>1
<1>7. CASE UNCHANGED pins
    BY <1>3, <1>4, <1>7, CountedMoves
<1> QED BY <1>5, <1>6, <1>7, PinsMoves

(* The sends of a user are as they were.                                   *)
SendsKept(u) ==
    \A q \in Slots : /\ Sends(q, u)' <=> Sends(q, u)
                     /\ Sends(q, u)' /\ request'[q].at \in {"next_id", "insert"}
                           => request[q].at \in {"next_id", "insert"}

(* A request that makes a call in between neither begins to send nor ends. *)
LEMMA SendsSteady ==
    ASSUME RequestsOK, NEW p \in Slots, NEW r, Turned(p, r), NEW u \in Users,
           request[p].user = u => request[p].at \notin {"check_slow", "set_slow"}
    PROVE  SendsKept(u)
<1> DEFINE s == request[p].at
           Window == {"next_id", "insert", "set_last", "set_slow"}
<1>1. /\ request[p] # None /\ request'[p] = r
      /\ \A q \in Slots \ {p} : request'[q] = request[q]
    BY DEF Turned, Turns
<1>2. ASSUME NEW q \in Slots \ {p}
      PROVE  /\ Sends(q, u)' <=> Sends(q, u)
             /\ Sends(q, u)' /\ request'[q].at \in {"next_id", "insert"}
                   => request[q].at \in {"next_id", "insert"}
    BY <1>1 DEF Sends, AtOneOf
<1>3. CASE r = None
    <2>1. ~Sends(p, u)'
        BY <1>1, <1>3 DEF Sends, AtOneOf
    <2>2. ~Sends(p, u)
        <3>1. /\ s \in {"check_slow", "insert", "publish", "count_pins", "exists", "insert_pin",
                        "delete_pin"}
              /\ s = "insert" => request[p].op # "send_message"
            BY <1>3 DEF Turned
        <3>2. s = "insert" => request[p].op = "execute_webhook"
            BY <1>1, <3>1, Serving DEF Goes, Posts
        <3>3. request[p].op = "execute_webhook" => request[p].user = None
            BY <1>1, Serving DEF Placed, PlacedIn
        <3>4. u # None
            BY ConstantsAssumption
        <3> QED BY <3>1, <3>2, <3>3, <3>4 DEF Sends, AtOneOf
    <2> QED BY <1>2, <2>1, <2>2 DEF SendsKept
<1>4. CASE r # None
    <2>1. r.user = request[p].user /\ Follows(s, r.at) /\ s \in AllCalls
        BY <1>1, <1>4, Serving, CallNames DEF Turned
    <2>2. CASE request[p].user # u
        BY <1>1, <1>2, <2>1, <2>2 DEF SendsKept, Sends
    <2>3. CASE request[p].user = u
        <3>1. s \notin {"check_slow", "set_slow"}
            BY <2>3
        <3>2. r.at \in Window <=> s \in Window
            <4>1. CASE s \in {"next_id", "insert", "set_last"}
                BY <2>1, <4>1 DEF Follows
            <4>2. CASE s \in {"update", "soft_delete", "delete_each", "publish"}
                BY <2>1, <4>2 DEF Follows
            <4>3. CASE s \in {"count_pins", "exists", "set_pinned", "unset_pinned", "insert_pin",
                              "delete_pin"}
                BY <2>1, <4>3 DEF Follows
            <4> QED BY <2>1, <3>1, <4>1, <4>2, <4>3 DEF AllCalls
        <3>3. r.at \in {"next_id", "insert"} /\ s \in Window => s = "next_id"
            BY <2>1, <3>1 DEF Follows
        <3>4. Sends(p, u)' <=> r.at \in Window
            BY <1>1, <1>4, <2>1, <2>3 DEF Sends, AtOneOf
        <3>5. Sends(p, u) <=> s \in Window
            BY <1>1, <2>3 DEF Sends, AtOneOf
        <3>6. Sends(p, u)' /\ request'[p].at \in {"next_id", "insert"}
                 => request[p].at \in {"next_id", "insert"}
            BY <1>1, <3>2, <3>3, <3>4
        <3> HIDE DEF s
        <3> QED BY <1>2, <3>2, <3>4, <3>5, <3>6 DEF SendsKept
    <2> QED BY <2>2, <2>3
<1> QED BY <1>3, <1>4

(* One user's window, where nothing concerns it.                           *)
LEMMA SlowKept ==
    ASSUME NEW u \in Users, SlowOnce(u), SendsKept(u), u \in slowmode' <=> u \in slowmode,
           in_window'[u] = in_window[u]
    PROVE  SlowOnce(u)'
BY DEF SlowOnce, SendsKept

(* A send finds no key: it is the only one of its user, if it overlaps     *)
(* with none.                                                              *)
LEMMA SlowBegins ==
    ASSUME RequestsOK, faults \in Nat, faults' = 0, "slow" \notin races', NEW p \in Slots,
           CheckSlow(p), NEW u \in Users, SlowOnce(u)
    PROVE  SlowOnce(u)'
<1>1. At(p, "check_slow") /\ request[p] # None /\ request[p].at = "check_slow"
      /\ UNCHANGED <<slowmode, in_window>>
    BY DEF CheckSlow, At, rows
<1>2. Fault => faults' # 0
    BY DEF Fault
<1>3. ASSUME NEW q \in Slots \ {p}, NEW r, Turns(p, r)
      PROVE  request'[q] = request[q]
    BY <1>3 DEF Turns
<1>4. CASE Turns(p, None)
    <2>1. SendsKept(u)
        BY <1>1, <1>3, <1>4 DEF SendsKept, Sends, AtOneOf, Turns
    <2> QED BY <1>1, <2>1, SlowKept
<1>5. CASE /\ request[p].user \notin slowmode /\ Turns(p, To(request[p], "next_id"))
           /\ ~ \E q \in Slots \ {p} :
                   /\ AtOneOf(q, {"next_id", "insert", "set_last", "set_slow"})
                   /\ request[q].user = request[p].user
    <2> DEFINE r == To(request[p], "next_id")
    <2>1. r # None /\ r.user = request[p].user /\ r.at = "next_id"
        <3>1. "next_id" \in UNION {Calls(op) : op \in DOMAIN Handler}
            BY CallNames DEF AllCalls
        <3> QED BY <1>1, <3>1, Serving, ToFields
    <2>2. request'[p] = r
        BY <1>5 DEF Turns
    <2> HIDE DEF r
    <2>3. CASE request[p].user # u
        <3>1. SendsKept(u)
            BY <1>1, <1>3, <1>5, <2>1, <2>2, <2>3 DEF SendsKept, Sends, AtOneOf
        <3> QED BY <1>1, <3>1, SlowKept
    <2>4. CASE request[p].user = u
        <3>1. \A q \in Slots : ~Sends(q, u)
            BY <1>1, <1>5, <2>4 DEF Sends, AtOneOf
        <3>2. u \notin slowmode' /\ in_window'[u] = 0
            BY <1>1, <1>5, <2>4, <3>1 DEF SlowOnce
        <3>3. \A q \in Slots : Sends(q, u)' <=> q = p
            BY <1>3, <1>5, <2>1, <2>2, <2>4, <3>1 DEF Sends, AtOneOf
        <3> QED BY <3>2, <3>3 DEF SlowOnce
    <2> QED BY <2>3, <2>4
<1>6. \/ Turns(p, None)
      \/ /\ request[p].user \notin slowmode /\ Turns(p, To(request[p], "next_id"))
         /\ ~ \E q \in Slots \ {p} :
                 /\ AtOneOf(q, {"next_id", "insert", "set_last", "set_slow"})
                 /\ request[q].user = request[p].user
    <2> DEFINE overlaps == \E q \in Slots \ {p} :
                 /\ AtOneOf(q, {"next_id", "insert", "set_last", "set_slow"})
                 /\ request[q].user = request[p].user
    <2>1. CASE request' = [request EXCEPT ![p] = None]
        BY <2>1, Refusing
    <2>2. CASE /\ IF request[p].user \in slowmode THEN Fault ELSE UNCHANGED faults
               /\ Proceed(p) /\ Race("slow", overlaps)
        <3>1. Turns(p, To(request[p], "next_id"))
            BY <1>1, <2>2, Proceeding
        <3>2. request[p].user \notin slowmode
            BY <1>2, <2>2
        <3> HIDE DEF overlaps
        <3>3. ~overlaps
            BY <2>2 DEF Race
        <3> QED BY <3>1, <3>2, <3>3 DEF overlaps
    <2> QED BY <2>1, <2>2 DEF CheckSlow
<1> QED BY <1>4, <1>5, <1>6

(* It posts its message, ...                                               *)
LEMMA SlowInserts ==
    ASSUME RequestsOK, RowsOK, CountsOK, NEW p \in Slots, InsertMessage(p), NEW u \in Users,
           SlowOnce(u)
    PROVE  SlowOnce(u)'
<1>1. /\ request[p] # None /\ request[p].at = "insert" /\ UNCHANGED slowmode
      /\ in_window' = IF request[p].user = None THEN in_window
                      ELSE [in_window EXCEPT ![request[p].user] = @ + 1]
    BY DEF InsertMessage, At
<1>2. PICK r : Turned(p, r)
    BY ServedTurn DEF Serves
<1>3. SendsKept(u)
    BY <1>1, <1>2, SendsSteady
<1>4. in_window \in [Users -> Nat] /\ u # None
    BY ConstantsAssumption DEF CountsOK
<1>5. CASE request[p].user # u
    <2>1. in_window'[u] = in_window[u]
        BY <1>1, <1>4, <1>5
    <2> QED BY <1>1, <1>3, <2>1, SlowKept
<1>6. CASE request[p].user = u
    <2>1. Sends(p, u) /\ in_window[u] = 0
        BY <1>1, <1>6 DEF SlowOnce, Sends, AtOneOf
    <2>2. in_window'[u] = 1
        BY <1>1, <1>4, <1>6, <2>1
    <2>3. \A q \in Slots : Sends(q, u)' <=> q = p
        BY <1>3, <2>1 DEF SendsKept, SlowOnce
    <2>4. r # None /\ r.at = "set_last" /\ request'[p] = r
        <3>1. request'[p] = r
            BY <1>2 DEF Turned, Turns
        <3>2. r # None
            BY <2>3, <3>1 DEF Sends, AtOneOf
        <3> QED BY <1>1, <1>2, <3>1, <3>2 DEF Turned, Follows
    <2>5. u \notin slowmode'
        BY <1>1, <2>1 DEF SlowOnce
    <2>6. \A q \in Slots : Sends(q, u)' => request'[q].at = "set_last"
        BY <2>3, <2>4
    <2> HIDE DEF Sends
    <2>7. \A q \in Slots : Sends(q, u)' => request'[q].at \notin {"next_id", "insert"}
        BY <2>6
    <2> QED BY <2>2, <2>3, <2>5, <2>7 DEF SlowOnce
<1> QED BY <1>5, <1>6

(* ... and sets the key.                                                   *)
LEMMA SlowEnds ==
    ASSUME RequestsOK, RowsOK, CountsOK, faults \in Nat, faults' = 0, NEW p \in Slots, SetSlow(p),
           NEW u \in Users, SlowOnce(u)
    PROVE  SlowOnce(u)'
<1>1. /\ request[p] # None /\ request[p].at = "set_slow" /\ UNCHANGED in_window
      /\ Turns(p, To(request[p], "publish"))
    BY PostMoves DEF SetSlow, At, RowsOK
<1>2. slowmode' = slowmode \cup {request[p].user}
    BY DEF SetSlow, Fault
<1>3. PICK r : Turned(p, r)
    BY ServedTurn DEF Serves
<1>4. CASE request[p].user # u
    <2>1. SendsKept(u)
        BY <1>1, <1>3, <1>4, SendsSteady
    <2> QED BY <1>1, <1>2, <1>4, <2>1, SlowKept
<1>5. CASE request[p].user = u
    <2>1. Sends(p, u)
        BY <1>1, <1>5 DEF Sends, AtOneOf
    <2>2. request'[p] = r /\ \A q \in Slots \ {p} : request'[q] = request[q]
        BY <1>3 DEF Turned, Turns
    <2>3. r # None => r.at = "publish"
        BY <1>1, <1>3 DEF Turned, Follows
    <2>4. ASSUME NEW q \in Slots
          PROVE  ~Sends(q, u)'
        <3>1. CASE q = p
            BY <2>2, <2>3, <3>1 DEF Sends, AtOneOf
        <3>2. CASE q # p
            <4>1. ~Sends(q, u)
                BY <2>1, <3>2 DEF SlowOnce
            <4> QED BY <2>2, <3>2, <4>1 DEF Sends, AtOneOf
        <3> QED BY <3>1, <3>2
    <2>5. u \in slowmode' /\ in_window'[u] <= 1
        BY <1>1, <1>2, <1>5 DEF SlowOnce
    <2> QED BY <2>4, <2>5 DEF SlowOnce
<1> QED BY <1>4, <1>5

(* Slow mode lets one message of a user through in a window, unless Redis  *)
(* failed or two sends of the user overlapped.                             *)
LEMMA SlowStep ==
    ASSUME RequestsOK, RowsOK, FlagsOK, CountsOK, SlowInv, [Next]_vars
    PROVE  SlowInv'
<1> SUFFICES ASSUME faults' = 0, "slow" \notin races', NEW u \in Users
             PROVE  SlowOnce(u)'
    BY DEF SlowInv
<1>1. SlowOnce(u) /\ faults \in Nat
    BY FlagsStep DEF SlowInv, FlagsOK
<1>2. ASSUME SendsKept(u), UNCHANGED <<slowmode, in_window>>
      PROVE  SlowOnce(u)'
    BY <1>1, <1>2, SlowKept
<1>3. ASSUME UNCHANGED request
      PROVE  SendsKept(u)
    BY <1>3 DEF SendsKept, Sends, AtOneOf
<1>4. ASSUME NEW p \in Slots, Serves(p)
      PROVE  SlowOnce(u)'
    <2>1. CASE CheckSlow(p)
        BY <1>1, <2>1, SlowBegins
    <2>2. CASE InsertMessage(p)
        BY <1>1, <2>2, SlowInserts
    <2>3. CASE SetSlow(p)
        BY <1>1, <2>3, SlowEnds
    <2>4. CASE ~CheckSlow(p) /\ ~InsertMessage(p) /\ ~SetSlow(p)
        <3>1. request[p].at \notin {"check_slow", "set_slow"}
            BY <1>4, <2>4 DEF Serves, NextId, SetLast, UpdateContent, SoftDelete, DeleteEach,
               Publish, CountPins, CheckExists, SetPinned, InsertPin, UnsetPinned, DeletePin, At
        <3>2. SendsKept(u)
            BY <1>4, <3>1, ServedTurn, SendsSteady
        <3>3. UNCHANGED <<slowmode, in_window>>
            <4>1. CASE Publish(p) \/ CountPins(p) \/ CheckExists(p)
                BY <4>1 DEF Publish, CountPins, CheckExists, rows
            <4>2. CASE \/ NextId(p) \/ SetLast(p) \/ UpdateContent(p) \/ SoftDelete(p)
                       \/ DeleteEach(p) \/ SetPinned(p) \/ UnsetPinned(p) \/ InsertPin(p)
                       \/ DeletePin(p)
                BY <4>2 DEF NextId, SetLast, UpdateContent, SoftDelete, DeleteEach, SetPinned,
                   UnsetPinned, InsertPin, DeletePin
            <4> QED BY <1>4, <2>4, <4>1, <4>2 DEF Serves
        <3> QED BY <1>2, <3>2, <3>3
    <2> QED BY <2>1, <2>2, <2>3, <2>4
<1>5. ASSUME NEW p \in Slots, Start(p)
      PROVE  SlowOnce(u)'
    <2>1. PICK r \in Request :
             /\ Turns(p, r) /\ PlacedIn(r, Stored, ids_used)
             /\ r.at \in {"check_slow", "next_id", "update", "soft_delete", "delete_each",
                          "count_pins", "unset_pinned"}
             /\ r.at = "next_id" => r.op = "execute_webhook"
        BY <1>5, Starting
    <2>2. request[p] = None
        BY <1>5 DEF Start
    <2>3. ~Sends(p, u)' /\ ~Sends(p, u)
        <3>1. r.at = "next_id" => r.user # u
            BY <2>1, ConstantsAssumption DEF PlacedIn
        <3> QED BY <2>1, <2>2, <3>1 DEF Sends, AtOneOf, Turns
    <2>4. SendsKept(u)
        BY <2>1, <2>3 DEF SendsKept, Sends, AtOneOf, Turns
    <2>5. UNCHANGED <<slowmode, in_window>>
        BY <1>5 DEF Start, rows
    <2> QED BY <1>2, <2>4, <2>5
<1>6. ASSUME NEW p \in Slots, Fail(p)
      PROVE  FALSE
    BY <1>1, <1>6 DEF Fail, Fault
<1>7. ASSUME NEW v \in Users, ExpireSlow(v)
      PROVE  SlowOnce(u)'
    <2>1. /\ v \in slowmode /\ slowmode' = slowmode \ {v} /\ UNCHANGED request
          /\ in_window' = [in_window EXCEPT ![v] = 0] /\ in_window \in [Users -> Nat]
        BY <1>7 DEF ExpireSlow, CountsOK
    <2>2. SendsKept(u)
        BY <1>3, <2>1
    <2>3. CASE u # v
        <3>1. in_window'[u] = in_window[u] /\ (u \in slowmode' <=> u \in slowmode)
            BY <2>1, <2>3
        <3> QED BY <1>1, <2>2, <3>1, SlowKept
    <2>4. CASE u = v
        <3>1. \A q \in Slots : ~Sends(q, u)
            BY <1>1, <2>1, <2>4 DEF SlowOnce
        <3>2. \A q \in Slots : ~Sends(q, u)'
            BY <2>2, <3>1 DEF SendsKept
        <3>3. in_window'[u] = 0
            BY <2>1, <2>4
        <3> QED BY <3>2, <3>3 DEF SlowOnce
    <2> QED BY <2>3, <2>4
<1>8. ASSUME NEW w \in Workers, Works(w) \/ Disconnect(w)
      PROVE  SlowOnce(u)'
    <2>1. UNCHANGED <<request, slowmode, in_window>>
        BY <1>8, WorkersLeave
    <2> QED BY <1>2, <1>3, <2>1
<1>9. ASSUME UNCHANGED vars
      PROVE  SlowOnce(u)'
    <2>1. UNCHANGED <<request, slowmode, in_window>>
        BY <1>9 DEF vars, rows
    <2> QED BY <1>2, <1>3, <2>1
<1> QED BY <1>4, <1>5, <1>6, <1>7, <1>8, <1>9 DEF Next

-----------------------------------------------------------------------------
(* The list of pins.                                                       *)

(* The pins and unpins of m that are half done are those that were.        *)
PinningKept(m) ==
    \A q \in Slots : /\ Pinning(q, m)' <=> Pinning(q, m)
                     /\ Unpinning(q, m)' <=> Unpinning(q, m)

(* One message and its pin, where nothing concerns them.                   *)
LEMMA PinsKept ==
    ASSUME NEW m, PinsAgree(m), PinningKept(m), messages'[m].pinned = messages[m].pinned,
           m \in pins' <=> m \in pins
    PROVE  PinsAgree(m)'
BY DEF PinsAgree, PinningKept

(* A request that is about another message, or not about its pin.          *)
LEMMA PinningSteady ==
    ASSUME RequestsOK, NEW p \in Slots, NEW r, Turned(p, r), NEW m,
           request[p].ids = {m} => request[p].at \notin {"set_pinned", "insert_pin",
                                                         "unset_pinned", "delete_pin"}
    PROVE  PinningKept(m)
<1> DEFINE s == request[p].at
<1>1. /\ request[p] # None /\ request'[p] = r
      /\ \A q \in Slots \ {p} : request'[q] = request[q]
    BY DEF Turned, Turns
<1>2. ASSUME NEW q \in Slots \ {p}
      PROVE  /\ Pinning(q, m)' <=> Pinning(q, m)
             /\ Unpinning(q, m)' <=> Unpinning(q, m)
    BY <1>1 DEF Pinning, Unpinning, At
<1>3. ~Pinning(p, m) /\ ~Unpinning(p, m)
    BY DEF Pinning, Unpinning, At
<1>4. ASSUME r # None, r.ids = {m}
      PROVE  r.at \notin {"insert_pin", "delete_pin"}
    <2>1. Follows(s, r.at) /\ s \in AllCalls
        BY <1>1, <1>4, Serving, CallNames DEF Turned
    <2>2. CASE s \in {"set_pinned", "insert_pin", "unset_pinned", "delete_pin"}
        <3>1. r.ids = request[p].ids
            BY <1>4, <2>2 DEF Turned
        <3> QED BY <1>4, <2>2, <3>1
    <2>3. CASE s \in {"check_slow", "next_id", "insert", "set_last", "set_slow", "update"}
        BY <2>1, <2>3 DEF Follows
    <2>4. CASE s \in {"soft_delete", "delete_each", "publish", "count_pins", "exists"}
        BY <2>1, <2>4 DEF Follows
    <2> QED BY <2>1, <2>2, <2>3, <2>4 DEF AllCalls
<1>5. ~Pinning(p, m)' /\ ~Unpinning(p, m)'
    BY <1>1, <1>4 DEF Pinning, Unpinning, At
<1> QED BY <1>2, <1>3, <1>5 DEF PinningKept

(* The message a pin or unpin is about.                                    *)
LEMMA PinAbout ==
    ASSUME RequestsOK, NEW p \in Slots,
           AtOneOf(p, {"set_pinned", "insert_pin", "unset_pinned", "delete_pin"})
    PROVE  \E m \in Stored : request[p].ids = {m} /\ Subject(p) = m
<1>1. /\ request[p] # None
      /\ request[p].at \in {"set_pinned", "insert_pin", "unset_pinned", "delete_pin"}
      /\ request[p].ids \subseteq Stored
    BY AboutStored DEF AtOneOf
<1>2. request[p].op # "bulk_delete"
    BY <1>1, Serving DEF Goes
<1>3. PICK m \in Ids : request[p].ids = {m}
    BY <1>1, <1>2, AboutStored
<1> QED BY <1>1, <1>3, SubjectIs

(* The message is marked, then listed; the mark is taken, then the entry.  *)
LEMMA PinsWrite ==
    ASSUME RequestsOK, RowsOK, FlagsOK, "pin" \notin races', NEW p \in Slots,
           SetPinned(p) \/ UnsetPinned(p) \/ InsertPin(p) \/ DeletePin(p),
           \A m \in Stored : PinsAgree(m), NEW m \in Stored'
    PROVE  PinsAgree(m)'
<1>1. /\ MessagesTyped /\ faults \in Nat
    BY RowsFacts DEF FlagsOK
<1>2. PICK r : Turned(p, r) /\ Turns(p, r) /\ request'[p] = r
    BY ServedTurn DEF Serves, Turned, Turns
<1>3. AtOneOf(p, {"set_pinned", "insert_pin", "unset_pinned", "delete_pin"})
    BY DEF SetPinned, UnsetPinned, InsertPin, DeletePin, At, AtOneOf
<1>4. PICK x \in Stored : request[p].ids = {x} /\ Subject(p) = x
    BY <1>3, PinAbout
<1>5. /\ request[p] # None
      /\ \A q \in Slots \ {p} : /\ Pinning(q, x)' <=> Pinning(q, x)
                                /\ Unpinning(q, x)' <=> Unpinning(q, x)
    BY <1>2, <1>3 DEF AtOneOf, Turns, Pinning, Unpinning, At
<1>6. CASE SetPinned(p)
    <2>1. /\ request[p].at = "set_pinned" /\ UNCHANGED pins
          /\ \A q \in Slots : ~Unpinning(q, x)
        BY <1>4, <1>6 DEF SetPinned, At, Race, Unpinning
    <2>2. Rewritten(x, messages[x].deleted, TRUE)
        <3>1. PICK n \in Stored : request[p].ids = {n} /\ Rewritten(n, messages[n].deleted, TRUE)
            BY <1>1, <1>6, Writing
        <3>2. n = x
            BY <1>4, <3>1
        <3> QED BY <3>1, <3>2
    <2>3. Stored' = Stored /\ messages'[x].pinned = TRUE
          /\ \A n \in Ids \ {x} : messages'[n] = messages[n]
        BY <1>1, <2>2, RowsThen DEF Rewritten
    <2>4. CASE m # x
        <3>1. PinningKept(m)
            BY <1>2, <1>4, <2>4, PinningSteady
        <3>2. m \in Ids
            BY <2>3 DEF Stored
        <3> QED BY <2>1, <2>3, <2>4, <3>1, <3>2, PinsKept
    <2>5. CASE m = x
        <3>1. Pinning(p, x)' /\ ~Unpinning(p, x)'
            <4>1. r # None /\ r.at = "insert_pin" /\ r.ids = {x}
                BY <1>2, <1>4, <2>1 DEF Turned, Follows
            <4> QED BY <1>2, <4>1 DEF Pinning, Unpinning, At
        <3>2. \A q \in Slots : ~Unpinning(q, x)'
            BY <1>5, <2>1, <3>1
        <3>3. PinsAgree(x)'
            BY <2>3, <3>1, <3>2 DEF PinsAgree
        <3> QED BY <2>5, <3>3
    <2> QED BY <2>4, <2>5
<1>7. CASE UnsetPinned(p)
    <2>1. /\ request[p].at = "unset_pinned" /\ UNCHANGED pins
          /\ \A q \in Slots : ~Pinning(q, x)
        BY <1>4, <1>7 DEF UnsetPinned, At, Race, Pinning
    <2>2. Rewritten(x, messages[x].deleted, FALSE)
        <3>1. PICK n \in Stored : request[p].ids = {n} /\ Rewritten(n, messages[n].deleted, FALSE)
            BY <1>1, <1>7, Writing
        <3>2. n = x
            BY <1>4, <3>1
        <3> QED BY <3>1, <3>2
    <2>3. Stored' = Stored /\ messages'[x].pinned = FALSE
          /\ \A n \in Ids \ {x} : messages'[n] = messages[n]
        BY <1>1, <2>2, RowsThen DEF Rewritten
    <2>4. CASE m # x
        <3>1. PinningKept(m)
            BY <1>2, <1>4, <2>4, PinningSteady
        <3>2. m \in Ids
            BY <2>3 DEF Stored
        <3> QED BY <2>1, <2>3, <2>4, <3>1, <3>2, PinsKept
    <2>5. CASE m = x
        <3>1. Unpinning(p, x)' /\ ~Pinning(p, x)'
            <4>1. r # None /\ r.at = "delete_pin" /\ r.ids = {x}
                BY <1>2, <1>4, <2>1 DEF Turned, Follows
            <4> QED BY <1>2, <4>1 DEF Pinning, Unpinning, At
        <3>2. \A q \in Slots : ~Pinning(q, x)'
            BY <1>5, <2>1, <3>1
        <3>3. PinsAgree(x)'
            BY <2>3, <3>1, <3>2 DEF PinsAgree
        <3> QED BY <2>5, <3>3
    <2> QED BY <2>4, <2>5
<1>8. ASSUME InsertPin(p) \/ DeletePin(p)
      PROVE  /\ Turns(p, None) /\ UNCHANGED messages /\ Stored' = Stored
             /\ \A q \in Slots : /\ Pinning(q, x)' => Pinning(q, x)
                                 /\ Unpinning(q, x)' => Unpinning(q, x)
             /\ m # x /\ (m \in pins' <=> m \in pins) => PinsAgree(m)'
    <2>1. Turns(p, None) /\ UNCHANGED messages
        BY <1>8, OtherMoves DEF InsertPin, DeletePin
    <2>2. \A q \in Slots : /\ Pinning(q, x)' => Pinning(q, x)
                           /\ Unpinning(q, x)' => Unpinning(q, x)
        BY <1>5, <2>1 DEF Turns, Pinning, Unpinning, At
    <2>3. Stored' = Stored
        BY <1>1, <2>1, RowsThen
    <2>4. ASSUME m # x, m \in pins' <=> m \in pins
          PROVE  PinsAgree(m)'
        <3>1. PinningKept(m)
            BY <1>2, <1>4, <2>4, PinningSteady
        <3> QED BY <2>1, <2>3, <2>4, <3>1, PinsKept
    <2> QED BY <2>1, <2>2, <2>3, <2>4
<1>9. CASE InsertPin(p)
    <2>1. pins' = pins \cup {x}
        BY <1>4, <1>9 DEF InsertPin
    <2>2. Pinning(p, x)
        BY <1>4, <1>9 DEF Pinning, InsertPin
    <2>3. CASE m # x
        BY <1>8, <1>9, <2>1, <2>3
    <2>4. CASE m = x
        <3>1. messages[x].pinned /\ PinsAgree(x)
            BY <2>2 DEF PinsAgree
        <3>2. PinsAgree(x)'
            BY <1>8, <1>9, <2>1, <3>1 DEF PinsAgree
        <3> QED BY <2>4, <3>2
    <2> QED BY <2>3, <2>4
<1>10. CASE DeletePin(p)
    <2>1. pins' = pins \ {x}
        BY <1>4, <1>10 DEF DeletePin
    <2>2. Unpinning(p, x)
        BY <1>4, <1>10 DEF Unpinning, DeletePin
    <2>3. CASE m # x
        BY <1>8, <1>10, <2>1, <2>3
    <2>4. CASE m = x
        <3>1. ~messages[x].pinned /\ PinsAgree(x)
            BY <2>2 DEF PinsAgree
        <3>2. PinsAgree(x)'
            BY <1>8, <1>10, <2>1, <3>1 DEF PinsAgree
        <3> QED BY <2>4, <3>2
    <2> QED BY <2>3, <2>4
<1> QED BY <1>6, <1>7, <1>9, <1>10

(* Other calls leave the mark of a message that is there, and a message    *)
(* that is new has none.                                                   *)
LEMMA MarksKept ==
    ASSUME RequestsOK, RowsOK, FlagsOK, [Next]_vars,
           ~ \E p \in Slots : SetPinned(p) \/ UnsetPinned(p)
    PROVE  /\ \A m \in Stored : messages'[m].pinned = messages[m].pinned
           /\ \A m \in Stored' \ Stored : ~messages'[m].pinned
<1>1. MessagesTyped /\ faults \in Nat
    BY RowsFacts DEF FlagsOK
<1>2. ASSUME NEW x, NEW d, Rewritten(x, d, messages[x].pinned)
      PROVE  \A m \in Stored : messages'[m].pinned = messages[m].pinned
    BY <1>2 DEF Rewritten, Stored
<1>3. CASE UNCHANGED messages
    BY <1>1, <1>3, RowsThen
<1>4. ASSUME NEW p \in Slots, InsertMessage(p)
      PROVE  /\ \A m \in Stored : messages'[m].pinned = messages[m].pinned
             /\ \A m \in Stored' \ Stored : ~messages'[m].pinned
    <2>1. PICK x \in Ids : Inserted(x, request[p].user)
        BY <1>1, <1>4, Writing
    <2>2. /\ x \notin Stored /\ Stored' = Stored \cup {x} /\ messages'[x].pinned = FALSE
          /\ \A n \in Ids \ {x} : messages'[n] = messages[n]
        BY <1>1, <2>1, RowsThen DEF Inserted
    <2>3. Stored \subseteq Ids
        BY DEF Stored
    <2> QED BY <2>2, <2>3
<1>5. ASSUME NEW p \in Slots, UpdateContent(p) \/ SoftDelete(p) \/ DeleteEach(p)
      PROVE  \A m \in Stored : messages'[m].pinned = messages[m].pinned
    <2>1. CASE UpdateContent(p)
        BY <1>1, <1>2, <2>1, Writing
    <2>2. CASE SoftDelete(p)
        BY <1>1, <1>2, <2>2, Writing
    <2>3. CASE DeleteEach(p)
        <3>1. PICK n, r : At(p, "delete_each") /\ Deletes1(p, n, r)
            BY <2>3, DeleteEachMoves
        <3>2. \/ UNCHANGED messages \/ Rewritten(n, TRUE, messages[n].pinned)
            BY <1>1, <3>1, Writing DEF At
        <3> QED BY <1>2, <3>2
    <2> QED BY <1>5, <2>1, <2>2, <2>3
<1>6. ASSUME NEW p \in Slots, UpdateContent(p) \/ SoftDelete(p) \/ DeleteEach(p)
      PROVE  Stored' = Stored
    <2>1. CASE UpdateContent(p) \/ SoftDelete(p)
        BY <2>1, LiveMoves
    <2>2. CASE DeleteEach(p)
        <3>1. PICK n, r : At(p, "delete_each") /\ Deletes1(p, n, r)
            BY <2>2, DeleteEachMoves
        <3> QED BY <3>1, LiveMoves DEF At
    <2> QED BY <1>6, <2>1, <2>2
<1> QED BY <1>3, <1>4, <1>5, <1>6, MessagesMoves

(* The message and the list agree, or a request that wrote the one is      *)
(* about to write the other.                                               *)
LEMMA PinsStep ==
    ASSUME RequestsOK, RowsOK, FlagsOK, PinsInv, [Next]_vars
    PROVE  PinsInv'
<1> SUFFICES ASSUME faults' = 0, "pin" \notin races', NEW m \in Stored'
             PROVE  PinsAgree(m)'
    BY DEF PinsInv
<1>1. (\A n \in Stored : PinsAgree(n)) /\ faults \in Nat
    BY FlagsStep DEF PinsInv, FlagsOK
<1> DEFINE Writes(p) == SetPinned(p) \/ UnsetPinned(p) \/ InsertPin(p) \/ DeletePin(p)
<1>2. CASE \E p \in Slots : Writes(p)
    BY <1>1, <1>2, PinsWrite
<1>3. CASE ~ \E p \in Slots : Writes(p)
    <2>1. UNCHANGED pins
        BY <1>3, PinsMoves
    <2>2. /\ \A n \in Stored : messages'[n].pinned = messages[n].pinned
          /\ \A n \in Stored' \ Stored : ~messages'[n].pinned
        BY <1>3, MarksKept
    <2>3. PinningKept(m)
        <3>1. ASSUME NEW p \in Slots, Serves(p)
              PROVE  PinningKept(m)
            <4>1. request[p].at \notin {"set_pinned", "insert_pin", "unset_pinned", "delete_pin"}
                BY <1>3, <3>1 DEF Serves, CheckSlow, NextId, InsertMessage, SetLast, SetSlow,
                   UpdateContent, SoftDelete, DeleteEach, Publish, CountPins, CheckExists, At
            <4> QED BY <3>1, <4>1, ServedTurn, PinningSteady
        <3>2. ASSUME NEW p \in Slots, Start(p)
              PROVE  PinningKept(m)
            <4>1. PICK r \in Request :
                     /\ Turns(p, r)
                     /\ r.at \in {"check_slow", "next_id", "update", "soft_delete", "delete_each",
                                  "count_pins", "unset_pinned"}
                BY <3>2, Starting
            <4>2. request[p] = None
                BY <3>2 DEF Start
            <4> QED BY <4>1, <4>2 DEF PinningKept, Pinning, Unpinning, At, Turns
        <3>3. ASSUME NEW p \in Slots, Fail(p)
              PROVE  FALSE
            BY <1>1, <3>3 DEF Fail, Fault
        <3>4. ASSUME UNCHANGED request
              PROVE  PinningKept(m)
            BY <3>4 DEF PinningKept, Pinning, Unpinning, At
        <3>5. ASSUME NEW u \in Users, ExpireSlow(u)
              PROVE  UNCHANGED request
            BY <3>5 DEF ExpireSlow
        <3>6. ASSUME NEW w \in Workers, Works(w) \/ Disconnect(w)
              PROVE  UNCHANGED request
            BY <3>6, WorkersLeave
        <3> QED BY <3>1, <3>2, <3>3, <3>4, <3>5, <3>6 DEF Next, vars
    <2>4. CASE m \in Stored
        BY <1>1, <2>1, <2>2, <2>3, <2>4, PinsKept
    <2>5. CASE m \notin Stored
        <3>1. m \notin pins' /\ ~messages'[m].pinned
            BY <2>1, <2>2, <2>5 DEF RowsOK
        <3>2. ASSUME NEW q \in Slots
              PROVE  ~Pinning(q, m) /\ ~Unpinning(q, m)
            BY <2>5, AboutStored DEF Pinning, Unpinning, At, AtOneOf
        <3>3. \A q \in Slots : ~Pinning(q, m)' /\ ~Unpinning(q, m)'
            BY <2>3, <3>2 DEF PinningKept
        <3> QED BY <3>1, <3>3 DEF PinsAgree
    <2> QED BY <2>4, <2>5
<1> QED BY <1>2, <1>3

-----------------------------------------------------------------------------
(* The last message.                                                       *)

(* Other calls leave the authors.                                          *)
LEMMA AuthorsKept ==
    ASSUME RequestsOK, RowsOK, FlagsOK, [Next]_vars, ~ \E p \in Slots : InsertMessage(p)
    PROVE  /\ Stored' = Stored
           /\ \A m \in Stored : messages'[m].author = messages[m].author
<1>1. MessagesTyped /\ faults \in Nat
    BY RowsFacts DEF FlagsOK
<1>2. ASSUME NEW x, NEW d, NEW b, Rewritten(x, d, b)
      PROVE  \A m \in Stored : messages'[m].author = messages[m].author
    BY <1>2 DEF Rewritten, Stored
<1>3. CASE UNCHANGED messages
    BY <1>1, <1>3, RowsThen
<1>4. ASSUME NEW p \in Slots, SetPinned(p) \/ UnsetPinned(p) \/ UpdateContent(p) \/ SoftDelete(p)
      PROVE  /\ Stored' = Stored
             /\ \A m \in Stored : messages'[m].author = messages[m].author
    <2>1. Stored' = Stored
        BY <1>4, LiveMoves
    <2>2. UNCHANGED messages \/ \E x, d, b : Rewritten(x, d, b)
        BY <1>1, <1>4, Writing
    <2> QED BY <1>2, <2>1, <2>2
<1>5. ASSUME NEW p \in Slots, DeleteEach(p)
      PROVE  /\ Stored' = Stored
             /\ \A m \in Stored : messages'[m].author = messages[m].author
    <2>1. PICK n, r : At(p, "delete_each") /\ Deletes1(p, n, r)
        BY <1>5, DeleteEachMoves
    <2>2. UNCHANGED messages \/ Rewritten(n, TRUE, messages[n].pinned)
        BY <1>1, <2>1, Writing DEF At
    <2>3. Stored' = Stored
        BY <2>1, LiveMoves DEF At
    <2> QED BY <1>2, <2>2, <2>3
<1> QED BY <1>3, <1>4, <1>5, MessagesMoves

(* The sends that have an id and have not set last_message_id are those    *)
(* that had.                                                               *)
NewestKept ==
    \A q \in Slots : /\ Newest(q)' <=> Newest(q)
                     /\ Newest(q) => request'[q].ids = request[q].ids
                     /\ \A m : Settling(q, m)' <=> Settling(q, m)

(* What follows the sends, where nothing concerns it.                      *)
LEMMA LastKept ==
    ASSUME LastFollows, NewestKept, Stored' = Stored, UNCHANGED last_message_id,
           \A m \in Stored : messages'[m].author = messages[m].author
    PROVE  LastFollows'
BY DEF LastFollows, NewestKept

(* A request at another call is not among them.                            *)
LEMMA NewestSteady ==
    ASSUME RequestsOK, NEW p \in Slots, NEW r, Turned(p, r),
           request[p].op = "send_message" => request[p].at \notin {"next_id", "insert", "set_last"}
    PROVE  NewestKept
<1> DEFINE s == request[p].at
<1>1. /\ request[p] # None /\ request'[p] = r
      /\ \A q \in Slots \ {p} : request'[q] = request[q]
      /\ s = "set_last" => request[p].op = "send_message"
    BY Serving DEF Turned, Turns, Goes
<1>2. ASSUME NEW q \in Slots \ {p}
      PROVE  /\ Newest(q)' <=> Newest(q)
             /\ Newest(q) => request'[q].ids = request[q].ids
             /\ \A m : Settling(q, m)' <=> Settling(q, m)
    BY <1>1 DEF Newest, Settling, At, AtOneOf
<1>3. ~Newest(p) /\ \A m : ~Settling(p, m)
    BY <1>1 DEF Newest, Settling, At, AtOneOf
<1>4. ASSUME r # None, r.at \in {"insert", "set_last"}
      PROVE  r.op # "send_message" /\ r.at # "set_last"
    <2>1. r.op = request[p].op /\ Follows(s, r.at) /\ s \in AllCalls
        BY <1>1, <1>4, Serving, CallNames DEF Turned
    <2>2. s \in {"next_id", "insert"}
        <3>1. CASE s \in {"check_slow", "set_last", "set_slow", "update"}
            BY <1>4, <2>1, <3>1 DEF Follows
        <3>2. CASE s \in {"soft_delete", "delete_each", "publish", "count_pins", "exists"}
            BY <1>4, <2>1, <3>2 DEF Follows
        <3>3. CASE s \in {"set_pinned", "insert_pin", "unset_pinned", "delete_pin"}
            BY <1>4, <2>1, <3>3 DEF Follows
        <3> QED BY <2>1, <3>1, <3>2, <3>3 DEF AllCalls
    <2>3. s # "insert"
        BY <1>4, <2>2 DEF Turned
    <2> QED BY <1>4, <2>1, <2>2, <2>3 DEF Follows
<1>5. ~Newest(p)' /\ \A m : ~Settling(p, m)'
    BY <1>1, <1>4 DEF Newest, Settling, At, AtOneOf
<1> QED BY <1>2, <1>3, <1>5 DEF NewestKept

(* A send is given an id, while no other is between its id and its UPDATE. *)
LEMMA LastBegins ==
    ASSUME RequestsOK, RowsOK, FlagsOK, "post" \notin races', NEW p \in Slots, NextId(p),
           request[p].op = "send_message", LastFollows
    PROVE  LastFollows'
<1>1. /\ At(p, "next_id") /\ request[p] # None /\ request[p].at = "next_id"
      /\ UNCHANGED <<messages, last_message_id>> /\ MessagesTyped
    BY RowsFacts DEF NextId, At
<1>2. PICK r : Turned(p, r)
    BY ServedTurn DEF Serves
<1>3. /\ r # None /\ r.op = "send_message" /\ r.ids = {ids_used + 1} /\ r.at = "insert"
      /\ request'[p] = r /\ \A q \in Slots \ {p} : request'[q] = request[q]
    BY <1>1, <1>2 DEF Turned, Turns, Follows
<1>4. \A q \in Slots \ {p} : ~Newest(q)
    BY DEF NextId, Race, Newest
<1>5. ASSUME NEW q \in Slots
      PROVE  Newest(q)' <=> q = p
    <2>1. CASE q = p
        BY <1>3, <2>1 DEF Newest, AtOneOf
    <2>2. CASE q # p
        <3>1. Newest(q)' <=> Newest(q)
            BY <1>3, <2>2 DEF Newest, AtOneOf
        <3> QED BY <1>4, <2>2, <3>1
    <2> QED BY <2>1, <2>2
<1>6. \A m : \A q \in Slots : ~Settling(q, m)
    <2>1. ASSUME NEW q \in Slots, NEW m, Settling(q, m)
          PROVE  FALSE
        <3>1. Newest(q)
            BY <2>1, Serving DEF Settling, At, Newest, AtOneOf, Goes
        <3>2. q # p
            BY <1>1, <2>1 DEF Settling, At
        <3> QED BY <1>4, <3>1, <3>2
    <2> QED BY <2>1
<1>7. Stored' = Stored /\ Stored \subseteq 1 .. ids_used /\ ids_used \in Nat
    BY <1>1, RowsThen, RowsFacts
<1>8. \A m \in Stored' : messages'[m].author # None => m <= last_message_id'
    BY <1>1, <1>6, <1>7 DEF LastFollows
<1>9. \A n \in request'[p].ids : \A m \in Stored' : m <= n
    BY <1>3, <1>7
<1> QED BY <1>5, <1>8, <1>9 DEF LastFollows

(* It posts its message, the newest, ...                                   *)
LEMMA LastInserts ==
    ASSUME RequestsOK, RowsOK, FlagsOK, NEW p \in Slots, InsertMessage(p), LastFollows
    PROVE  LastFollows'
<1>1. /\ request[p] # None /\ request[p].at = "insert" /\ UNCHANGED last_message_id
      /\ MessagesTyped /\ faults \in Nat
    BY RowsFacts DEF InsertMessage, At, FlagsOK
<1>2. PICK x \in Ids : request[p].ids = {x} /\ Inserted(x, request[p].user)
    BY <1>1, Writing
<1>3. /\ x \notin Stored /\ Stored' = Stored \cup {x} /\ Stored \subseteq Ids /\ x \in Nat
      /\ messages'[x].author = request[p].user
      /\ \A n \in Ids \ {x} : messages'[n] = messages[n]
    BY <1>1, <1>2, RowsThen DEF Inserted, Stored, Ids
<1>4. PICK r : Turned(p, r)
    BY ServedTurn DEF Serves
<1>5. /\ request'[p] = r /\ \A q \in Slots \ {p} : request'[q] = request[q]
    BY <1>4 DEF Turned, Turns
<1>6. \A q \in Slots \ {p} : /\ Newest(q)' <=> Newest(q)
                             /\ request'[q].ids = request[q].ids
                             /\ \A m : Settling(q, m)' <=> Settling(q, m)
    BY <1>5 DEF Newest, Settling, At, AtOneOf
<1>7. \A m : ~Settling(p, m)
    BY <1>1 DEF Settling, At
<1>8. CASE request[p].op = "send_message"
    <2>1. r # None /\ r.op = "send_message" /\ r.ids = {x} /\ r.at = "set_last"
        BY <1>1, <1>2, <1>4, <1>8 DEF Turned, Follows
    <2>2. Newest(p) /\ Newest(p)' /\ Settling(p, x)'
        BY <1>1, <1>5, <1>8, <2>1 DEF Newest, Settling, At, AtOneOf
    <2>3. \A q \in Slots : Newest(q)' <=> q = p
        BY <1>6, <2>2 DEF LastFollows
    <2>4. \A m \in Stored : messages[m].author # None => m <= x
        BY <1>2, <2>2 DEF LastFollows
    <2>5. ASSUME NEW m \in Stored', messages'[m].author # None
          PROVE  /\ m <= x
                 /\ m <= last_message_id' \/ \E q \in Slots : Settling(q, m)'
        <3>1. CASE m = x
            BY <1>3, <2>2, <3>1
        <3>2. CASE m # x
            <4>1. m \in Stored /\ messages[m].author # None
                BY <1>3, <2>5, <3>2
            <4>2. m <= last_message_id \/ \E q \in Slots : Settling(q, m)
                BY <4>1 DEF LastFollows
            <4>3. \A q \in Slots : Settling(q, m) => Settling(q, m)'
                BY <1>6, <1>7
            <4> QED BY <1>1, <2>4, <4>1, <4>2, <4>3
        <3> QED BY <3>1, <3>2
    <2>6. request'[p].ids = {x}
        BY <1>5, <2>1
    <2> QED BY <2>3, <2>5, <2>6 DEF LastFollows
<1>9. CASE request[p].op # "send_message"
    <2>1. request[p].user = None
        BY <1>1, <1>9, Serving DEF Goes, Posts, Placed, PlacedIn
    <2>2. ~Newest(p) /\ ~Newest(p)'
        <3>1. r # None => r.op # "send_message"
            BY <1>4, <1>9 DEF Turned
        <3> QED BY <1>5, <1>9, <3>1 DEF Newest, AtOneOf
    <2>3. \A q \in Slots : /\ Newest(q)' => Newest(q) /\ request'[q].ids = request[q].ids
        BY <1>6, <2>2
    <2>4. ASSUME NEW m \in Stored', messages'[m].author # None
          PROVE  /\ m \in Stored /\ messages[m].author # None
                 /\ m <= last_message_id' \/ \E q \in Slots : Settling(q, m)'
        <3>1. m # x
            BY <1>3, <2>1, <2>4
        <3>2. m \in Stored /\ messages[m].author # None
            BY <1>3, <2>4, <3>1
        <3>3. m <= last_message_id \/ \E q \in Slots : Settling(q, m)
            BY <3>2 DEF LastFollows
        <3> QED BY <1>1, <1>6, <1>7, <3>2, <3>3
    <2> QED BY <2>3, <2>4 DEF LastFollows
<1> QED BY <1>8, <1>9

(* ... and sets last_message_id to it.                                     *)
LEMMA LastEnds ==
    ASSUME RequestsOK, RowsOK, FlagsOK, NEW p \in Slots, SetLast(p), LastFollows
    PROVE  LastFollows'
<1>1. /\ request[p] # None /\ request[p].at = "set_last" /\ UNCHANGED messages
      /\ Turns(p, To(request[p], "set_slow")) /\ last_message_id' = Subject(p)
      /\ MessagesTyped
    BY PostMoves, RowsFacts DEF SetLast, At, RowsOK
<1>2. request[p].op = "send_message"
    BY <1>1, Serving DEF Goes
<1>3. PICK x \in Ids : request[p].ids = {x}
    BY <1>1, <1>2, AboutStored
<1>4. Subject(p) = x /\ Newest(p) /\ Stored' = Stored
    BY <1>1, <1>2, <1>3, SubjectIs, RowsThen DEF Newest, AtOneOf
<1>5. PICK r : Turned(p, r)
    BY ServedTurn DEF Serves
<1>6. /\ request'[p] = r /\ \A q \in Slots \ {p} : request'[q] = request[q]
    BY <1>5 DEF Turned, Turns
<1>7. ASSUME NEW q \in Slots
      PROVE  ~Newest(q)'
    <2>1. CASE q = p
        <3>1. r # None => r.at = "set_slow"
            BY <1>1, <1>5 DEF Turned, Follows
        <3> QED BY <1>6, <2>1, <3>1 DEF Newest, AtOneOf
    <2>2. CASE q # p
        <3>1. ~Newest(q)
            BY <1>4, <2>2 DEF LastFollows
        <3> QED BY <1>6, <2>2, <3>1 DEF Newest, AtOneOf
    <2> QED BY <2>1, <2>2
<1>8. \A m \in Stored' : messages'[m].author # None => m <= last_message_id'
    BY <1>1, <1>3, <1>4 DEF LastFollows
<1> QED BY <1>7, <1>8 DEF LastFollows

(* Which calls set last_message_id.                                        *)
LEMMA LastStays ==
    ASSUME [Next]_vars, ~ \E p \in Slots : SetLast(p)
    PROVE  UNCHANGED last_message_id
<1>1. ASSUME NEW p \in Slots, Serves(p)
      PROVE  UNCHANGED last_message_id
    <2>1. ASSUME CheckSlow(p) \/ Publish(p) \/ CountPins(p) \/ CheckExists(p)
          PROVE  UNCHANGED last_message_id
        BY <2>1 DEF CheckSlow, Publish, CountPins, CheckExists, rows
    <2>2. ASSUME \/ NextId(p) \/ InsertMessage(p) \/ SetSlow(p) \/ UpdateContent(p)
                 \/ SoftDelete(p) \/ DeleteEach(p) \/ SetPinned(p) \/ UnsetPinned(p)
                 \/ InsertPin(p) \/ DeletePin(p)
          PROVE  UNCHANGED last_message_id
        BY <2>2 DEF NextId, InsertMessage, SetSlow, UpdateContent, SoftDelete, DeleteEach,
           SetPinned, UnsetPinned, InsertPin, DeletePin
    <2> QED BY <1>1, <2>1, <2>2 DEF Serves
<1>2. ASSUME NEW p \in Slots, Start(p) \/ Fail(p)
      PROVE  UNCHANGED last_message_id
    BY <1>2 DEF Start, Fail, rows
<1>3. ASSUME NEW u \in Users, ExpireSlow(u)
      PROVE  UNCHANGED last_message_id
    BY <1>3 DEF ExpireSlow
<1>4. ASSUME NEW w \in Workers, Works(w) \/ Disconnect(w)
      PROVE  UNCHANGED last_message_id
    BY <1>4, WorkersLeave
<1>5. UNCHANGED vars => UNCHANGED last_message_id
    BY DEF vars, rows
<1> QED BY <1>1, <1>2, <1>3, <1>4, <1>5 DEF Next

(* No message a user has sent is newer than last_message_id but the one of *)
(* the send that is about to set it.                                       *)
LEMMA LastStep ==
    ASSUME RequestsOK, RowsOK, FlagsOK, LastInv, [Next]_vars
    PROVE  LastInv'
<1> SUFFICES ASSUME faults' = 0, "post" \notin races'
             PROVE  LastFollows'
    BY DEF LastInv
<1>1. LastFollows /\ faults \in Nat
    BY FlagsStep DEF LastInv, FlagsOK
<1>2. CASE \E p \in Slots : InsertMessage(p)
    BY <1>1, <1>2, LastInserts
<1>3. CASE \E p \in Slots : SetLast(p)
    BY <1>1, <1>3, LastEnds
<1>4. CASE \E p \in Slots : NextId(p) /\ request[p].op = "send_message"
    BY <1>1, <1>4, LastBegins
<1>5. CASE ~ \E p \in Slots : \/ InsertMessage(p) \/ SetLast(p)
                              \/ NextId(p) /\ request[p].op = "send_message"
    <2>1. /\ Stored' = Stored /\ UNCHANGED last_message_id
          /\ \A m \in Stored : messages'[m].author = messages[m].author
        BY <1>5, AuthorsKept, LastStays
    <2>2. ASSUME NEW p \in Slots, Serves(p)
          PROVE  NewestKept
        <3>1. request[p].op = "send_message" =>
                 request[p].at \notin {"next_id", "insert", "set_last"}
            BY <1>5, <2>2 DEF Serves, CheckSlow, SetSlow, NextId, UpdateContent, SoftDelete,
               DeleteEach, Publish, CountPins, CheckExists, SetPinned, InsertPin, UnsetPinned,
               DeletePin, At
        <3> QED BY <2>2, <3>1, ServedTurn, NewestSteady
    <2>3. ASSUME NEW p \in Slots, Start(p)
          PROVE  NewestKept
        <3>1. PICK r \in Request :
                 /\ Turns(p, r)
                 /\ r.at \in {"check_slow", "next_id", "update", "soft_delete", "delete_each",
                              "count_pins", "unset_pinned"}
            BY <2>3, Starting
        <3>2. request[p] = None
            BY <2>3 DEF Start
        <3> QED BY <3>1, <3>2 DEF NewestKept, Newest, Settling, At, AtOneOf, Turns
    <2>4. ASSUME NEW p \in Slots, Fail(p)
          PROVE  FALSE
        BY <1>1, <2>4 DEF Fail, Fault
    <2>5. ASSUME UNCHANGED request
          PROVE  NewestKept
        BY <2>5 DEF NewestKept, Newest, Settling, At, AtOneOf
    <2>6. ASSUME NEW u \in Users, ExpireSlow(u)
          PROVE  UNCHANGED request
        BY <2>6 DEF ExpireSlow
    <2>7. ASSUME NEW w \in Workers, Works(w) \/ Disconnect(w)
          PROVE  UNCHANGED request
        BY <2>7, WorkersLeave
    <2>8. NewestKept
        BY <2>2, <2>3, <2>4, <2>5, <2>6, <2>7 DEF Next, vars
    <2> QED BY <1>1, <2>1, <2>8, LastKept
<1> QED BY <1>2, <1>3, <1>4, <1>5

-----------------------------------------------------------------------------
(* The index.                                                              *)

(* A message that is deleted has been published, unless the deletion and   *)
(* the send overlapped; and it is among what its deletion tells of.        *)
LEMMA LiveLost ==
    ASSUME RequestsOK, RowsOK, FlagsOK, [Next]_vars, faults' = 0, "event" \notin races',
           NEW m \in Live \ Live'
    PROVE  ~Unpublished(m)
<1>1. MessagesTyped
    BY RowsFacts
<1>2. CASE UNCHANGED messages
    BY <1>1, <1>2, RowsThen
<1>3. ASSUME NEW p \in Slots, \/ InsertMessage(p) \/ UpdateContent(p) \/ SetPinned(p)
                              \/ UnsetPinned(p)
      PROVE  FALSE
    <2>1. Live \subseteq Live'
        BY <1>3, LiveMoves
    <2> QED BY <2>1
<1>4. ASSUME NEW p \in Slots, SoftDelete(p)
      PROVE  ~Unpublished(m)
    <2>1. m = Subject(p)
        BY <1>4, LiveMoves
    <2>2. races' = IF Unpublished(Subject(p)) THEN races \cup {"event"} ELSE races
        BY <1>4 DEF SoftDelete, Race
    <2> QED BY <2>1, <2>2
<1>5. ASSUME NEW p \in Slots, DeleteEach(p)
      PROVE  ~Unpublished(m)
    <2>1. PICK n, r : At(p, "delete_each") /\ Deletes1(p, n, r)
        BY <1>5, DeleteEachMoves
    <2>2. /\ Live' = Live \ {n}
          /\ races' = IF Unpublished(n) THEN races \cup {"event"} ELSE races
        BY <2>1, LiveMoves DEF At
    <2> QED BY <2>2
<1> QED BY <1>2, <1>3, <1>4, <1>5, MessagesMoves

(* A send that is not over is of a live message.                           *)
LEMMA SendsLiveStep ==
    ASSUME RequestsOK, RowsOK, FlagsOK, [Next]_vars, faults' = 0, "event" \notin races',
           SendsLive
    PROVE  SendsLive'
<1> DEFINE Sending == {"set_last", "set_slow", "publish"}
<1> SUFFICES ASSUME NEW q \in Slots, request'[q] # None, request'[q].at \in Sending,
                    request'[q].op = "send_message", NEW m \in request'[q].ids
             PROVE  m \in Live'
    BY DEF SendsLive, AtOneOf
<1>1. ASSUME request[q] # None, request[q].at \in Sending, request[q].op = "send_message",
             request'[q].ids = request[q].ids
      PROVE  m \in Live'
    <2>1. m \in Live
        BY <1>1 DEF SendsLive, AtOneOf
    <2>2. Unpublished(m)
        BY <1>1 DEF Unpublished, AtOneOf
    <2> QED BY <2>1, <2>2, LiveLost
<1>2. ASSUME NEW p \in Slots, NEW r, Turns(p, r), q # p
      PROVE  m \in Live'
    <2>1. request'[q] = request[q]
        BY <1>2 DEF Turns
    <2> QED BY <1>1, <2>1
<1>3. ASSUME NEW p \in Slots, Serves(p)
      PROVE  m \in Live'
    <2>1. PICK r : Turned(p, r) /\ Turns(p, r) /\ request'[p] = r
        BY <1>3, ServedTurn DEF Turned, Turns
    <2>2. CASE q # p
        BY <1>2, <2>1, <2>2
    <2>3. CASE q = p
        <3> DEFINE s == request[p].at
        <3>1. /\ request[p] # None /\ r # None /\ r.op = request[p].op /\ Follows(s, r.at)
              /\ s \in AllCalls /\ r.at \in Sending /\ request[p].op = "send_message"
              /\ s \in Calls("send_message")
            BY <2>1, <2>3, Serving, CallNames DEF Turned
        <3>2. s \in {"insert", "set_last", "set_slow"}
            BY <3>1, CallsOf DEF Follows
        <3>3. r.ids = request[p].ids
            BY <2>1, <3>1, <3>2 DEF Turned
        <3>4. CASE s = "insert"
            <4>1. InsertMessage(p)
                BY <1>3, <3>4 DEF Serves, CheckSlow, NextId, SetLast, SetSlow, UpdateContent,
                   SoftDelete, DeleteEach, Publish, CountPins, CheckExists, SetPinned,
                   InsertPin, UnsetPinned, DeletePin, At
            <4>2. request[p].ids \subseteq Live'
                BY <4>1, LiveMoves
            <4> QED BY <2>1, <2>3, <3>3, <4>2
        <3>5. CASE s # "insert"
            BY <1>1, <2>1, <2>3, <3>1, <3>2, <3>3, <3>5
        <3> QED BY <3>4, <3>5
    <2> QED BY <2>2, <2>3
<1>4. ASSUME NEW p \in Slots, Start(p)
      PROVE  m \in Live'
    <2>1. PICK r \in Request :
             /\ Turns(p, r)
             /\ r.at \in {"check_slow", "next_id", "update", "soft_delete", "delete_each",
                          "count_pins", "unset_pinned"}
        BY <1>4, Starting
    <2>2. q # p
        BY <2>1 DEF Turns
    <2> QED BY <1>2, <2>1, <2>2
<1>5. ASSUME NEW p \in Slots, Fail(p)
      PROVE  FALSE
    BY <1>5 DEF Fail, Fault, FlagsOK
<1>6. ASSUME UNCHANGED request
      PROVE  m \in Live'
    BY <1>1, <1>6
<1>7. ASSUME NEW u \in Users, ExpireSlow(u)
      PROVE  UNCHANGED request
    BY <1>7 DEF ExpireSlow
<1>8. ASSUME NEW w \in Workers, Works(w) \/ Disconnect(w)
      PROVE  UNCHANGED request
    BY <1>8, WorkersLeave
<1> QED BY <1>3, <1>4, <1>5, <1>6, <1>7, <1>8 DEF Next, vars

(* What is told stays told, and a removal that is published is told of.    *)
LEMMA ToldStays ==
    ASSUME RequestsOK, RowsOK, FlagsOK, StreamOK, WorkersOK, "search-indexer" \in Workers,
           [Next]_vars, faults' = 0, Done' = Done, NEW m, NEW e \in 0 .. Len(stream),
           Told(m, e) \/ m \in Live \ Live'
    PROVE  Told(m, e)'
<1>0. /\ Len(stream) \in Nat /\ Done \subseteq 1 .. Len(stream) /\ Done' = Done
      /\ \A d \in 1 .. Len(stream) : d \in 1 .. Len(stream') /\ stream'[d] = stream[d]
    BY StreamMoves, Appended DEF StreamOK, WorkersOK, Done
<1>1. CASE m \in Live \ Live'
    BY <1>1, RemovingStep DEF Told
<1>2. ASSUME NEW p \in Slots, m \in Removing(p)
      PROVE  Told(m, e)'
    <2>1. Published(p) \/ m \in Removing(p)'
        BY <1>2, RemovingStep
    <2>2. CASE Published(p)
        <3>1. /\ Len(stream') = Len(stream) + 1
              /\ stream'[Len(stream) + 1] = Event(request[p])
            BY <2>2, Appended
        <3>2. Removed(Event(request[p])) = Removing(p)
            BY <2>2, EventIs DEF Removing, Published, At
        <3>3. /\ Len(stream) + 1 \in 1 .. Len(stream') /\ Len(stream) + 1 \notin Done'
              /\ Len(stream) + 1 > e
            BY <1>0, <3>1
        <3>4. m \in Removed(stream'[Len(stream) + 1])
            BY <1>2, <3>1, <3>2
        <3> QED BY <3>3, <3>4 DEF Told, Removed
    <2>3. CASE m \in Removing(p)'
        BY <2>3 DEF Told
    <2> QED BY <2>1, <2>2, <2>3
<1>3. ASSUME NEW d \in 1 .. Len(stream), d \notin Done, d > e, m \in Removed(stream[d])
      PROVE  Told(m, e)'
    <2>1. d \in 1 .. Len(stream') /\ d \notin Done' /\ m \in Removed(stream'[d])
        BY <1>0, <1>3
    <2> QED BY <1>3, <2>1 DEF Told, Removed
<1> QED BY <1>1, <1>2, <1>3 DEF Told

(* The worker's events are among those there are, and of stored messages.  *)
LEMMA EventsFacts ==
    ASSUME RequestsOK, RowsOK, FlagsOK, StreamOK, CountsOK, WorkersOK,
           "search-indexer" \in Workers, [Next]_vars
    PROVE  /\ Len(stream) \in Nat /\ Done \subseteq 1 .. Len(stream)
           /\ 1 .. Len(stream) \subseteq Events
           /\ Live' \cap Stored \subseteq Live
           /\ \A e \in 1 .. Len(stream) :
                 /\ e \in 1 .. Len(stream') /\ stream'[e] = stream[e]
                 /\ Added(stream[e]) \subseteq Stored /\ Removed(stream[e]) \subseteq Stored
           /\ Stored \subseteq Ids
<1>1. Len(stream) \in Nat /\ 1 .. Len(stream) \subseteq Events
    BY EventsBound
<1>2. Done \subseteq 1 .. Len(stream)
    BY DEF WorkersOK, Done
<1>3. \A e \in 1 .. Len(stream) : e \in 1 .. Len(stream') /\ stream'[e] = stream[e]
    BY <1>1, StreamMoves, Appended
<1>4. \A e \in 1 .. Len(stream) :
         Added(stream[e]) \subseteq Stored /\ Removed(stream[e]) \subseteq Stored
    BY DEF StreamOK, Added, Removed
<1>5. Live' \cap Stored \subseteq Live /\ Stored \subseteq Ids
    BY RemovingStep DEF Stored
<1> QED BY <1>1, <1>2, <1>3, <1>4, <1>5

(* What follows the search worker, where it is not the one that moves.     *)
LEMMA IndexKept ==
    ASSUME RequestsOK, RowsOK, FlagsOK, StreamOK, CountsOK, WorkersOK,
           "search-indexer" \in Workers, [Next]_vars, faults' = 0, "event" \notin races',
           IndexFollows, Done' = Done, UNCHANGED index, InOrder'
    PROVE  IndexFollows'
<1>0. /\ Len(stream) \in Nat /\ Done \subseteq 1 .. Len(stream)
      /\ Live' \cap Stored \subseteq Live
      /\ \A e \in 1 .. Len(stream) :
            /\ e \in 1 .. Len(stream') /\ stream'[e] = stream[e]
            /\ Added(stream[e]) \subseteq Stored
    BY EventsFacts
<1>2. SendsLive'
    BY SendsLiveStep DEF IndexFollows
<1>3. Found'
    <2>1. ASSUME NEW e \in Done
          PROVE  Added(stream'[e]) \cap Live' \subseteq index
        <3>1. Added(stream[e]) \cap Live \subseteq index
            BY DEF IndexFollows, Found
        <3> QED BY <1>0, <3>1
    <2> QED BY <2>1 DEF Found, Added
<1>4. ASSUME NEW m, NEW e \in 0 .. Len(stream), Told(m, e) \/ m \in Live \ Live'
      PROVE  Told(m, e)'
    BY <1>4, ToldStays
<1>5. LostTold'
    <2>1. 0 \in 0 .. Len(stream)
        BY <1>0
    <2>2. ASSUME NEW m \in index, m \notin Live'
          PROVE  Told(m, 0)'
        <3>1. Told(m, 0) \/ m \in Live \ Live'
            BY <2>2 DEF IndexFollows, LostTold
        <3> QED BY <1>4, <2>1, <3>1
    <2> QED BY <2>2 DEF LostTold
<1>6. ASSUME NEW e \in 1 .. Len(stream), e \notin Done, NEW m \in Added(stream'[e]) \ Live'
      PROVE  Told(m, e)'
    <2>1. m \in Added(stream[e]) /\ e \in 0 .. Len(stream)
        BY <1>0
    <2>2. Told(m, e) \/ m \in Live \ Live'
        BY <1>6, <2>1 DEF IndexFollows, AddedTold
    <2> QED BY <1>4, <2>1, <2>2
<1>7. ASSUME NEW p \in Slots, Published(p), NEW m \in Added(stream'[Len(stream) + 1])
      PROVE  m \in Live'
    <2>1. /\ stream'[Len(stream) + 1] = Event(request[p])
          /\ At(p, "publish") /\ UNCHANGED messages
        BY <1>7, Appended DEF Published, rows
    <2>2. request[p].op = "send_message" /\ m \in request[p].ids
        BY <1>7, <2>1, EventIs
    <2>3. AtOneOf(p, {"set_last", "set_slow", "publish"})
        BY <2>1 DEF At, AtOneOf
    <2>4. m \in Live
        BY <2>2, <2>3 DEF IndexFollows, SendsLive
    <2> QED BY <2>1, <2>4, RowsFacts, RowsThen
<1>8. ASSUME NEW e \in 1 .. Len(stream'), e \notin Done, NEW m \in Added(stream'[e]) \ Live'
      PROVE  Told(m, e)'
    <2>1. CASE e \in 1 .. Len(stream)
        BY <1>6, <1>8, <2>1
    <2>2. CASE e \notin 1 .. Len(stream)
        <3>1. PICK p \in Slots : Published(p)
            BY <1>8, <2>2, StreamMoves
        <3>2. e = Len(stream) + 1
            BY <1>0, <2>2, <3>1, Appended
        <3> QED BY <1>7, <1>8, <3>1, <3>2
    <2> QED BY <2>1, <2>2
<1>9. AddedTold'
    BY <1>8 DEF AddedTold, Added
<1> QED BY <1>2, <1>3, <1>5, <1>9 DEF IndexFollows

(* The order is kept where the worker neither is given an event nor takes  *)
(* one.                                                                    *)
LEMMA OrderKept ==
    ASSUME InOrder, Done' = Done,
           inbox'["search-indexer"] = inbox["search-indexer"],
           \A e \in Events : deliveries'["search-indexer"][e] = deliveries["search-indexer"][e]
    PROVE  InOrder'
<1>1. PICK j \in Nat : DoneTo(j)
    BY DEF InOrder
<1>2. DoneTo(j)'
    BY <1>1 DEF DoneTo
<1> QED BY <1>2 DEF InOrder

(* The next event of the stream is given to it, as none is that waits.     *)
LEMMA OrderGiven ==
    ASSUME StreamOK, FlagsOK, CountsOK, WorkersOK, "search-indexer" \in Workers, InOrder,
           NEW e \in 1 .. Len(stream), Deliver("search-indexer", e), "overdue" \notin races'
    PROVE  InOrder'
<1> DEFINE w == "search-indexer"
           n == Len(inbox[w])
<1>1. PICK j \in Nat : DoneTo(j)
    BY DEF InOrder
<1>2. /\ Done = 1 .. j /\ \A i \in 1 .. n : inbox[w][i] = j + i
      /\ \A d \in Events : deliveries[w][d] > 0 <=> d <= j + n
    BY <1>1 DEF DoneTo
<1>3. 1 .. Len(stream) \subseteq Events /\ Len(stream) \in Nat
    BY EventsBound
<1>4. e \in Events /\ e \in Nat /\ e >= 1
    BY <1>3
<1>5. /\ deliveries[w][e] \in Nat /\ deliveries'[w][e] = deliveries[w][e] + 1
      /\ \A d \in Events : d # e => deliveries'[w][d] = deliveries[w][d]
    BY <1>4, DeliveryIs
<1>6. /\ n \in Nat /\ Len(inbox'[w]) = n + 1 /\ inbox'[w][n + 1] = e
      /\ \A i \in 1 .. n : inbox'[w][i] = inbox[w][i]
    BY <1>4, DeliveryIs
<1>7. e \notin Done /\ ~Waiting(w, e) /\ \A d \in 1 .. e - 1 : deliveries[w][d] > 0
    BY DEF Deliver, Race, Done
<1>8. ~(e <= j)
    BY <1>2, <1>4, <1>7
<1>9. \A i \in 1 .. n : inbox[w][i] # e
    <2>1. inbox[w] \in Seq(Events)
        BY DEF WorkersOK
    <2>2. DOMAIN inbox[w] = 1 .. n
        BY <2>1
    <2> QED BY <1>7, <2>2 DEF Waiting
<1> HIDE DEF n
<1>10. ~(e <= j + n)
    <2>1. ASSUME e <= j + n
          PROVE  FALSE
        <3>1. e - j \in 1 .. n /\ j + (e - j) = e
            BY <1>4, <1>6, <1>8, <2>1
        <3> QED BY <1>2, <1>9, <3>1
    <2> QED BY <2>1
<1>11. e - 1 <= j + n
    <2>1. CASE e = 1
        BY <1>6, <2>1
    <2>2. CASE e # 1
        <3>1. e - 1 \in 1 .. e - 1 /\ e - 1 \in Events
            BY <1>3, <1>4, <2>2
        <3> QED BY <1>2, <1>7, <3>1
    <2> QED BY <2>1, <2>2
<1>12. e = j + n + 1
    BY <1>4, <1>6, <1>10, <1>11
<1>13. \A d \in Events : deliveries'[w][d] > 0 <=> d <= j + (n + 1)
    <2>1. ASSUME NEW d \in Events
          PROVE  deliveries'[w][d] > 0 <=> d <= j + (n + 1)
        <3>1. d \in Nat
            BY DEF Events
        <3>2. CASE d = e
            BY <1>5, <1>6, <1>12, <3>2
        <3>3. CASE d # e
            <4>1. d <= j + (n + 1) <=> d <= j + n
                BY <1>6, <1>12, <3>1, <3>3
            <4> QED BY <1>2, <1>5, <3>3, <4>1
        <3> QED BY <3>2, <3>3
    <2> QED BY <2>1
<1>14. ASSUME NEW i \in 1 .. n + 1
       PROVE  inbox'[w][i] = j + i
    <2>1. CASE i = n + 1
        <3>1. inbox'[w][i] = e
            BY <1>6, <2>1
        <3>2. e = j + i
            BY <1>6, <1>12, <2>1
        <3> QED BY <3>1, <3>2
    <2>2. CASE i # n + 1
        <3>1. i \in 1 .. n
            BY <1>6, <2>2
        <3> QED BY <1>2, <1>6, <3>1
    <2> QED BY <2>1, <2>2
<1>15. Done' = 1 .. j
    BY <1>2 DEF Deliver, Done
<1>16. DoneTo(j)'
    BY <1>6, <1>13, <1>14, <1>15 DEF DoneTo
<1> QED BY <1>16 DEF InOrder

(* The event it takes comes after those it has done, and before the rest.  *)
LEMMA OrderTaken ==
    ASSUME StreamOK, FlagsOK, CountsOK, WorkersOK, "search-indexer" \in Workers, InOrder,
           NEW e, Handles("search-indexer", e), Acked("search-indexer", e)
    PROVE  /\ InOrder' /\ e \in 1 .. Len(stream) /\ e \notin Done /\ Done' = Done \cup {e}
           /\ \A d \in 1 .. Len(stream) : d < e => d \in Done
           /\ \A d \in 1 .. Len(stream) : d > e => d \notin Done
<1> DEFINE w == "search-indexer"
           n == Len(inbox[w])
<1>1. PICK j \in Nat : DoneTo(j)
    BY DEF InOrder
<1>2. /\ Done = 1 .. j /\ \A i \in 1 .. n : inbox[w][i] = j + i
      /\ \A d \in Events : deliveries[w][d] > 0 <=> d <= j + n
    BY <1>1 DEF DoneTo
<1>3. /\ e \in 1 .. Len(stream) /\ n \in Nat /\ n # 0 /\ e = inbox[w][1]
      /\ Len(inbox'[w]) = n - 1
      /\ \A i \in 1 .. Len(inbox'[w]) : i + 1 \in 1 .. n /\ inbox'[w][i] = inbox[w][i + 1]
    BY HeadIs
<1> HIDE DEF n
<1>4. e = j + 1
    <2>1. 1 \in 1 .. n
        BY <1>3
    <2> QED BY <1>2, <1>3, <2>1
<1>5. Done' = Done \cup {e}
    BY DEF Acked, Done, WorkersOK
<1>6. Done' = 1 .. j + 1
    BY <1>2, <1>4, <1>5
<1>7. \A i \in 1 .. Len(inbox'[w]) : inbox'[w][i] = (j + 1) + i
    <2>1. ASSUME NEW i \in 1 .. Len(inbox'[w])
          PROVE  inbox'[w][i] = (j + 1) + i
        <3>1. i + 1 \in 1 .. n /\ inbox'[w][i] = inbox[w][i + 1] /\ i \in Nat
            BY <1>3
        <3>2. inbox[w][i + 1] = j + (i + 1)
            BY <1>2, <3>1
        <3> QED BY <3>1, <3>2
    <2> QED BY <2>1
<1>8. \A d \in Events : deliveries'[w][d] > 0 <=> d <= (j + 1) + Len(inbox'[w])
    <2>1. UNCHANGED deliveries
        BY DEF Handles
    <2>2. (j + 1) + Len(inbox'[w]) = j + n
        BY <1>3
    <2> QED BY <1>2, <2>1, <2>2
<1>9. DoneTo(j + 1)'
    BY <1>6, <1>7, <1>8 DEF DoneTo
<1>10. InOrder'
    BY <1>9 DEF InOrder
<1>11. e \notin Done
    BY <1>2, <1>4
<1>12. \A d \in 1 .. Len(stream) : (d < e => d \in Done) /\ (d > e => d \notin Done)
    BY <1>2, <1>4
<1> QED BY <1>3, <1>5, <1>10, <1>11, <1>12

(* The search worker gets done with the next event.                        *)
LEMMA IndexHandles ==
    ASSUME RequestsOK, RowsOK, FlagsOK, StreamOK, CountsOK, WorkersOK, DeletionsTrue,
           "search-indexer" \in Workers, [Next]_vars, faults' = 0, "event" \notin races',
           IndexFollows, NEW e, Handles("search-indexer", e)
    PROVE  IndexFollows'
<1> DEFINE w == "search-indexer"
<1>0. /\ Len(stream) \in Nat /\ Done \subseteq 1 .. Len(stream)
      /\ 1 .. Len(stream) \subseteq Events
      /\ \A d \in 1 .. Len(stream) :
            Added(stream[d]) \subseteq Stored /\ Removed(stream[d]) \subseteq Stored
      /\ Stored \subseteq Ids /\ faults \in Nat
    BY EventsFacts DEF FlagsOK
<1>2. Indexed(stream[e], Ids) /\ Acked(w, e) /\ UNCHANGED <<stream, messages, request>>
    BY DEF Handles
<1>3. /\ InOrder' /\ e \in 1 .. Len(stream) /\ e \notin Done /\ Done' = Done \cup {e}
      /\ \A d \in 1 .. Len(stream) : d < e => d \in Done
      /\ \A d \in 1 .. Len(stream) : d > e => d \notin Done
    BY <1>2, OrderTaken DEF IndexFollows
<1>4. /\ Live' = Live /\ \A p \in Slots : Removing(p)' = Removing(p)
    <2>1. Live' = Live
        BY <1>2, RowsFacts, RowsThen
    <2>2. \A p \in Slots : Removing(p)' = Removing(p)
        BY <1>2 DEF Removing
    <2> QED BY <2>1, <2>2
<1>6. /\ index' = (index \cup Added(stream[e])) \ Removed(stream[e])
      /\ Removed(stream[e]) \cap Live = {}
    <2>1. Added(stream[e]) \cap Ids = Added(stream[e])
          /\ Removed(stream[e]) \cap Ids = Removed(stream[e])
        BY <1>0, <1>3
    <2>2. Removed(stream[e]) \cap Live = {}
        BY <1>3 DEF DeletionsTrue
    <2> QED BY <1>2, <2>1, <2>2 DEF Indexed
<1>8. SendsLive'
    BY SendsLiveStep DEF IndexFollows
<1>9. Found'
    <2>1. ASSUME NEW f \in Done'
          PROVE  Added(stream[f]) \cap Live \subseteq index'
        <3>1. CASE f = e
            BY <1>6, <3>1
        <3>2. CASE f # e
            <4>1. Added(stream[f]) \cap Live \subseteq index
                BY <1>3, <3>2 DEF IndexFollows, Found
            <4> QED BY <1>6, <4>1
        <3> QED BY <3>1, <3>2
    <2> QED BY <1>2, <1>4, <2>1 DEF Found, Added
<1>10. ASSUME NEW m, NEW f \in 0 .. Len(stream), Told(m, f), f >= e \/ m \notin Removed(stream[e])
       PROVE  Told(m, f)'
    <2>1. CASE \E p \in Slots : m \in Removing(p)
        BY <1>4, <2>1 DEF Told
    <2>2. CASE \E d \in 1 .. Len(stream) : d \notin Done /\ d > f /\ m \in Removed(stream[d])
        <3>1. PICK d \in 1 .. Len(stream) : d \notin Done /\ d > f /\ m \in Removed(stream[d])
            BY <2>2
        <3>2. d # e
            BY <1>0, <1>10, <3>1
        <3>3. d \in 1 .. Len(stream') /\ d \notin Done' /\ m \in Removed(stream'[d])
            BY <1>2, <1>3, <3>1, <3>2
        <3> QED BY <3>1, <3>3 DEF Told, Removed
    <2> QED BY <1>10, <2>1, <2>2 DEF Told
<1>11. LostTold'
    <2>1. ASSUME NEW m \in index', m \notin Live
          PROVE  Told(m, 0)'
        <3>1. m \notin Removed(stream[e]) /\ 0 \in 0 .. Len(stream)
            BY <1>0, <1>6, <2>1
        <3>2. CASE m \in index
            <4>1. Told(m, 0)
                BY <2>1, <3>2 DEF IndexFollows, LostTold
            <4> QED BY <1>10, <3>1, <4>1
        <3>3. CASE m \in Added(stream[e])
            <4>1. Told(m, e)
                BY <1>3, <2>1, <3>3 DEF IndexFollows, AddedTold
            <4>2. Told(m, 0)
                <5>1. \A d \in 1 .. Len(stream) : d > 0
                    OBVIOUS
                <5> QED BY <4>1, <5>1 DEF Told
            <4> QED BY <1>10, <3>1, <4>2
        <3> QED BY <1>6, <2>1, <3>2, <3>3
    <2> QED BY <1>4, <2>1 DEF LostTold
<1>12. AddedTold'
    <2>1. ASSUME NEW f \in (1 .. Len(stream)) \ Done', NEW m \in Added(stream[f]) \ Live
          PROVE  Told(m, f)'
        <3>1. f \notin Done /\ f # e /\ f >= e /\ f \in 0 .. Len(stream)
            BY <1>0, <1>3
        <3>2. Told(m, f)
            BY <3>1 DEF IndexFollows, AddedTold
        <3> QED BY <1>10, <3>1, <3>2
    <2> QED BY <1>2, <1>4, <2>1 DEF AddedTold, Added
<1> QED BY <1>3, <1>8, <1>9, <1>11, <1>12 DEF IndexFollows

(* The index follows the messages, if nothing fails, no message is deleted *)
(* before its sender has published it and no event is given twice.         *)
LEMMA IndexStep ==
    ASSUME RequestsOK, RowsOK, FlagsOK, StreamOK, CountsOK, WorkersOK, DeletionsTrue,
           IndexInv, [Next]_vars
    PROVE  IndexInv'
<1> SUFFICES ASSUME "search-indexer" \in Workers, faults' = 0, "event" \notin races',
                    "overdue" \notin races'
             PROVE  IndexFollows'
    BY DEF IndexInv
<1> DEFINE w == "search-indexer"
<1>1. IndexFollows /\ InOrder /\ faults \in Nat
    <2>1. faults = 0 /\ races \subseteq races' /\ faults \in Nat
        BY FlagsStep DEF FlagsOK
    <2> QED BY <2>1 DEF IndexInv, IndexFollows
<1>2. ASSUME Done' = Done, inbox'[w] = inbox[w], UNCHANGED index,
             \A d \in Events : deliveries'[w][d] = deliveries[w][d]
      PROVE  IndexFollows'
    <2>1. InOrder'
        BY <1>1, <1>2, OrderKept
    <2> QED BY <1>1, <1>2, <2>1, IndexKept
<1>3. CASE UNCHANGED <<deliveries, inbox, acked, index, pushed, connected>>
    BY <1>2, <1>3 DEF Done
<1>4. ASSUME NEW v \in Workers, Reconnects(v)
      PROVE  IndexFollows'
    <2>1. UNCHANGED <<deliveries, inbox, acked, index>>
        BY <1>4 DEF Reconnects
    <2> QED BY <1>2, <2>1 DEF Done
<1>5. ASSUME NEW e \in 1 .. Len(stream), Deliver(w, e)
      PROVE  IndexFollows'
    <2>1. InOrder'
        BY <1>1, <1>5, OrderGiven
    <2>2. Done' = Done /\ UNCHANGED index
        BY <1>5 DEF Deliver, Done
    <2> QED BY <1>1, <2>1, <2>2, IndexKept
<1>6. ASSUME NEW v \in Workers, v # w, NEW e \in 1 .. Len(stream), Deliver(v, e)
      PROVE  IndexFollows'
    <2>1. e \in Events
        BY EventsBound
    <2>2. inbox'[w] = inbox[w] /\ \A d \in Events : deliveries'[w][d] = deliveries[w][d]
        BY <1>6, <2>1, DeliveryIs
    <2>3. Done' = Done /\ UNCHANGED index
        BY <1>6 DEF Deliver, Done
    <2> QED BY <1>2, <2>2, <2>3
<1>7. ASSUME NEW v \in Workers, v # w, NEW e, Handles(v, e)
      PROVE  IndexFollows'
    <2>1. inbox'[w] = inbox[w]
        BY <1>7, HeadIs
    <2>2. UNCHANGED <<deliveries, index>> /\ (Acked(v, e) \/ UNCHANGED acked)
        BY <1>7 DEF Handles
    <2>3. Done' = Done
        BY <1>7, <2>2 DEF Acked, Done, WorkersOK
    <2> QED BY <1>2, <2>1, <2>2, <2>3
<1>8. ASSUME NEW e, Handles(w, e)
      PROVE  IndexFollows'
    BY <1>1, <1>8, IndexHandles
<1> QED BY <1>1, <1>3, <1>4, <1>5, <1>6, <1>7, <1>8, WorkersMoves

-----------------------------------------------------------------------------
(* The invariant, and what follows.                                        *)

(* The rows of the first messages.                                         *)
LEMMA FirstRows ==
    ASSUME Init
    PROVE  /\ messages \in [Ids -> Row \cup {None}]
           /\ Stored = 1 .. OldIds /\ Live = 1 .. OldIds /\ Stored \subseteq Ids
           /\ \A m \in Stored : messages[m].pinned <=> m \in pins
           /\ pins \subseteq Stored /\ Cardinality(pins) <= MaxPins
<1>1. PICK author \in Users, pinned \in SUBSET (1 .. OldIds) :
         /\ Cardinality(pinned) <= MaxPins /\ pins = pinned
         /\ messages = [m \in Ids |-> IF m <= OldIds
                THEN [author |-> author, deleted |-> FALSE, pinned |-> m \in pinned,
                      text |-> "text"]
                ELSE None]
    BY DEF Init
<1>2. OldIds \in Nat /\ MaxIds \in Nat /\ OldIds <= MaxIds
    BY ConstantsAssumption
<1> DEFINE row(m) == [author |-> author, deleted |-> FALSE, pinned |-> m \in pinned,
                      text |-> "text"]
<1>3. ASSUME NEW m
      PROVE  row(m) \in Row /\ row(m) # None
    <2>1. ASSUME NEW b \in BOOLEAN
          PROVE  [author |-> author, deleted |-> FALSE, pinned |-> b, text |-> "text"] \in Row
        BY DEF Row
    <2>2. row(m) \in Row
        <3>1. CASE m \in pinned
            <4>1. row(m) = [author |-> author, deleted |-> FALSE, pinned |-> TRUE, text |-> "text"]
                BY <3>1
            <4> QED BY <2>1, <4>1
        <3>2. CASE m \notin pinned
            <4>1. row(m) = [author |-> author, deleted |-> FALSE, pinned |-> FALSE, text |-> "text"]
                <5>1. (m \in pinned) = FALSE
                    BY <3>2
                <5> QED BY <5>1, Zenon
            <4> QED BY <2>1, <4>1
        <3> QED BY <3>1, <3>2
    <2> HIDE DEF row
    <2> QED BY <2>2, NoneAssumption
<1>4. \A m \in Ids : /\ m <= OldIds => messages[m] = row(m)
                     /\ ~(m <= OldIds) => messages[m] = None
    BY <1>1
<1>5. \A m : row(m).deleted = FALSE /\ (row(m).pinned <=> m \in pinned)
    OBVIOUS
<1>6. messages = [m \in Ids |-> IF m <= OldIds THEN row(m) ELSE None]
    BY <1>1
<1> HIDE DEF row
<1>7. \A m : m \in 1 .. OldIds <=> m \in Ids /\ m <= OldIds
    BY <1>2 DEF Ids
<1>8. messages \in [Ids -> Row \cup {None}]
    BY <1>3, <1>6
<1>9. Stored = 1 .. OldIds
    BY <1>3, <1>4, <1>7 DEF Stored
<1>10. Live = 1 .. OldIds
    BY <1>3, <1>4, <1>5, <1>7 DEF Live
<1>11. \A m \in Stored : messages[m].pinned <=> m \in pins
    BY <1>1, <1>4, <1>5, <1>7, <1>9
<1> QED BY <1>1, <1>7, <1>8, <1>9, <1>10, <1>11

(* It holds of a channel whose messages have all been served and consumed. *)
LEMMA InitType ==
    ASSUME Init
    PROVE  TypeInv
<1>1. OldIds \in Nat /\ MaxIds \in Nat /\ OldIds <= MaxIds /\ MaxRequests \in Nat
      /\ MaxFaults \in Nat /\ MaxDeliver \in Nat
    BY ConstantsAssumption
<1>2. /\ request = [p \in Slots |-> None] /\ stream = << >> /\ ids_used = OldIds
      /\ last_message_id = OldIds /\ slowmode = {} /\ in_window = [u \in Users |-> 0]
      /\ deliveries = [w \in Workers |-> [e \in Events |-> 0]]
      /\ acked = [w \in Workers |-> {}] /\ connected = Workers
      /\ inbox = [w \in Workers |-> << >>]
      /\ pushed = [m \in Ids |-> 0] /\ races = {} /\ started = 0 /\ faults = 0
      /\ index = 1 .. OldIds
    BY DEF Init
<1>3. Len(stream) = 0 /\ 1 .. Len(stream) = {}
    <2>1. Len(<< >>) = 0
        OBVIOUS
    <2> QED BY <1>2, <2>1
<1>4. RequestsOK
    <2>1. Posting = {}
        BY <1>2 DEF Posting
    <2> QED BY <1>2, <2>1 DEF RequestsOK
<1>5. RowsOK
    <2>1. OldIds \in 1 .. OldIds \cup {0} /\ OldIds \in 0 .. MaxIds
        BY <1>1
    <2> QED BY <1>2, <2>1, FirstRows DEF RowsOK
<1>6. StreamOK
    BY <1>2, <1>3 DEF StreamOK
<1>7. FlagsOK
    BY <1>1, <1>2 DEF FlagsOK
<1>8. CountsOK
    <2>1. Busy = {} /\ \A u \in Users : Unposted(u) = {}
        BY <1>2 DEF Busy, Unposted, AtOneOf
    <2>2. Cardinality({}) = 0
        BY FS_EmptySet
    <2>3. in_window \in [Users -> Nat] /\ \A u \in Users : in_window[u] = 0
        BY <1>2
    <2>4. Len(stream) + Cardinality(Busy) <= started
        BY <1>2, <1>3, <2>1, <2>2
    <2>5. ASSUME NEW u \in Users
          PROVE  in_window[u] + Cardinality(Unposted(u)) <= started
        <3>1. in_window[u] = 0 /\ Cardinality(Unposted(u)) = 0 /\ started = 0
            BY <1>2, <2>1, <2>2, <2>3
        <3> QED BY <3>1
    <2> QED BY <2>3, <2>4, <2>5 DEF CountsOK
<1>9. WorkersOK
    <2>1. deliveries \in [Workers -> [Events -> 0 .. MaxDeliver]]
        <3>1. 0 \in 0 .. MaxDeliver
            BY <1>1
        <3>2. [e \in Events |-> 0] \in [Events -> 0 .. MaxDeliver]
            BY <3>1
        <3> QED BY <1>2, <3>2
    <2>2. \A w \in Workers : \A e \in Events : deliveries[w][e] = 0
        BY <1>2
    <2>3. acked \in [Workers -> SUBSET (1 .. Len(stream))]
          /\ \A w \in Workers : acked[w] = {}
        BY <1>2
    <2>4. index \subseteq Stored /\ connected \subseteq Workers
        BY <1>2, FirstRows
    <2>5. inbox \in [Workers -> Seq(Events)] /\ \A w \in Workers : inbox[w] = << >>
        BY <1>2
    <2>6. \A w \in Workers : 1 .. Len(inbox[w]) = {}
        BY <2>5
    <2>7. \A w \in Workers : \A e \in Events : CountOf(inbox[w], e) = 0
        BY <2>5, CountNone
    <2>8. \A w \in Workers : \A e \in Events : CountOf(inbox[w], e) <= deliveries[w][e]
        BY <2>2, <2>7
    <2> QED BY <2>1, <2>2, <2>3, <2>4, <2>5, <2>6, <2>8 DEF WorkersOK
<1>10. PushedOK
    <2>1. Posting = {} /\ pushed \in [Ids -> Nat] /\ \A m \in Ids : pushed[m] = 0
        BY <1>2 DEF Posting
    <2> QED BY <1>3, <2>1 DEF PushedOK
<1> QED BY <1>4, <1>5, <1>6, <1>7, <1>8, <1>9, <1>10 DEF TypeInv

(* And so do the others.                                                   *)
LEMMA InitPipeline ==
    ASSUME Init
    PROVE  PipelineInv
<1>1. /\ \A p \in Slots : request[p] = None
      /\ Len(stream) = 0 /\ 1 .. Len(stream) = {} /\ last_message_id = OldIds
      /\ \A u \in Users : in_window[u] = 0 /\ u \notin slowmode
      /\ index = 1 .. OldIds
      /\ "search-indexer" \in Workers =>
            /\ Done = {} /\ inbox["search-indexer"] = << >>
            /\ \A e \in Events : deliveries["search-indexer"][e] = 0
    <2>1. /\ request = [p \in Slots |-> None] /\ stream = << >>
          /\ in_window = [u \in Users |-> 0] /\ slowmode = {} /\ index = 1 .. OldIds
          /\ deliveries = [w \in Workers |-> [e \in Events |-> 0]]
          /\ acked = [w \in Workers |-> {}] /\ last_message_id = OldIds
          /\ inbox = [w \in Workers |-> << >>]
        BY DEF Init
    <2>2. Len(<< >>) = 0
        OBVIOUS
    <2>3. Len(stream) = 0 /\ 1 .. Len(stream) = {}
        BY <2>1, <2>2
    <2> QED BY <2>1, <2>3 DEF Done
<1>2. TypeInv
    BY InitType
<1>3. DeletionsInv
    BY <1>1 DEF DeletionsInv, DeletionsTrue, Removing
<1>4. PinsLimited
    <2>1. Counted = {} /\ Cardinality({}) = 0
        BY <1>1, FS_EmptySet DEF Counted, AtOneOf
    <2>2. IsFiniteSet(Slots) /\ Slots # {}
        BY ConstantsAssumption
    <2>3. Cardinality(Slots) \in Nat /\ Cardinality(Slots) # 0
        BY <2>2, FS_EmptySet, FS_CardinalityType
    <2>4. IsFiniteSet(1 .. OldIds)
        BY FS_Interval, ConstantsAssumption
    <2>5. Cardinality(pins) \in Nat /\ Cardinality(pins) <= MaxPins /\ MaxPins \in Nat
        BY <2>4, FirstRows, FS_Subset, FS_CardinalityType, ConstantsAssumption
    <2>6. Cardinality(Counted) = 0
        BY <2>1
    <2> QED BY <2>3, <2>5, <2>6 DEF PinsLimited
<1>5. SlowInv
    BY <1>1 DEF SlowInv, SlowOnce, Sends, AtOneOf
<1>6. PinsInv
    BY <1>1, FirstRows DEF PinsInv, PinsAgree, Pinning, Unpinning, At
<1>7. LastInv
    <2>1. \A m \in Stored : m <= last_message_id
        BY <1>1, FirstRows
    <2> QED BY <1>1, <2>1 DEF LastInv, LastFollows, Newest, AtOneOf
<1>8. IndexInv
    <2>1. index \ Live = {}
        BY <1>1, FirstRows
    <2>2. "search-indexer" \in Workers => InOrder
        <3>1. ASSUME "search-indexer" \in Workers
              PROVE  DoneTo(0)
            <4>1. Len(inbox["search-indexer"]) = 0
                BY <1>1, <3>1
            <4>2. \A e \in Events : ~(e <= 0 + 0)
                BY DEF Events
            <4>3. 1 .. 0 = {}
                OBVIOUS
            <4> QED BY <1>1, <3>1, <4>1, <4>2, <4>3 DEF DoneTo
        <3> QED BY <3>1 DEF InOrder
    <2> QED BY <1>1, <2>1, <2>2 DEF IndexInv, IndexFollows, SendsLive, Found, LostTold, AddedTold,
           AtOneOf
<1> QED BY <1>2, <1>3, <1>4, <1>5, <1>6, <1>7, <1>8 DEF PipelineInv

(* Every step keeps it.                                                    *)
LEMMA PipelineStep ==
    ASSUME PipelineInv, [Next]_vars
    PROVE  PipelineInv'
<1>1. /\ RequestsOK /\ RowsOK /\ StreamOK /\ FlagsOK /\ CountsOK /\ WorkersOK
      /\ DeletionsInv /\ DeletionsTrue
    BY DEF PipelineInv, TypeInv, DeletionsInv
<1>2. TypeInv'
    BY TypeStep DEF PipelineInv
<1>3. DeletionsInv' /\ PinsLimited'
    BY <1>1, DeletionsStep, PinsLimitedStep DEF PipelineInv
<1>4. SlowInv' /\ PinsInv'
    BY <1>1, SlowStep, PinsStep DEF PipelineInv
<1>5. LastInv' /\ IndexInv'
    BY <1>1, LastStep, IndexStep DEF PipelineInv
<1> QED BY <1>2, <1>3, <1>4, <1>5 DEF PipelineInv

(* What the handlers, the stream and the workers keep true of the stores.  *)
THEOREM PipelineInvariant == Spec => []PipelineInv
<1>1. Init => PipelineInv
    BY InitPipeline
<1>2. PipelineInv /\ [Next]_vars => PipelineInv'
    BY PipelineStep
<1> QED BY <1>1, <1>2, PTL DEF Spec

(* Rows, pins, events and index entries are of messages that exist, and    *)
(* the workers' counts within their bounds.                                *)
THEOREM TypeCorrect == Spec => []TypeOK
<1>1. PipelineInv => TypeOK
    <2> SUFFICES ASSUME PipelineInv
                 PROVE  TypeOK
        OBVIOUS
    <2>1. TypeInv /\ RequestsOK /\ StreamOK /\ CountsOK /\ WorkersOK /\ PushedOK /\ FlagsOK
        BY DEF PipelineInv, TypeInv
    <2>2. 1 .. Len(stream) \subseteq Events /\ Len(stream) \in Nat
          /\ \A u \in Users : in_window[u] \in 0 .. MaxRequests
        BY <2>1, EventsBound
    <2>3. in_window \in [Users -> 0 .. MaxRequests]
        BY <2>1, <2>2 DEF CountsOK
    <2>4. ASSUME NEW m \in Ids
          PROVE  pushed[m] \in 0 .. MaxDeliver
        <3>1. pushed[m] \in Nat /\ MaxDeliver \in Nat
            BY <2>1, ConstantsAssumption DEF PushedOK
        <3>2. ASSUME pushed[m] > 0
              PROVE  pushed[m] <= MaxDeliver
            <4>1. PICK e \in 1 .. Len(stream) :
                     /\ "push-worker" \in Workers
                     /\ pushed[m] + CountOf(inbox["push-worker"], e)
                           <= deliveries["push-worker"][e]
                BY <2>1, <3>2 DEF PushedOK
            <4>2. /\ deliveries["push-worker"][e] \in 0 .. MaxDeliver /\ e \in Events
                  /\ inbox["push-worker"] \in Seq(Events)
                BY <2>1, <2>2, <4>1 DEF WorkersOK
            <4>3. CountOf(inbox["push-worker"], e) \in Nat
                BY <4>2, CountAppend
            <4> QED BY <3>1, <4>1, <4>2, <4>3
        <3> QED BY <3>1, <3>2
    <2>5. pushed \in [Ids -> 0 .. MaxDeliver]
        BY <2>1, <2>4 DEF PushedOK
    <2>6. ASSUME NEW p \in Slots, request[p] # None
          PROVE  /\ request[p].op \in DOMAIN Handler
                 /\ request[p].user \in Users \cup {None}
                 /\ request[p].ids \subseteq 1 .. ids_used
                 /\ request[p].todo \subseteq Ids
                 /\ request[p].at \in Calls(request[p].op)
        BY <2>1, <2>6, Serving DEF Request, Placed, PlacedIn
    <2>7. \A w \in Workers : acked[w] \subseteq {e \in 1 .. Len(stream) : deliveries[w][e] > 0}
        BY <2>1 DEF WorkersOK
    <2>8. ASSUME NEW w \in Workers, NEW e \in Events, e \in acked[w] \/ Waiting(w, e)
          PROVE  e <= Len(stream) /\ deliveries[w][e] > 0
        <3>1. CASE e \in acked[w]
            BY <2>1, <2>2, <2>7, <3>1
        <3>2. CASE Waiting(w, e)
            <4>1. inbox[w] \in Seq(Events)
                BY <2>1 DEF WorkersOK
            <4>2. PICK i \in 1 .. Len(inbox[w]) : inbox[w][i] = e
                BY <3>2, <4>1 DEF Waiting
            <4> QED BY <2>1, <4>2 DEF WorkersOK
        <3> QED BY <2>8, <3>1, <3>2
    <2>9. messages \in [Ids -> Row \cup {None}] /\ pins \subseteq Stored
          /\ last_message_id \in Stored \cup {0} /\ slowmode \subseteq Users
          /\ ids_used \in 0 .. MaxIds
        BY <2>1 DEF TypeInv, RowsOK
    <2>10. /\ \A e \in 1 .. Len(stream) : stream[e].ids \subseteq Stored
           /\ deliveries \in [Workers -> [Events -> 0 .. MaxDeliver]]
           /\ connected \subseteq Workers /\ index \subseteq Stored
        BY <2>1 DEF StreamOK, WorkersOK
    <2>11. /\ races \subseteq {"slow", "post", "event", "pin", "overdue", "unacked"}
           /\ started \in 0 .. MaxRequests /\ faults \in 0 .. MaxFaults
        BY <2>1 DEF FlagsOK, Kinds
    <2> QED BY <2>3, <2>5, <2>6, <2>8, <2>9, <2>10, <2>11 DEF TypeOK
<1> QED BY <1>1, PipelineInvariant, PTL

(* Of a message that an event calls deleted, the row is.                   *)
THEOREM DeletionsToldTrue == Spec => []DeletionsTrue
<1>1. PipelineInv => DeletionsTrue
    BY DEF PipelineInv, DeletionsInv
<1> QED BY <1>1, PipelineInvariant, PTL

(* No number of concurrent requests goes further over 50 pins than there   *)
(* are others at once, and slow mode holds when no two sends overlap.      *)
THEOREM LimitsHold == Spec => []LimitsWithinReach
<1>1. PipelineInv => LimitsWithinReach
    <2> SUFFICES ASSUME PipelineInv
                 PROVE  LimitsWithinReach
        OBVIOUS
    <2>1. RowsOK /\ PinsLimited /\ SlowInv
        BY DEF PipelineInv, TypeInv
    <2>2. Cardinality(pins) < MaxPins + Cardinality(Slots)
        <3>1. IsFiniteSet(Slots) /\ MaxPins \in Nat
            BY ConstantsAssumption
        <3>2. IsFiniteSet(Counted) /\ IsFiniteSet(1 .. ids_used) /\ pins \subseteq 1 .. ids_used
            <4>1. ids_used \in Nat /\ pins \subseteq 1 .. ids_used
                BY <2>1, RowsFacts DEF RowsOK
            <4>2. IsFiniteSet(1 .. ids_used)
                BY <4>1, FS_Interval
            <4>3. Counted \subseteq Slots
                BY DEF Counted
            <4> QED BY <3>1, <4>1, <4>2, <4>3, FS_Subset
        <3>3. /\ Cardinality(Counted) \in Nat /\ Cardinality(Slots) \in Nat
              /\ Cardinality(pins) \in Nat
            BY <3>1, <3>2, FS_Subset, FS_CardinalityType
        <3> QED BY <2>1, <3>1, <3>3 DEF PinsLimited
    <2>3. faults = 0 /\ "slow" \notin races => \A u \in Users : in_window[u] <= 1
        BY <2>1 DEF SlowInv, SlowOnce
    <2> QED BY <2>2, <2>3 DEF LimitsWithinReach
<1> QED BY <1>1, PipelineInvariant, PTL

(* Once all are served, the message rows and the list of pins agree, ...   *)
LEMMA PinsSettled ==
    ASSUME PipelineInv
    PROVE  PinsSettle
<1> SUFFICES ASSUME AllServed, faults = 0, "pin" \notin races
             PROVE  pins = {m \in Stored : messages[m].pinned}
    BY DEF PinsSettle
<1>1. pins \subseteq Stored /\ \A m \in Stored : PinsAgree(m)
    BY DEF PipelineInv, TypeInv, RowsOK, PinsInv
<1>2. \A m : \A p \in Slots : ~Pinning(p, m) /\ ~Unpinning(p, m)
    BY DEF AllServed, Pinning, Unpinning, At
<1>3. \A m \in Stored : m \in pins <=> messages[m].pinned
    BY <1>1, <1>2 DEF PinsAgree
<1> QED BY <1>1, <1>3

(* ... last_message_id is no older than any message a user has sent, ...   *)
LEMMA LastSettled ==
    ASSUME PipelineInv
    PROVE  LastMessageSettles
BY DEF PipelineInv, LastInv, LastFollows, LastMessageSettles, AllServed, Settling, At

(* ... and the index, when its worker has handled every event, finds       *)
(* what is there and nothing that is not.                                  *)
LEMMA IndexSettled ==
    ASSUME PipelineInv
    PROVE  IndexSettles
<1> SUFFICES ASSUME AllServed, Drained("search-indexer"), faults = 0,
                    races \cap {"event", "overdue"} = {}
             PROVE  /\ index \subseteq Live
                    /\ \A e \in 1 .. Len(stream) : Added(stream[e]) \cap Live \subseteq index
    BY DEF IndexSettles
<1>1. "search-indexer" \in Workers /\ IndexFollows
    BY DEF Drained, PipelineInv, IndexInv
<1>2. MaxDeliver \in Nat /\ MaxDeliver # 0
    BY ConstantsAssumption
<1>3. 1 .. Len(stream) \subseteq Events
    BY EventsBound DEF PipelineInv, TypeInv
<1>4. ASSUME NEW e \in 1 .. Len(stream)
      PROVE  e \in Done
    <2>1. CASE deliveries["search-indexer"][e] = MaxDeliver
        <3>1. deliveries["search-indexer"][e] > 0 /\ e \in Events /\ e >= 1
            BY <1>2, <1>3, <2>1
        <3>2. PICK j \in Nat : DoneTo(j)
            BY <1>1 DEF IndexFollows, InOrder
        <3>3. Len(inbox["search-indexer"]) = 0
            BY DEF Drained
        <3>4. e <= j + 0
            BY <3>1, <3>2, <3>3 DEF DoneTo
        <3> QED BY <3>1, <3>2, <3>4 DEF DoneTo
    <2> QED BY <1>1, <2>1 DEF Drained, DoneWith, Done
<1>5. \A p \in Slots : Removing(p) = {}
    BY DEF AllServed, Removing
<1>6. \A m : ~Told(m, 0)
    BY <1>4, <1>5 DEF Told
<1> QED BY <1>1, <1>4, <1>6 DEF IndexFollows, Found, LostTold

(* The stores agree once nothing is under way, if nothing failed, the      *)
(* requests that would disagree have not overlapped and no event was       *)
(* delivered again while it waited for the search worker.                  *)
THEOREM StoresSettle == Spec => []Settles
<1>1. PipelineInv => Settles
    BY PinsSettled, LastSettled, IndexSettled DEF Settles
<1> QED BY <1>1, PipelineInvariant, PTL

-----------------------------------------------------------------------------
(* Notifications.  While no event is given to a worker that has it still   *)
(* to handle, an inbox holds none twice and none that is acknowledged; and *)
(* what the push worker has notified of it has acknowledged.               *)
AckedAtOnce ==
    LET w == "push-worker"
    IN  /\ \A i, j \in 1 .. Len(inbox[w]) : inbox[w][i] = inbox[w][j] => i = j
        /\ \A i \in 1 .. Len(inbox[w]) : inbox[w][i] \notin acked[w]
        /\ \A m \in Ids : pushed[m] <= 1
        /\ \A m \in Ids : \A e \in 1 .. Len(stream) :
              Creates(e, m) /\ pushed[m] > 0 => e \in acked[w]

PushInv == "push-worker" \in Workers /\ races \cap {"overdue", "unacked"} = {} => AckedAtOnce

(* At first nothing has been delivered.                                    *)
LEMMA InitPush ==
    ASSUME Init
    PROVE  PushInv
<1> SUFFICES ASSUME "push-worker" \in Workers
             PROVE  AckedAtOnce
    BY DEF PushInv
<1>1. inbox["push-worker"] = << >> /\ stream = << >> /\ \A m \in Ids : pushed[m] = 0
    BY DEF Init
<1>2. 1 .. Len(inbox["push-worker"]) = {} /\ 1 .. Len(stream) = {}
    BY <1>1
<1> QED BY <1>1, <1>2 DEF AckedAtOnce

(* An event that is new is of messages nobody has been notified of.        *)
LEMMA PushedBefore ==
    ASSUME StreamOK, PushedOK, CreatedOK', RequestsOK, [Next]_vars, UNCHANGED pushed, AckedAtOnce,
           acked'["push-worker"] = acked["push-worker"],
           NEW m \in Ids, NEW e \in 1 .. Len(stream'), Creates(e, m)', pushed'[m] > 0
    PROVE  e \in acked'["push-worker"]
<1>1. PICK d \in 1 .. Len(stream) : Creates(d, m)
    BY DEF PushedOK
<1>2. d \in 1 .. Len(stream') /\ stream'[d] = stream[d]
    BY StreamMoves, Appended DEF StreamOK
<1>3. Creates(d, m)'
    BY <1>1, <1>2 DEF Creates
<1>4. d = e
    BY <1>2, <1>3 DEF CreatedOK
<1> QED BY <1>1, <1>4 DEF AckedAtOnce

(* Nothing hands the push worker an event it has acknowledged, and of the  *)
(* one it takes nobody has been notified.                                  *)
LEMMA PushStep ==
    ASSUME TypeInv, PushInv, [Next]_vars
    PROVE  PushInv'
<1> DEFINE w == "push-worker"
<1> SUFFICES ASSUME w \in Workers, "overdue" \notin races', "unacked" \notin races'
             PROVE  AckedAtOnce'
    BY DEF PushInv
<1>1. /\ RequestsOK /\ RowsOK /\ StreamOK /\ FlagsOK /\ CountsOK /\ WorkersOK /\ PushedOK
      /\ faults \in Nat /\ CreatedOK
    BY DEF TypeInv, FlagsOK, PushedOK, CreatedOK
<1>2. AckedAtOnce
    BY <1>1, FlagsStep DEF PushInv
<1>3. CreatedOK'
    BY <1>1, CreatedStep
<1>4. /\ \A i, j \in 1 .. Len(inbox[w]) : inbox[w][i] = inbox[w][j] => i = j
      /\ \A i \in 1 .. Len(inbox[w]) : inbox[w][i] \notin acked[w]
      /\ \A m \in Ids : pushed[m] <= 1
      /\ \A m \in Ids : \A e \in 1 .. Len(stream) :
            Creates(e, m) /\ pushed[m] > 0 => e \in acked[w]
    BY <1>2 DEF AckedAtOnce
<1>5. ASSUME UNCHANGED pushed, acked'[w] = acked[w]
      PROVE  /\ \A m \in Ids : pushed'[m] <= 1
             /\ \A m \in Ids : \A e \in 1 .. Len(stream') :
                   Creates(e, m)' /\ pushed'[m] > 0 => e \in acked'[w]
    BY <1>1, <1>2, <1>3, <1>4, <1>5, PushedBefore
<1>6. ASSUME UNCHANGED pushed, acked'[w] = acked[w], inbox'[w] = inbox[w] \/ inbox'[w] = << >>
      PROVE  AckedAtOnce'
    <2>1. 1 .. Len(<< >>) = {}
        OBVIOUS
    <2>2. /\ \A i, j \in 1 .. Len(inbox'[w]) : inbox'[w][i] = inbox'[w][j] => i = j
          /\ \A i \in 1 .. Len(inbox'[w]) : inbox'[w][i] \notin acked'[w]
        BY <1>4, <1>6, <2>1
    <2> QED BY <1>5, <1>6, <2>2 DEF AckedAtOnce
<1>7. CASE UNCHANGED <<deliveries, inbox, acked, index, pushed, connected>>
    BY <1>6, <1>7
<1>8. ASSUME NEW v \in Workers, Reconnects(v)
      PROVE  AckedAtOnce'
    <2>1. inbox'[w] = inbox[w] \/ inbox'[w] = << >>
        BY <1>1, <1>8, ReconnectIs
    <2>2. UNCHANGED <<acked, pushed>>
        BY <1>8 DEF Reconnects
    <2> QED BY <1>6, <2>1, <2>2
<1>9. ASSUME NEW v \in Workers, NEW e \in 1 .. Len(stream), Deliver(v, e)
      PROVE  AckedAtOnce'
    <2>1. e \in Events /\ UNCHANGED <<acked, pushed>>
        BY <1>1, <1>9, EventsBound DEF Deliver
    <2>2. CASE v # w
        <3>1. inbox'[w] = inbox[w]
            BY <1>1, <1>9, <2>1, <2>2, DeliveryIs
        <3> QED BY <1>6, <2>1, <3>1
    <2>3. CASE v = w
        <3>1. /\ Len(inbox[w]) \in Nat /\ Len(inbox'[w]) = Len(inbox[w]) + 1
              /\ \A i \in 1 .. Len(inbox[w]) : inbox'[w][i] = inbox[w][i]
              /\ inbox'[w][Len(inbox[w]) + 1] = e
            BY <1>1, <1>9, <2>1, <2>3, DeliveryIs
        <3>2. e \notin acked[w] /\ ~Waiting(w, e)
            BY <1>9, <2>3 DEF Deliver, Race
        <3>3. \A i \in 1 .. Len(inbox[w]) : inbox[w][i] # e
            <4>1. inbox[w] \in Seq(Events)
                BY <1>1 DEF WorkersOK
            <4>2. DOMAIN inbox[w] = 1 .. Len(inbox[w])
                BY <4>1
            <4> QED BY <3>2, <4>2 DEF Waiting
        <3>4. 1 .. Len(inbox'[w]) = 1 .. Len(inbox[w]) \cup {Len(inbox[w]) + 1}
            BY <3>1
        <3>5. /\ \A i, j \in 1 .. Len(inbox'[w]) : inbox'[w][i] = inbox'[w][j] => i = j
              /\ \A i \in 1 .. Len(inbox'[w]) : inbox'[w][i] \notin acked'[w]
            BY <1>4, <2>1, <3>1, <3>2, <3>3, <3>4
        <3> QED BY <1>5, <2>1, <3>5 DEF AckedAtOnce
    <2> QED BY <2>2, <2>3
<1>10. ASSUME NEW v \in Workers, v # w, NEW e, Handles(v, e)
       PROVE  AckedAtOnce'
    <2>1. inbox'[w] = inbox[w]
        BY <1>1, <1>10, HeadIs
    <2>2. UNCHANGED pushed /\ (Acked(v, e) \/ UNCHANGED acked)
        BY <1>10 DEF Handles
    <2>3. acked'[w] = acked[w]
        BY <1>1, <1>10, <2>2 DEF Acked, WorkersOK
    <2> QED BY <1>6, <2>1, <2>2, <2>3
<1>11. ASSUME NEW e, Handles(w, e)
       PROVE  AckedAtOnce'
    <2>1. /\ e \in 1 .. Len(stream) /\ Len(inbox[w]) \in Nat /\ Len(inbox[w]) # 0
          /\ e = inbox[w][1] /\ Len(inbox'[w]) = Len(inbox[w]) - 1
          /\ \A i \in 1 .. Len(inbox'[w]) :
                i + 1 \in 1 .. Len(inbox[w]) /\ inbox'[w][i] = inbox[w][i + 1]
        BY <1>1, <1>11, HeadIs
    <2>2. UNCHANGED stream /\ (Acked(w, e) \/ UNCHANGED acked)
        BY <1>11 DEF Handles
    <2>3. acked'[w] \subseteq acked[w] \cup {e} /\ acked[w] \subseteq acked'[w]
        BY <1>1, <2>2 DEF Acked, WorkersOK
    <2>4. e \notin acked[w] /\ 1 \in 1 .. Len(inbox[w])
        BY <1>4, <2>1
    <2>5. \A i, j \in 1 .. Len(inbox'[w]) : inbox'[w][i] = inbox'[w][j] => i = j
        <3>1. ASSUME NEW i \in 1 .. Len(inbox'[w]), NEW j \in 1 .. Len(inbox'[w]),
                     inbox'[w][i] = inbox'[w][j]
              PROVE  i = j
            <4>1. i + 1 = j + 1
                BY <1>4, <2>1, <3>1
            <4> QED BY <4>1
        <3> QED BY <3>1
    <2>6. \A i \in 1 .. Len(inbox'[w]) : inbox'[w][i] \notin acked'[w]
        <3>1. ASSUME NEW i \in 1 .. Len(inbox'[w])
              PROVE  inbox'[w][i] \notin acked'[w]
            <4>1. inbox'[w][i] = inbox[w][i + 1] /\ i + 1 \in 1 .. Len(inbox[w]) /\ i + 1 # 1
                BY <2>1
            <4>2. inbox[w][i + 1] \notin acked[w] /\ inbox[w][i + 1] # e
                BY <1>4, <2>1, <2>4, <4>1
            <4> QED BY <2>3, <4>1, <4>2
        <3> QED BY <3>1
    <2>7. CASE UNCHANGED pushed
        <3>1. \A m \in Ids : \A d \in 1 .. Len(stream') :
                 Creates(d, m)' /\ pushed'[m] > 0 => d \in acked'[w]
            BY <1>4, <2>2, <2>3, <2>7 DEF Creates
        <3> QED BY <1>4, <2>5, <2>6, <2>7, <3>1 DEF AckedAtOnce
    <2>8. CASE /\ stream[e].type = "MESSAGE_CREATE" /\ e \in acked'[w]
               /\ pushed' = [m \in Ids |-> pushed[m] + IF m \in stream[e].ids THEN 1 ELSE 0]
        <3>1. \A m \in Ids : pushed[m] \in Nat
            BY <1>1 DEF PushedOK
        <3>2. ASSUME NEW m \in Ids
              PROVE  pushed'[m] = pushed[m] + IF m \in stream[e].ids THEN 1 ELSE 0
            BY <2>8
        <3>3. ASSUME NEW m \in Ids, m \in stream[e].ids
              PROVE  pushed[m] = 0
            <4>1. Creates(e, m)
                BY <2>8, <3>3 DEF Creates
            <4>2. ~(pushed[m] > 0)
                BY <1>4, <2>1, <2>4, <4>1
            <4> QED BY <3>1, <4>2
        <3>4. ASSUME NEW m \in Ids
              PROVE  pushed'[m] <= 1
            BY <1>4, <3>1, <3>2, <3>3
        <3>5. ASSUME NEW m \in Ids, NEW d \in 1 .. Len(stream'), Creates(d, m)', pushed'[m] > 0
              PROVE  d \in acked'[w]
            <4>1. d \in 1 .. Len(stream) /\ Creates(d, m)
                BY <2>2, <3>5 DEF Creates
            <4>2. CASE m \in stream[e].ids
                <5>1. Creates(e, m)
                    BY <2>8, <4>2 DEF Creates
                <5>2. d = e
                    BY <1>1, <2>1, <4>1, <5>1 DEF CreatedOK
                <5> QED BY <2>8, <5>2
            <4>3. CASE m \notin stream[e].ids
                <5>1. pushed[m] > 0
                    BY <3>1, <3>2, <3>5, <4>3
                <5> QED BY <1>4, <2>3, <4>1, <5>1
            <4> QED BY <4>2, <4>3
        <3> QED BY <2>5, <2>6, <3>4, <3>5 DEF AckedAtOnce
    <2> QED BY <1>11, <2>7, <2>8 DEF Handles
<1> QED BY <1>1, <1>7, <1>8, <1>9, <1>10, <1>11, WorkersMoves

(* A message is created by one event, so that nobody is notified of it     *)
(* twice, however often the push worker loses its connection and is given  *)
(* the event again, unless the ack of the notified event is lost or the    *)
(* event is delivered again while it waits to be handled.                  *)
THEOREM NotifiedOnce == Spec => []PushedOnce
<1>1. Init => PushInv
    BY InitPush
<1>2. PipelineInv /\ PushInv /\ [Next]_vars => PushInv'
    BY PushStep DEF PipelineInv
<1>3. PipelineInv /\ PushInv => PushedOnce
    <2> SUFFICES ASSUME PipelineInv, PushInv, races \cap {"overdue", "unacked"} = {},
                        NEW m \in Ids
                 PROVE  pushed[m] <= 1
        BY DEF PushedOnce
    <2>1. CASE "push-worker" \in Workers
        BY <2>1 DEF PushInv, AckedAtOnce
    <2>2. CASE "push-worker" \notin Workers
        BY <2>2 DEF PipelineInv, TypeInv, PushedOK
    <2> QED BY <2>1, <2>2
<1> QED BY <1>1, <1>2, <1>3, PipelineInvariant, PTL DEF Spec

-----------------------------------------------------------------------------
(* The layout of ids.                                                      *)

(* Scaling by a field's width keeps the order of naturals.                 *)
LEMMA ScaleMonotone ==
    ASSUME NEW s \in Nat, NEW a \in Nat, NEW b \in Nat, a <= b
    PROVE  a * s <= b * s
<1>1. PICK d \in Nat : b = a + d
    <2>1. b - a \in Nat /\ b = a + (b - a)
        OBVIOUS
    <2> QED BY <2>1
<1>2. b * s = a * s + d * s
    BY <1>1
<1>3. d * s \in Nat /\ a * s \in Nat
    OBVIOUS
<1> QED BY <1>2, <1>3

(* Shifting a packed pair right gives its upper half, masking its lower.   *)
LEMMA QuotientOfPacked ==
    ASSUME NEW s \in Nat \ {0}, NEW x \in Nat, NEW r \in 0 .. s - 1
    PROVE  /\ (x * s + r) \div s = x
           /\ (x * s + r) % s = r
<1>1. x * s \in Nat
    OBVIOUS
<1> QED BY <1>1

(* next_id's packing of the three fields is a natural number.              *)
LEMMA IdIsNatural ==
    ASSUME NEW ts \in Nat, NEW m \in Machines, NEW seq \in Nat
    PROVE  Id(ts, m, seq) \in Nat
<1>1. m \in Nat /\ ts * MachineCount + m \in Nat
    BY SnowflakeAssumption DEF Machines
<1>2. (ts * MachineCount + m) * SequenceCount \in Nat
    BY <1>1, SnowflakeAssumption
<1> QED BY <1>2 DEF Id

(* The three fields of an id do not run into one another.                  *)
LEMMA IdFields ==
    ASSUME NEW ts \in Nat, NEW m \in Machines, NEW seq \in 0 .. MaxSequence
    PROVE  /\ TimestampOf(Id(ts, m, seq)) = ts
           /\ MachineOf(Id(ts, m, seq)) = m
<1> DEFINE high == ts * MachineCount + m
<1>1. high \in Nat /\ m \in 0 .. MachineCount - 1 /\ MachineCount \in Nat \ {0}
    BY SnowflakeAssumption DEF Machines
<1>2. SequenceCount \in Nat \ {0} /\ seq \in 0 .. SequenceCount - 1
    BY SnowflakeAssumption DEF MaxSequence
<1>3. Id(ts, m, seq) \div SequenceCount = high
    <2> HIDE DEF high
    <2>1. (high * SequenceCount + seq) \div SequenceCount = high
        BY <1>1, <1>2, QuotientOfPacked
    <2> QED BY <2>1 DEF Id, high
<1>4. high \div MachineCount = ts /\ high % MachineCount = m
    BY <1>1, QuotientOfPacked
<1> QED BY <1>3, <1>4 DEF TimestampOf, MachineOf

Before(ts1, seq1, ts2, seq2) == ts1 < ts2 \/ (ts1 = ts2 /\ seq1 < seq2)

(* The ids of a machine sort by timestamp, then by sequence.               *)
LEMMA IdOrder ==
    ASSUME NEW m \in Machines, NEW ts1 \in Nat, NEW ts2 \in Nat,
           NEW seq1 \in 0 .. MaxSequence, NEW seq2 \in 0 .. MaxSequence,
           Before(ts1, seq1, ts2, seq2)
    PROVE  Id(ts1, m, seq1) < Id(ts2, m, seq2)
<1> DEFINE high(ts) == ts * MachineCount + m
<1>1. /\ m \in Nat /\ MachineCount \in Nat \ {0} /\ SequenceCount \in Nat \ {0}
      /\ seq1 \in 0 .. SequenceCount - 1 /\ seq2 \in 0 .. SequenceCount - 1
    BY SnowflakeAssumption DEF Machines, MaxSequence
<1>2. high(ts1) \in Nat /\ high(ts2) \in Nat
    BY <1>1
<1>3. CASE ts1 = ts2 /\ seq1 < seq2
    <2>1. high(ts1) * SequenceCount \in Nat
        BY <1>1, <1>2
    <2> QED BY <1>1, <1>3, <2>1 DEF Id
<1>4. CASE ts1 < ts2
    <2>1. (ts1 + 1) * MachineCount <= ts2 * MachineCount
        BY <1>1, <1>4, ScaleMonotone
    <2>2. high(ts1) + 1 <= high(ts2)
        BY <1>1, <2>1
    <2> HIDE DEF high
    <2>3. (high(ts1) + 1) * SequenceCount <= high(ts2) * SequenceCount
        BY <1>1, <1>2, <2>2, ScaleMonotone
    <2>4. high(ts1) * SequenceCount + seq1 < high(ts2) * SequenceCount + seq2
        BY <1>1, <1>2, <2>3
    <2> QED BY <2>4 DEF Id, high
<1> QED BY <1>3, <1>4 DEF Before

-----------------------------------------------------------------------------
(* Type correctness.                                                       *)

(* The values of the program stay in range and a thread in mid-loop has    *)
(* read its clock since its process started, whatever the interleaving.    *)
THEOREM SnowflakeTypeCorrect == SnowflakeSpec => []SnowflakeTypeOK
<1>1. SnowflakeInit => SnowflakeTypeOK
    BY SnowflakeAssumption DEF SnowflakeInit, SnowflakeTypeOK, Zero, Word, Words, MaxSequence, Stamped
<1>2. SnowflakeTypeOK /\ [SnowflakeNext]_snowflake_vars => SnowflakeTypeOK'
    <2> SUFFICES ASSUME SnowflakeTypeOK, [SnowflakeNext]_snowflake_vars
                 PROVE  SnowflakeTypeOK'
        OBVIOUS
    <2> USE SnowflakeAssumption DEF Stamped
    <2>0. Zero \in Words
        BY DEF Zero, Word, Words, MaxSequence
    <2>1. CASE UNCHANGED snowflake_vars
        BY <2>1 DEF snowflake_vars, locals, wall, SnowflakeTypeOK
    <2>2. ASSUME NEW t \in Threads, ReadClock(t) PROVE SnowflakeTypeOK'
        BY <2>2 DEF ReadClock, wall, SnowflakeTypeOK
    <2>3. ASSUME NEW t \in Threads, Load(t) PROVE SnowflakeTypeOK'
        <3>1. CASE EndIteration(t)
            BY <2>0, <2>3, <3>1 DEF Load, EndIteration, wall, SnowflakeTypeOK
        <3>2. CASE pc' = [pc EXCEPT ![t] = "swap"]
            <4> DEFINE word == state[Home[t]]
            <4>1. word \in Words
                BY DEF SnowflakeTypeOK
            <4>2. now[t] \in Nat
                BY DEF SnowflakeTypeOK
            <4>3. IsNewMillisecond(now[t], word) \/ ~IsExhausted(word)
                BY <2>3, <3>2 DEF Load, EndIteration, SnowflakeTypeOK
            <4>4. Successor(now[t], word) \in Words
                BY <4>1, <4>2, <4>3 DEF Successor, IsNewMillisecond, IsExhausted, Word, Words, MaxSequence
            <4>5. /\ old' = [old EXCEPT ![t] = word]
                  /\ pc[t] = "load"
                  /\ UNCHANGED <<now, state, wall, issued, restarts>>
                BY <2>3, <3>2 DEF Load, EndIteration, SnowflakeTypeOK
            <4> QED BY <3>2, <4>1, <4>4, <4>5 DEF wall, SnowflakeTypeOK
        <3> QED BY <2>3, <3>1, <3>2 DEF Load
    <2>4. ASSUME NEW t \in Threads, Swap(t) PROVE SnowflakeTypeOK'
        <3> DEFINE m == Home[t]
                   new == Successor(now[t], old[t])
        <3>1. new \in Words
            BY <2>4 DEF Swap, SnowflakeTypeOK
        <3>2. Id(new.ts, m, new.seq) \in Nat
            BY <3>1, IdIsNatural DEF Words, SnowflakeTypeOK
        <3> HIDE DEF new
        <3>3. /\ state' = [state EXCEPT ![m] = new]
              /\ issued' = [issued EXCEPT ![m] = Append(@, Id(new.ts, m, new.seq))]
              /\ EndIteration(t)
              /\ UNCHANGED <<wall, restarts>>
            BY <2>4 DEF Swap, new
        <3>4. issued' \in [Machines -> Seq(Nat)]
            BY <3>2, <3>3 DEF SnowflakeTypeOK
        <3> QED BY <2>0, <3>1, <3>3, <3>4 DEF EndIteration, wall, SnowflakeTypeOK
    <2>5. ASSUME NEW t \in Threads, SwapFails(t) PROVE SnowflakeTypeOK'
        BY <2>0, <2>5 DEF SwapFails, EndIteration, wall, SnowflakeTypeOK
    <2>6. ASSUME NEW m \in Machines, Tick(m) PROVE SnowflakeTypeOK'
        BY <2>6 DEF Tick, locals, SnowflakeTypeOK
    <2>7. ASSUME NEW m \in Machines, StepBack(m) PROVE SnowflakeTypeOK'
        BY <2>7 DEF StepBack, locals, SnowflakeTypeOK
    <2>8. ASSUME NEW m \in Machines, RestartProcess(m) PROVE SnowflakeTypeOK'
        BY <2>0, <2>8 DEF RestartProcess, SnowflakeTypeOK
    <2> QED BY <2>1, <2>2, <2>3, <2>4, <2>5, <2>6, <2>7, <2>8 DEF SnowflakeNext
<1> QED BY <1>1, <1>2, PTL DEF SnowflakeSpec

-----------------------------------------------------------------------------
(* What the history of a machine has to do with its word: an id handed out *)
(* is of a time before the last restart, or not ahead of the word.  This   *)
(* is what makes the properties inductive: a successful exchange moves the *)
(* word forward, and so past every id there is.                            *)

Past(m, ts, seq) ==
    \/ ts < floor[m]
    \/ ts < state[m].ts
    \/ ts = state[m].ts /\ seq <= state[m].seq

IsRecorded(m, id) ==
    \E ts \in 0 .. peak[m], seq \in 0 .. MaxSequence :
        id = Id(ts, m, seq) /\ Past(m, ts, seq)

Handed(m) == {issued[m][i] : i \in DOMAIN issued[m]}

Recorded ==
    \A m \in Machines :
        /\ state[m].ts <= peak[m]
        /\ \A id \in Handed(m) : IsRecorded(m, id)

Inv == SnowflakeTypeOK /\ Recorded

(* What a successful exchange stores and issues.                           *)
LEMMA SwapIssues ==
    ASSUME Inv, NEW t \in Threads, Swap(t)
    PROVE  \E ts \in Nat, seq \in 0 .. MaxSequence :
             LET m == Home[t] IN
             /\ now[t] <= ts /\ floor[m] <= ts /\ ts <= peak[m]
             /\ Before(state[m].ts, state[m].seq, ts, seq)
             /\ state' = [state EXCEPT ![m] = Word(ts, seq)]
             /\ issued' = [issued EXCEPT ![m] = Append(@, Id(ts, m, seq))]
             /\ UNCHANGED wall
<1> DEFINE m == Home[t]
           new == Successor(now[t], old[t])
<1>1. /\ m \in Machines /\ now[t] \in Nat
      /\ floor[m] \in Nat /\ peak[m] \in Nat /\ state[m] \in Words
      /\ floor[m] <= now[t] /\ now[t] <= peak[m] /\ state[m].ts <= peak[m]
      /\ new \in Words
    BY SnowflakeAssumption DEF Inv, SnowflakeTypeOK, Recorded, Swap, Stamped
<1>2. old[t] = state[m]
    BY DEF Swap, Wins
<1>3. new = Word(new.ts, new.seq) /\ new.ts \in Nat /\ new.seq \in 0 .. MaxSequence
    BY <1>1 DEF Words, Word
<1>4. /\ now[t] <= new.ts /\ new.ts <= peak[m]
      /\ Before(state[m].ts, state[m].seq, new.ts, new.seq)
    BY <1>1, <1>2 DEF Successor, IsNewMillisecond, Before, Words, Word
<1>5. /\ state' = [state EXCEPT ![m] = new]
      /\ issued' = [issued EXCEPT ![m] = Append(@, Id(new.ts, m, new.seq))]
      /\ UNCHANGED wall
    BY DEF Swap
<1> HIDE DEF new
<1>6. floor[m] <= new.ts
    BY <1>1, <1>3, <1>4
<1> QED BY <1>3, <1>4, <1>5, <1>6

(* The word and the clock only move forward, but for a restart, which      *)
(* raises the floor instead: what is past stays past.                      *)
LEMMA RecordedInvariant == SnowflakeSpec => []Inv
<1>1. SnowflakeInit => Recorded
    BY SnowflakeAssumption DEF SnowflakeInit, Recorded, Handed, Zero, Word
<1>2. SnowflakeTypeOK /\ SnowflakeTypeOK' /\ Recorded /\ [SnowflakeNext]_snowflake_vars => Recorded'
    <2> SUFFICES ASSUME SnowflakeTypeOK, SnowflakeTypeOK', Recorded, [SnowflakeNext]_snowflake_vars,
                        NEW m \in Machines
                 PROVE  (/\ state[m].ts <= peak[m]
                         /\ \A id \in Handed(m) : IsRecorded(m, id))'
        BY DEF Recorded
    <2> USE SnowflakeAssumption
    <2>0. /\ state[m] \in Words /\ state'[m] \in Words /\ issued[m] \in Seq(Nat)
          /\ clock[m] \in Nat /\ peak[m] \in Nat /\ floor[m] \in Nat
          /\ peak'[m] \in Nat /\ floor'[m] \in Nat
          /\ clock[m] <= peak[m] /\ floor[m] <= clock[m]
          /\ state[m].ts <= peak[m]
        BY DEF SnowflakeTypeOK, Recorded
    <2> DEFINE Keeps ==
            \A ts \in 0 .. peak[m], seq \in 0 .. MaxSequence :
                Past(m, ts, seq) => ts <= peak'[m] /\ Past(m, ts, seq)'
    <2>1. ASSUME Keeps, NEW id \in Handed(m)
          PROVE  IsRecorded(m, id)'
        <3>1. PICK ts \in 0 .. peak[m], seq \in 0 .. MaxSequence :
                  id = Id(ts, m, seq) /\ Past(m, ts, seq)
            BY DEF Recorded, IsRecorded
        <3>2. ts \in 0 .. peak'[m] /\ Past(m, ts, seq)'
            BY <2>0, <2>1, <3>1
        <3> QED BY <3>1, <3>2 DEF IsRecorded, Id
    <2>2. ASSUME UNCHANGED <<state, peak, floor, issued>>
          PROVE  (state[m].ts <= peak[m] /\ \A id \in Handed(m) : IsRecorded(m, id))'
        <3>1. Keeps
            BY <2>2 DEF Past
        <3>2. Handed(m)' = Handed(m)
            BY <2>2 DEF Handed
        <3> QED BY <2>0, <2>1, <2>2, <3>1, <3>2
    <2>3. ASSUME NEW t \in Threads, ReadClock(t) \/ Load(t) \/ SwapFails(t)
          PROVE  UNCHANGED <<state, peak, floor, issued>>
        BY <2>3 DEF ReadClock, Load, SwapFails, wall
    <2>4. ASSUME NEW t \in Threads, Swap(t)
          PROVE  (state[m].ts <= peak[m] /\ \A id \in Handed(m) : IsRecorded(m, id))'
        <3>1. PICK ts \in Nat, seq \in 0 .. MaxSequence :
                  /\ ts <= peak[Home[t]]
                  /\ Before(state[Home[t]].ts, state[Home[t]].seq, ts, seq)
                  /\ state' = [state EXCEPT ![Home[t]] = Word(ts, seq)]
                  /\ issued' = [issued EXCEPT ![Home[t]] = Append(@, Id(ts, Home[t], seq))]
                  /\ UNCHANGED wall
            BY <2>4, SwapIssues DEF Inv
        <3>2. CASE m # Home[t]
            <4>1. Keeps /\ issued'[m] = issued[m] /\ state'[m] = state[m] /\ peak' = peak
                BY <3>1, <3>2 DEF Past, wall, SnowflakeTypeOK
            <4>2. Handed(m)' = Handed(m)
                BY <4>1 DEF Handed
            <4> QED BY <2>0, <2>1, <4>1, <4>2
        <3>3. CASE m = Home[t]
            <4>1. /\ state'[m] = Word(ts, seq) /\ floor' = floor /\ peak' = peak
                  /\ issued'[m] = Append(issued[m], Id(ts, m, seq))
                BY <3>1, <3>3 DEF wall, SnowflakeTypeOK
            <4>2. Keeps
                BY <2>0, <3>1, <3>3, <4>1 DEF Past, Before, Word, Words
            <4>3. (state[m].ts <= peak[m])'
                BY <3>1, <3>3, <4>1 DEF Word
            <4>4. IsRecorded(m, Id(ts, m, seq))'
                <5>1. ts \in 0 .. peak'[m] /\ Past(m, ts, seq)'
                    BY <2>0, <3>1, <3>3, <4>1 DEF Past, Word
                <5> QED BY <5>1 DEF IsRecorded, Id
            <4>5. Handed(m)' \subseteq Handed(m) \cup {Id(ts, m, seq)}
                BY <2>0, <4>1 DEF Handed
            <4>6. ASSUME NEW id \in Handed(m)'
                  PROVE  IsRecorded(m, id)'
                <5>1. CASE id \in Handed(m)
                    BY <2>1, <4>2, <5>1
                <5>2. CASE id = Id(ts, m, seq)
                    BY <4>4, <5>2 DEF IsRecorded, Id
                <5> QED BY <4>5, <5>1, <5>2
            <4> QED BY <4>3, <4>6
        <3> QED BY <3>2, <3>3
    <2>5. ASSUME NEW n \in Machines, Tick(n)
          PROVE  (state[m].ts <= peak[m] /\ \A id \in Handed(m) : IsRecorded(m, id))'
        <3>1. UNCHANGED <<state, floor, issued>> /\ peak[m] <= peak'[m]
            BY <2>0, <2>5 DEF Tick, SnowflakeTypeOK
        <3>2. Keeps /\ Handed(m)' = Handed(m)
            BY <2>0, <3>1 DEF Past, Handed
        <3>3. (state[m].ts <= peak[m])'
            <4>1. state'[m].ts = state[m].ts /\ state[m].ts \in Nat
                BY <2>0, <3>1 DEF Words
            <4> QED BY <2>0, <3>1, <4>1
        <3>4. ASSUME NEW id \in Handed(m)'
              PROVE  IsRecorded(m, id)'
            BY <2>1, <3>2
        <3> QED BY <3>3, <3>4
    <2>6. ASSUME NEW n \in Machines, StepBack(n)
          PROVE  UNCHANGED <<state, peak, floor, issued>>
        BY <2>6 DEF StepBack
    <2>7. ASSUME NEW n \in Machines, RestartProcess(n)
          PROVE  (state[m].ts <= peak[m] /\ \A id \in Handed(m) : IsRecorded(m, id))'
        <3>1. UNCHANGED <<peak, issued>> /\ Handed(m)' = Handed(m)
            BY <2>7 DEF RestartProcess, Handed
        <3>2. Keeps /\ (state[m].ts <= peak[m])'
            <4>1. CASE m # n
                BY <2>0, <2>7, <4>1 DEF RestartProcess, Past, SnowflakeTypeOK
            <4>2. CASE m = n
                <5>1. /\ floor'[m] = clock[m] /\ peak' = peak /\ state'[m] = Zero
                      /\ state[m].ts < clock[m]
                    BY <2>0, <2>7, <4>2 DEF RestartProcess, RestartAfterLastId, SnowflakeTypeOK, Words
                <5> QED BY <2>0, <5>1 DEF Past, Zero, Word, Words
            <4> QED BY <4>1, <4>2
        <3> QED BY <2>1, <3>1, <3>2
    <2>8. CASE UNCHANGED snowflake_vars
        BY <2>2, <2>8 DEF snowflake_vars, wall
    <2> QED BY <2>2, <2>3, <2>4, <2>5, <2>6, <2>7, <2>8 DEF SnowflakeNext
<1> QED BY <1>1, <1>2, SnowflakeTypeCorrect, PTL DEF SnowflakeSpec, Inv

-----------------------------------------------------------------------------
(* The properties.                                                         *)

(* An id tells the machine that issued it and a time that machine's clock  *)
(* has reached: the bits of next_id's three fields never overlap.          *)
THEOREM FieldsToldAlways == SnowflakeSpec => []FieldsTold
<1>1. Inv => FieldsTold
    <2> SUFFICES ASSUME Inv, NEW m \in Machines, NEW i \in DOMAIN issued[m]
                 PROVE  /\ MachineOf(issued[m][i]) = m
                        /\ TimestampOf(issued[m][i]) <= peak[m]
        BY DEF FieldsTold
    <2>1. PICK ts \in 0 .. peak[m], seq \in 0 .. MaxSequence :
              issued[m][i] = Id(ts, m, seq)
        BY DEF Inv, Recorded, Handed, IsRecorded
    <2>2. MachineOf(Id(ts, m, seq)) = m /\ TimestampOf(Id(ts, m, seq)) = ts
        BY <2>1, IdFields
    <2> QED BY <2>1, <2>2
<1> QED BY <1>1, RecordedInvariant, PTL

(* Every id handed out is before the one a successful exchange issues.     *)
LEMMA IssuesLaterId ==
    ASSUME Inv, NEW m \in Machines, NEW ts \in Nat, NEW seq \in 0 .. MaxSequence,
           floor[m] <= ts, Before(state[m].ts, state[m].seq, ts, seq),
           NEW id \in Handed(m)
    PROVE  id < Id(ts, m, seq)
<1>1. PICK ts0 \in 0 .. peak[m], seq0 \in 0 .. MaxSequence :
          id = Id(ts0, m, seq0) /\ Past(m, ts0, seq0)
    BY DEF Inv, Recorded, IsRecorded
<1>2. ts0 \in Nat /\ floor[m] \in Nat /\ state[m] \in Words
    BY <1>1 DEF Inv, SnowflakeTypeOK
<1>3. Before(ts0, seq0, ts, seq)
    BY <1>1, <1>2, SnowflakeAssumption DEF Past, Before, Words, MaxSequence
<1> QED BY <1>1, <1>2, <1>3, IdOrder

(* next_id is a source of unique ids, sorted per machine by the moment of  *)
(* issue: its steps are those of UniqueIds, an Issue for the exchange that *)
(* succeeds and a stutter for the rest.  "Thread-safe Snowflake ID         *)
(* generator" (snowflake.rs), for any threads, clocks and field widths,    *)
(* given the clock that restarts need.                                     *)
THEOREM UniqueIdsImplemented == SnowflakeSpec => ImplementsUniqueIds
<1>1. SnowflakeInit => Contract!Init
    BY DEF SnowflakeInit, Contract!Init
<1>2. Inv /\ [SnowflakeNext]_snowflake_vars => [Contract!Next]_issued
    <2> SUFFICES ASSUME Inv, [SnowflakeNext]_snowflake_vars
                 PROVE  Contract!Next \/ UNCHANGED issued
        OBVIOUS
    <2>1. ASSUME NEW t \in Threads, Swap(t) PROVE Contract!Next
        <3> DEFINE m == Home[t]
        <3>1. PICK ts \in Nat, seq \in 0 .. MaxSequence :
                  /\ floor[m] <= ts
                  /\ Before(state[m].ts, state[m].seq, ts, seq)
                  /\ issued' = [issued EXCEPT ![m] = Append(@, Id(ts, m, seq))]
            BY <2>1, SwapIssues
        <3> DEFINE id == Id(ts, m, seq)
        <3>2. m \in Machines /\ issued \in [Machines -> Seq(Nat)] /\ id \in Nat
            <4>1. m \in Machines
                BY SnowflakeAssumption
            <4>2. seq \in Nat
                BY SnowflakeAssumption DEF MaxSequence
            <4>3. id \in Nat
                BY <4>1, <4>2, IdIsNatural
            <4> QED BY <4>1, <4>3 DEF Inv, SnowflakeTypeOK
        <3>3. \A n \in Machines : Contract!Ids(issued[n]) = Handed(n)
            BY DEF Contract!Ids, Handed
        <3>4. \A earlier \in Handed(m) : earlier < id
            BY <3>1, <3>2, IssuesLaterId
        <3>5. ASSUME NEW n \in Machines, id \in Handed(n)
              PROVE  FALSE
            <4>1. PICK ts0 \in 0 .. peak[n], seq0 \in 0 .. MaxSequence : id = Id(ts0, n, seq0)
                BY <3>5 DEF Inv, Recorded, IsRecorded
            <4>2. m = n
                BY <3>2, <4>1, IdFields DEF Inv, SnowflakeTypeOK
            <4>3. id < id
                BY <3>4, <3>5, <4>2
            <4> QED BY <3>2, <4>3
        <3>6. id \in Contract!Ids(issued'[m])
            <4>1. issued'[m] = Append(issued[m], id) /\ issued[m] \in Seq(Nat)
                BY <3>1, <3>2
            <4>2. Len(issued[m]) + 1 \in DOMAIN issued'[m]
                  /\ issued'[m][Len(issued[m]) + 1] = id
                BY <4>1, <3>2
            <4> QED BY <4>2 DEF Contract!Ids
        <3>7. Contract!Issue(m)
            BY <3>1, <3>2, <3>3, <3>4, <3>5, <3>6 DEF Contract!Issue
        <3> QED BY <3>2, <3>7 DEF Contract!Next
    <2>2. ASSUME NEW t \in Threads, ReadClock(t) \/ Load(t) \/ SwapFails(t)
          PROVE  UNCHANGED issued
        BY <2>2 DEF ReadClock, Load, SwapFails
    <2>3. ASSUME NEW m \in Machines, Tick(m) \/ StepBack(m) \/ RestartProcess(m)
          PROVE  UNCHANGED issued
        BY <2>3 DEF Tick, StepBack, RestartProcess
    <2>4. CASE UNCHANGED snowflake_vars
        BY <2>4 DEF snowflake_vars
    <2> QED BY <2>1, <2>2, <2>3, <2>4 DEF SnowflakeNext
<1> QED BY <1>1, <1>2, RecordedInvariant, PTL DEF SnowflakeSpec, ImplementsUniqueIds, Contract!Spec
=============================================================================
