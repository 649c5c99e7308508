-------------------------- MODULE ChannelTreeProofs --------------------------
(***************************************************************************)
(* What the handlers of channels, overrides and webhooks keep true however *)
(* their statements interleave and fail, for any number of channels and    *)
(* requests and any limits; and, in the last part, what the read path for  *)
(* such rows keeps true (DataService).                                     *)
(***************************************************************************)
EXTENDS ChannelTree, DataService, FiniteSetTheorems, TLAPS

-----------------------------------------------------------------------------
(* The inductive invariants.                                               *)

(* A request is at a statement of its handler, and what the body of that   *)
(* handler must name is named.                                             *)
Placed(r) ==
    /\ r.at \in Statements(r.op) \ {"start", "end"}
    /\ r.op = "create_channel" => r.type \in Types
    /\ r.op = "update_overrides" => r.channel \in Channels

RequestsOK ==
    /\ request \in [Slots -> Request \cup {None}]
    /\ \A p \in Slots : request[p] # None => Placed(request[p])

TypeInv == channels \in [Channels -> Row \cup {None}] /\ RequestsOK /\ TypeOK

(* The DELETE of a replacement that nobody disturbs has found every row    *)
(* there is.                                                               *)
AllSeen ==
    \A p \in Slots : At(p, "replace_overrides") /\ Subject(p) \notin mixed
        => overrides[Subject(p)] \subseteq request[p].seen

(* A text channel about to be deleted leaves another, and is the only one  *)
(* about to be; what is about to be deleted as a category is one.          *)
Doomed == {c \in Text : \E p \in Slots : At(p, "delete_row") /\ Subject(p) = c}

TextStays ==
    /\ ~last_two => Text # {}
    /\ ~last_two => \A c \in Doomed : Text \ {c} # {}
    /\ ~last_two => \A c, d \in Doomed : c = d
    /\ \A p \in Slots : At(p, "unset_children") => Subject(p) \notin Text

(* Requests that have been counted and have not inserted yet, the children *)
(* of c among them.                                                        *)
Counted == {p \in Slots :
              AtOneOf(p, {"parent_is_category", "count_children", "insert_channel"})}

Born(c) == {p \in Slots : At(p, "insert_channel") /\ Parent(p) = c}

RoomLeft ==
    /\ Cardinality(Existing) + Cardinality(Counted) < MaxChannels + Cardinality(Slots)
    /\ ~rehung => \A c \in Existing :
          Cardinality(Children(c)) + Cardinality(Born(c)) < MaxChildren + Cardinality(Slots)

TreeInv == TypeInv /\ OverridesSerial /\ AllSeen /\ TextStays /\ RoomLeft

-----------------------------------------------------------------------------
(* The statements.                                                         *)

(* The handlers there are.                                                 *)
LEMMA Operations ==
    DOMAIN Handler = {"create_channel", "update_channel", "update_overrides", "delete_channel",
                      "reorder_channels", "set_channel_override", "delete_channel_override",
                      "create_webhook", "follow_channel", "update_webhook", "delete_webhook"}
BY DEF Handler

(* Statements at which the invariants ask nothing of a request.            *)
Ordinary ==
    (UNION {Statements(op) : op \in DOMAIN Handler})
        \ {"parent_is_category", "count_children", "insert_channel", "unset_children",
           "delete_row", "replace_overrides"}

(* A handler goes from each of its statements to another of them, and some *)
(* statements are those of one handler only.                               *)
Follows(op, s, next) ==
    /\ next \in Statements(op) \ {"start"}
    /\ s \in {"count_channels", "parent_is_category", "count_children", "insert_channel",
              "add_overrides"} => op = "create_channel"
    /\ s \in {"find_doomed", "count_text", "unset_children", "delete_row"}
          => op = "delete_channel"
    /\ s \in {"clear_overrides", "replace_overrides"} => op = "update_overrides"
    /\ next \notin {"parent_is_category", "unset_children"}
    /\ next = "count_children" => s = "parent_is_category"
    /\ next = "insert_channel" => s \in {"count_channels", "count_children"}
    /\ next = "delete_row" => s \in {"find_doomed", "count_text", "unset_children"}
    /\ next = "replace_overrides" => s = "clear_overrides"

(* The tables of the handlers, statement by statement.                     *)
LEMMA HandlersFollow ==
    ASSUME NEW op \in DOMAIN Handler, NEW s \in DOMAIN Handler[op]
    PROVE  Follows(op, s, Handler[op][s])
<1> USE DEF Follows, Statements, Handler
<1>1. CASE op = "create_channel"
    BY <1>1 DEF create_channel
<1>2. CASE op = "update_channel"
    BY <1>2 DEF update_channel
<1>3. CASE op = "update_overrides"
    BY <1>3 DEF update_overrides
<1>4. CASE op = "delete_channel"
    BY <1>4 DEF delete_channel
<1>5. CASE op = "reorder_channels"
    BY <1>5 DEF reorder_channels
<1>6. CASE op = "set_channel_override"
    BY <1>6 DEF set_channel_override
<1>7. CASE op = "delete_channel_override"
    BY <1>7 DEF delete_channel_override
<1>8. CASE op = "create_webhook"
    BY <1>8 DEF create_webhook
<1>9. CASE op = "follow_channel"
    BY <1>9 DEF follow_channel
<1>10. CASE op = "update_webhook"
    BY <1>10 DEF update_webhook
<1>11. CASE op = "delete_webhook"
    BY <1>11 DEF delete_webhook
<1> QED BY Operations, <1>1, <1>2, <1>3, <1>4, <1>5, <1>6, <1>7, <1>8, <1>9, <1>10, <1>11

(* Every statement but the last has one after it.                          *)
LEMMA StatementsGoOn ==
    ASSUME NEW op \in DOMAIN Handler, NEW s \in Statements(op) \ {"end"}
    PROVE  s \in DOMAIN Handler[op]
<1> USE DEF Statements, Handler
<1>1. CASE op = "create_channel"
    BY <1>1 DEF create_channel
<1>2. CASE op = "update_channel"
    BY <1>2 DEF update_channel
<1>3. CASE op = "update_overrides"
    BY <1>3 DEF update_overrides
<1>4. CASE op = "delete_channel"
    BY <1>4 DEF delete_channel
<1>5. CASE op = "reorder_channels"
    BY <1>5 DEF reorder_channels
<1>6. CASE op = "set_channel_override"
    BY <1>6 DEF set_channel_override
<1>7. CASE op = "delete_channel_override"
    BY <1>7 DEF delete_channel_override
<1>8. CASE op = "create_webhook"
    BY <1>8 DEF create_webhook
<1>9. CASE op = "follow_channel"
    BY <1>9 DEF follow_channel
<1>10. CASE op = "update_webhook"
    BY <1>10 DEF update_webhook
<1>11. CASE op = "delete_webhook"
    BY <1>11 DEF delete_webhook
<1> QED BY Operations, <1>1, <1>2, <1>3, <1>4, <1>5, <1>6, <1>7, <1>8, <1>9, <1>10, <1>11

(* The branches of create_channel and delete_channel that a condition      *)
(* takes are statements of theirs.                                         *)
LEMMA Branches ==
    /\ "parent_is_category" \in Statements("create_channel")
    /\ {"count_text", "unset_children"} \subseteq Statements("delete_channel")
BY DEF Statements, Handler, create_channel, delete_channel

-----------------------------------------------------------------------------
(* The requests after a step.                                              *)

(* What of a request its handler never changes.                            *)
Same(r, s) ==
    r.op = s.op /\ r.type = s.type /\ r.parent = s.parent /\ r.webhook = s.webhook

(* The request of slot p is at statement `from`, and goes on to one of     *)
(* `to` or ends.                                                           *)
Takes(p, from, to) ==
    /\ request[p] # None /\ request[p].at = from
    /\ \A q \in Slots \ {p} : request'[q] = request[q]
    /\ request'[p] # None =>
          /\ Same(request'[p], request[p])
          /\ request'[p].at \in to
          /\ request'[p].channel = request[p].channel \/ from = "insert_channel"
          /\ request'[p].seen = request[p].seen \/ from = "clear_overrides"

Moves(p, from, to) == Takes(p, from, to) /\ RequestsOK'

(* What follows a statement of a request.                                  *)
Onward(p) == {Handler[request[p].op][request[p].at]} \ {"end"}

(* A request that has done a statement, and may have noted something.      *)
LEMMA Going ==
    ASSUME RequestsOK, NEW p \in Slots, request[p] # None,
           NEW r \in Request, Same(r, request[p]), r.at = request[p].at,
           r.channel = request[p].channel \/ (r.at = "insert_channel" /\ r.channel \in Channels),
           r.seen = request[p].seen \/ r.at = "clear_overrides",
           request' = [request EXCEPT ![p] = After(r)]
    PROVE  Moves(p, request[p].at, Onward(p))
<1> DEFINE old == request[p]
           next == Handler[old.op][old.at]
<1>1. /\ old \in Request /\ Placed(old) /\ old.op \in DOMAIN Handler
      /\ old.at \in DOMAIN Handler[old.op]
      /\ request \in [Slots -> Request \cup {None}]
    BY StatementsGoOn DEF RequestsOK, Placed, Request
<1>2. Follows(old.op, old.at, next)
    BY <1>1, HandlersFollow
<1>3. /\ request' = [request EXCEPT ![p] = IF next = "end" THEN None ELSE [r EXCEPT !.at = next]]
    BY DEF After, Same
<1>4. request'[p] = IF next = "end" THEN None ELSE [r EXCEPT !.at = next]
    BY <1>1, <1>3
<1>5. \A q \in Slots \ {p} : request'[q] = request[q]
    BY <1>1, <1>3
<1>6. ASSUME next # "end"
      PROVE  /\ request'[p] \in Request /\ Placed(request'[p])
             /\ Same(request'[p], old) /\ request'[p].at = next
             /\ request'[p].channel = r.channel /\ request'[p].seen = r.seen
    <2> DEFINE s == [r EXCEPT !.at = next]
    <2>1. next \in Statements(old.op) \ {"start", "end"}
        BY <1>2, <1>6 DEF Follows
    <2>2. next \in UNION {Statements(op) : op \in DOMAIN Handler}
        BY <1>1, <2>1
    <2>3. /\ s \in Request /\ s.at = next /\ s.op = r.op /\ s.type = r.type
          /\ s.parent = r.parent /\ s.webhook = r.webhook /\ s.channel = r.channel
          /\ s.seen = r.seen
        BY <2>2 DEF Request
    <2>4. Placed(s)
        BY <1>1, <2>1, <2>3 DEF Placed, Same
    <2> QED BY <1>4, <1>6, <2>3, <2>4 DEF Same
<1>7. RequestsOK'
    <2>1. request' \in [Slots -> Request \cup {None}]
        BY <1>1, <1>3, <1>4, <1>6
    <2>2. \A q \in Slots : request'[q] # None => Placed(request'[q])
        BY <1>4, <1>5, <1>6 DEF RequestsOK
    <2> QED BY <2>1, <2>2 DEF RequestsOK
<1>8. request'[p] # None => next # "end"
    BY <1>4
<1> QED BY <1>4, <1>5, <1>6, <1>7, <1>8 DEF Moves, Takes, Onward

(* A request that goes on at once.                                         *)
LEMMA Proceeding ==
    ASSUME RequestsOK, NEW p \in Slots, request[p] # None, Proceed(p)
    PROVE  Moves(p, request[p].at, Onward(p))
<1>1. request' = [request EXCEPT ![p] = After(request[p])]
    BY DEF Proceed, RequestsOK
<1>2. request[p] \in Request
    BY DEF RequestsOK
<1> QED BY <1>1, <1>2, Going DEF Same

(* A request that is refused, or fails, is gone.                           *)
LEMMA Refusing ==
    ASSUME RequestsOK, NEW p \in Slots, request[p] # None, Refuse(p)
    PROVE  Moves(p, request[p].at, {}) /\ request'[p] = None
BY DEF Refuse, RequestsOK, Moves, Takes

(* A request that a condition takes to another statement of its handler,   *)
(* or that stays where it is with less to do.                              *)
LEMMA Staying ==
    ASSUME RequestsOK, NEW p \in Slots, request[p] # None,
           NEW r \in Request, Same(r, request[p]), r.channel = request[p].channel,
           r.seen = request[p].seen, r.at \in Statements(r.op) \ {"start", "end"},
           request' = [request EXCEPT ![p] = r]
    PROVE  Moves(p, request[p].at, {r.at})
<1>1. request'[p] = r /\ \A q \in Slots \ {p} : request'[q] = request[q]
    BY DEF RequestsOK
<1>2. Placed(r)
    BY DEF RequestsOK, Placed, Same
<1>3. RequestsOK'
    BY <1>1, <1>2 DEF RequestsOK
<1> QED BY <1>1, <1>3 DEF Moves, Takes

(* A test that only reads takes a request to the next statement or ends it. *)
LEMMA Checking ==
    ASSUME RequestsOK, NEW p \in Slots, NEW s, NEW passes \in BOOLEAN, Check(p, s, passes)
    PROVE  /\ Moves(p, s, Onward(p)) /\ UNCHANGED <<rows, history, counters>>
           /\ ~passes => request'[p] = None
<1>1. request[p] # None /\ request[p].at = s /\ UNCHANGED <<rows, history, counters>>
    BY DEF Check, At
<1>2. CASE passes
    BY <1>1, <1>2, Proceeding DEF Check
<1>3. CASE ~passes
    BY <1>1, <1>3, Refusing DEF Check, Moves, Takes
<1> QED BY <1>2, <1>3


(* Where a request is after a statement that has one after it.             *)
After1(s) ==
    CASE s \in {"count_channels", "count_children"}             -> {"insert_channel"}
      [] s = "parent_is_category"                               -> {"count_children"}
      [] s \in {"find_doomed", "count_text", "unset_children"} -> {"delete_row"}
      [] s = "clear_overrides"                                  -> {"replace_overrides"}
      [] OTHER                                                  -> {}

(* A request goes on to the statement named above, or to an ordinary one.  *)
LEMMA GoesOn ==
    ASSUME RequestsOK, NEW p \in Slots, NEW s, Moves(p, s, Onward(p))
    PROVE  Moves(p, s, Ordinary \cup After1(s))
<1> DEFINE old == request[p]
           next == Handler[old.op][s]
<1>1. /\ request[p] # None /\ old.at = s /\ Placed(old) /\ old.op \in DOMAIN Handler
      /\ s \in DOMAIN Handler[old.op]
    BY StatementsGoOn DEF Moves, Takes, RequestsOK, Placed, Request
<1>2. Follows(old.op, s, next)
    BY <1>1, HandlersFollow
<1>3. next \in Ordinary \cup After1(s) \cup {"end"}
    <2>1. next \in UNION {Statements(op) : op \in DOMAIN Handler}
        BY <1>1, <1>2 DEF Follows
    <2>2. CASE next \in {"insert_channel", "count_children", "delete_row", "replace_overrides"}
        BY <1>2, <2>2 DEF Follows, After1
    <2>3. CASE next \notin {"insert_channel", "count_children", "delete_row", "replace_overrides"}
        <3>1. next \notin {"parent_is_category", "unset_children"}
            BY <1>2 DEF Follows
        <3> HIDE DEF next
        <3> QED BY <2>1, <2>3, <3>1 DEF Ordinary
    <2> QED BY <2>2, <2>3
<1>4. Onward(p) \subseteq Ordinary \cup After1(s)
    BY <1>1, <1>3 DEF Onward
<1> QED BY <1>4 DEF Moves, Takes

(* A slot is taken by a new request.                                       *)
Begins(p) ==
    /\ request[p] = None /\ RequestsOK'
    /\ \A q \in Slots \ {p} : request'[q] = request[q]
    /\ request'[p] # None /\ request'[p].at \in Ordinary

(* The statements a handler begins with.                                   *)
LEMMA Beginnings ==
    ASSUME NEW op \in DOMAIN Handler
    PROVE  /\ Handler[op].start \in Statements(op) \ {"start", "end"}
           /\ Handler[op].start \in Ordinary
<1>1. "start" \in DOMAIN Handler[op] /\ Handler[op].start # "end"
    BY Operations DEF Handler, create_channel, update_channel, update_overrides, delete_channel,
           reorder_channels, set_channel_override, delete_channel_override, create_webhook,
           follow_channel, update_webhook, delete_webhook
<1>2. Follows(op, "start", Handler[op].start)
    BY <1>1, HandlersFollow
<1>3. Handler[op].start \in Statements(op) \ {"start", "end"}
    BY <1>1, <1>2 DEF Follows
<1> QED
    BY <1>2, <1>3 DEF Follows, Ordinary

(* What a body holds is a request at the first statement of its handler.   *)
LEMMA BodiesAreRequests ==
    ASSUME NEW op \in DOMAIN Handler, NEW body \in Bodies(op)
    PROVE  /\ body \in Request /\ body.at = Handler[op].start /\ body.op = op
           /\ op = "create_channel" => body.type \in Types
           /\ op = "update_overrides" => body.channel \in Channels
<1> DEFINE start == Handler[op].start
<1>1. start \in UNION {Statements(o) : o \in DOMAIN Handler}
    BY Beginnings
<1>2. Existing \subseteq Channels
    BY DEF Existing
<1> HIDE DEF start
<1>3. CASE op = "create_channel"
    BY <1>1, <1>2, <1>3 DEF Bodies, Request, start
<1>4. CASE op = "update_channel"
    BY <1>1, <1>2, <1>4 DEF Bodies, Request, start
<1>5. CASE op = "update_overrides"
    BY <1>1, <1>2, <1>5 DEF Bodies, Request, start
<1>6. CASE op \in {"delete_channel", "create_webhook"}
    BY <1>1, <1>2, <1>6 DEF Bodies, Request, start
<1>7. CASE op = "reorder_channels"
    BY <1>1, <1>2, <1>7 DEF Bodies, Request, start
<1>8. CASE op = "follow_channel"
    BY <1>1, <1>2, <1>8 DEF Bodies, Request, start
<1>9. CASE op = "update_webhook"
    BY <1>1, <1>2, <1>9 DEF Bodies, Request, start
<1>10. CASE op = "delete_webhook"
    BY <1>1, <1>2, <1>10 DEF Bodies, Request, start
<1>11. CASE op \in {"set_channel_override", "delete_channel_override"}
    BY <1>1, <1>2, <1>11 DEF Bodies, Request, start
<1> QED BY Operations, <1>3, <1>4, <1>5, <1>6, <1>7, <1>8, <1>9, <1>10, <1>11

(* A request that arrives takes a slot that was free.                      *)
LEMMA Starting ==
    ASSUME RequestsOK, NEW p \in Slots, Start(p)
    PROVE  Begins(p)
<1>1. PICK op \in DOMAIN Handler : \E body \in Bodies(op) :
          request' = [request EXCEPT ![p] = body]
    BY DEF Start
<1>2. PICK body \in Bodies(op) : request' = [request EXCEPT ![p] = body]
    BY <1>1
<1>3. /\ body \in Request /\ body.at = Handler[op].start /\ body.op = op /\ body # None
      /\ Placed(body) /\ body.at \in Ordinary
    BY BodiesAreRequests, Beginnings, NoneAssumption DEF Placed
<1>4. request'[p] = body /\ \A q \in Slots \ {p} : request'[q] = request[q]
    BY <1>2 DEF RequestsOK
<1>5. RequestsOK'
    BY <1>2, <1>3, <1>4 DEF RequestsOK
<1> QED BY <1>3, <1>4, <1>5 DEF Start, Begins

-----------------------------------------------------------------------------
(* Where each action takes its request, and what it has tested.            *)

(* A request that fails is gone.                                           *)
LEMMA Failing ==
    ASSUME RequestsOK, NEW p \in Slots, Fail(p)
    PROVE  Moves(p, request[p].at, Ordinary) /\ request'[p] = None
<1>1. Moves(p, request[p].at, {}) /\ request'[p] = None
    BY Refusing DEF Fail
<1> QED BY <1>1 DEF Moves, Takes

(* A condition takes a request to a statement that its handler has.        *)
LEMMA Branching ==
    ASSUME RequestsOK, NEW p \in Slots, request[p] # None,
           NEW s \in Statements(request[p].op) \ {"start", "end"}, GoTo(p, s)
    PROVE  Moves(p, request[p].at, {s})
<1> DEFINE r == [request[p] EXCEPT !.at = s]
<1>1. request[p] \in Request /\ request[p].op \in DOMAIN Handler
    BY DEF RequestsOK, Request
<1>2. s \in UNION {Statements(op) : op \in DOMAIN Handler}
    BY <1>1
<1>3. /\ r \in Request /\ Same(r, request[p]) /\ r.channel = request[p].channel
      /\ r.seen = request[p].seen /\ r.at = s /\ r.op = request[p].op
    BY <1>1, <1>2 DEF Request, Same
<1>4. request' = [request EXCEPT ![p] = r]
    BY DEF GoTo, RequestsOK
<1> QED BY <1>3, <1>4, Staying

(* The handlers of some statements, and what their requests name.          *)
LEMMA Owners ==
    ASSUME RequestsOK, NEW p \in Slots, request[p] # None
    PROVE  /\ request[p].at \in {"count_channels", "parent_is_category", "count_children",
                                 "insert_channel", "add_overrides"}
                 => request[p].op = "create_channel" /\ request[p].type \in Types
           /\ request[p].at \in {"find_doomed", "count_text", "unset_children", "delete_row"}
                 => request[p].op = "delete_channel"
           /\ request[p].at \in {"clear_overrides", "replace_overrides"}
                 => request[p].op = "update_overrides" /\ request[p].channel \in Channels
<1>1. /\ request[p].op \in DOMAIN Handler /\ Placed(request[p])
      /\ request[p].at \in DOMAIN Handler[request[p].op]
    BY StatementsGoOn DEF RequestsOK, Placed, Request
<1>2. Follows(request[p].op, request[p].at, Handler[request[p].op][request[p].at])
    BY <1>1, HandlersFollow
<1> QED BY <1>1, <1>2 DEF Follows, Placed

(* A request that proceeds, from a statement that is known.                *)
LEMMA ProceedingFrom ==
    ASSUME RequestsOK, NEW p \in Slots, NEW s, At(p, s), Proceed(p)
    PROVE  Moves(p, s, Ordinary \cup After1(s))
<1>1. Moves(p, s, Onward(p))
    BY Proceeding DEF At
<1> QED BY <1>1, GoesOn

(* A request that is refused at a statement.                               *)
LEMMA RefusedAt ==
    ASSUME RequestsOK, NEW p \in Slots, NEW s, NEW to, At(p, s), Refuse(p)
    PROVE  Moves(p, s, to) /\ request'[p] = None
<1>1. Moves(p, s, {}) /\ request'[p] = None
    BY Refusing DEF At
<1> QED BY <1>1 DEF Moves, Takes

(* A test that only reads, from a statement that is known.                 *)
LEMMA CheckingAt ==
    ASSUME RequestsOK, NEW p \in Slots, NEW s, NEW passes \in BOOLEAN, Check(p, s, passes)
    PROVE  /\ Moves(p, s, Ordinary \cup After1(s)) /\ UNCHANGED <<rows, history, counters>>
           /\ request'[p] # None => passes
BY Checking, GoesOn

(* The statements that count, and what the request has found by then.      *)
LEMMA CountingMoves ==
    ASSUME RequestsOK, NEW p \in Slots
    PROVE  /\ CountChannels(p) =>
                 /\ Moves(p, "count_channels", Ordinary \cup {"insert_channel", "parent_is_category"})
                 /\ request'[p] # None => Room(Cardinality(Existing), MaxChannels)
                 /\ request'[p] # None /\ request'[p].at = "insert_channel" => Parent(p) = None
           /\ ParentIsCategory(p) =>
                 Moves(p, "parent_is_category", Ordinary \cup {"count_children"})
           /\ CountChildren(p) =>
                 /\ Moves(p, "count_children", Ordinary \cup {"insert_channel"})
                 /\ request'[p] # None => Room(Cardinality(Children(Parent(p))), MaxChildren)
           /\ CountText(p) =>
                 /\ Moves(p, "count_text", Ordinary \cup {"delete_row"})
                 /\ request'[p] # None => OthersLeft(Cardinality(Text))
<1>1. ASSUME CountChannels(p)
      PROVE  /\ Moves(p, "count_channels", Ordinary \cup {"insert_channel", "parent_is_category"})
             /\ request'[p] # None => Room(Cardinality(Existing), MaxChannels)
             /\ request'[p] # None /\ request'[p].at = "insert_channel" => Parent(p) = None
    <2>1. request[p] # None /\ request[p].at = "count_channels" /\ At(p, "count_channels")
        BY <1>1 DEF CountChannels, At
    <2>2. CASE Refuse(p)
        BY <2>1, <2>2, RefusedAt
    <2>3. CASE Parent(p) = None /\ Proceed(p) /\ Room(Cardinality(Existing), MaxChannels)
        BY <2>1, <2>3, ProceedingFrom DEF After1, Moves, Takes
    <2>4. CASE GoTo(p, "parent_is_category") /\ Room(Cardinality(Existing), MaxChannels)
        <3>1. Moves(p, "count_channels", {"parent_is_category"})
            BY <2>1, <2>4, Branching, Branches, Owners
        <3> QED BY <2>4, <3>1 DEF Moves, Takes
    <2> QED BY <1>1, <2>2, <2>3, <2>4 DEF CountChannels
<1>2. ASSUME ParentIsCategory(p)
      PROVE  Moves(p, "parent_is_category", Ordinary \cup {"count_children"})
    BY <1>2, CheckingAt DEF ParentIsCategory, After1
<1>3. ASSUME CountChildren(p)
      PROVE  /\ Moves(p, "count_children", Ordinary \cup {"insert_channel"})
             /\ request'[p] # None => Room(Cardinality(Children(Parent(p))), MaxChildren)
    <2> DEFINE passes == Room(Cardinality(Children(Parent(p))), MaxChildren)
    <2>1. passes \in BOOLEAN /\ Check(p, "count_children", passes)
        BY <1>3 DEF CountChildren, Room
    <2> HIDE DEF passes
    <2>2. Moves(p, "count_children", Ordinary \cup After1("count_children"))
          /\ (request'[p] # None => passes)
        BY <2>1, CheckingAt
    <2> QED BY <2>2 DEF After1, passes
<1>4. ASSUME CountText(p)
      PROVE  /\ Moves(p, "count_text", Ordinary \cup {"delete_row"})
             /\ request'[p] # None => OthersLeft(Cardinality(Text))
    <2>1. CASE OthersLeft(Cardinality(Text)) /\ Proceed(p)
        BY <1>4, <2>1, ProceedingFrom DEF After1, CountText
    <2>2. CASE Refuse(p)
        BY <1>4, <2>2, RefusedAt DEF CountText
    <2> QED BY <1>4, <2>1, <2>2 DEF CountText
<1> QED BY <1>1, <1>2, <1>3, <1>4

(* What a new row of a channel is, and where its request stands then.      *)
Inserts(p, c) ==
    /\ c \in Channels \ Existing /\ Parent(p) \in Existing \cup {None}
    /\ \A q \in Slots : request[q] # None => c # Subject(q) /\ c # Parent(q)
    /\ channels' = [channels EXCEPT ![c] = [type |-> request[p].type, parent |-> Parent(p)]]
    /\ [type |-> request[p].type, parent |-> Parent(p)] \in Row
    /\ Moves(p, "insert_channel", Ordinary)

(* A channel is inserted, or the parent was gone.                          *)
LEMMA InsertChannelMoves ==
    ASSUME RequestsOK, NEW p \in Slots, InsertChannel(p)
    PROVE  \/ \E c \in Channels : Inserts(p, c)
           \/ Moves(p, "insert_channel", Ordinary) /\ UNCHANGED channels
<1>1. At(p, "insert_channel") /\ request[p] # None /\ request[p].at = "insert_channel"
    BY DEF InsertChannel, At
<1>2. CASE Refuse(p) /\ UNCHANGED channels
    BY <1>1, <1>2, RefusedAt
<1>3. CASE Parent(p) \in Existing \cup {None}
    <2>1. PICK c \in Channels \ Existing :
             /\ \A q \in Slots : request[q] # None => c \notin {Subject(q), Parent(q)}
             /\ channels' = [channels EXCEPT ![c] =
                    [type |-> request[p].type, parent |-> Parent(p)]]
             /\ request' = [request EXCEPT ![p] = After([@ EXCEPT !.channel = c])]
        BY <1>3 DEF InsertChannel
    <2> DEFINE r == [request[p] EXCEPT !.channel = c]
    <2>2. request[p] \in Request
        BY <1>1 DEF RequestsOK
    <2>3. /\ r \in Request /\ Same(r, request[p]) /\ r.at = "insert_channel"
          /\ r.channel = c /\ r.seen = request[p].seen
        BY <1>1, <2>2 DEF Request, Same
    <2>4. request' = [request EXCEPT ![p] = After(r)]
        BY <2>1 DEF RequestsOK
    <2>5. Moves(p, "insert_channel", Onward(p))
        <3> HIDE DEF r
        <3> QED BY <1>1, <2>3, <2>4, Going
    <2>6. Moves(p, "insert_channel", Ordinary \cup After1("insert_channel"))
        BY <2>5, GoesOn
    <2>7. [type |-> request[p].type, parent |-> Parent(p)] \in Row
        BY <1>1, <1>3, Owners DEF Row, Existing
    <2> QED BY <1>3, <2>1, <2>6, <2>7 DEF Inserts, After1
<1> QED BY <1>2, <1>3 DEF InsertChannel

(* The statements of a deletion, and what the request has found by then.   *)
LEMMA DeletingMoves ==
    ASSUME RequestsOK, NEW p \in Slots
    PROVE  /\ FindDoomed(p) =>
                 /\ Moves(p, "find_doomed", Ordinary \cup {"unset_children", "delete_row"})
                 /\ request'[p] # None /\ request'[p].at \in {"unset_children", "delete_row"}
                       => Subject(p) \notin Text
           /\ UnsetChildren(p) => Moves(p, "unset_children", Ordinary \cup {"delete_row"})
           /\ DeleteRow(p) => Moves(p, "delete_row", Ordinary)
<1>1. ASSUME FindDoomed(p)
      PROVE  /\ Moves(p, "find_doomed", Ordinary \cup {"unset_children", "delete_row"})
             /\ request'[p] # None /\ request'[p].at \in {"unset_children", "delete_row"}
                   => Subject(p) \notin Text
    <2>1. request[p] # None /\ request[p].at = "find_doomed" /\ At(p, "find_doomed")
        BY <1>1 DEF FindDoomed, At
    <2>2. CASE Refuse(p)
        BY <2>1, <2>2, RefusedAt
    <2>3. CASE GoTo(p, "count_text")
        <3>1. Moves(p, "find_doomed", {"count_text"})
            BY <2>1, <2>3, Branching, Branches, Owners
        <3>2. "count_text" \in Ordinary
            BY Branches, Operations DEF Ordinary
        <3> QED BY <3>1, <3>2 DEF Moves, Takes
    <2>4. CASE GoTo(p, "unset_children") /\ channels[Subject(p)].type = "category"
        <3>1. Moves(p, "find_doomed", {"unset_children"})
            BY <2>1, <2>4, Branching, Branches, Owners
        <3> QED BY <2>4, <3>1 DEF Moves, Takes, Text
    <2>5. CASE Proceed(p) /\ channels[Subject(p)].type # "text"
        BY <2>1, <2>5, ProceedingFrom DEF After1, Text, Moves, Takes
    <2> QED BY <1>1, <2>2, <2>3, <2>4, <2>5 DEF FindDoomed
<1>2. ASSUME UnsetChildren(p)
      PROVE  Moves(p, "unset_children", Ordinary \cup {"delete_row"})
    BY <1>2, ProceedingFrom DEF UnsetChildren, After1
<1>3. ASSUME DeleteRow(p)
      PROVE  Moves(p, "delete_row", Ordinary)
    BY <1>3, ProceedingFrom DEF DeleteRow, After1
<1> QED BY <1>1, <1>2, <1>3

(* The transaction that replaces overrides.                                *)
LEMMA ReplacingMoves ==
    ASSUME RequestsOK, NEW p \in Slots, overrides \in [Channels -> SUBSET Targets]
    PROVE  /\ ClearOverrides(p) =>
                 /\ Moves(p, "clear_overrides", Ordinary \cup {"replace_overrides"})
                 /\ request'[p] # None => request'[p].seen = overrides[Subject(p)]
           /\ ReplaceOverrides(p) => Moves(p, "replace_overrides", Ordinary)
<1>1. ASSUME ClearOverrides(p)
      PROVE  /\ Moves(p, "clear_overrides", Ordinary \cup {"replace_overrides"})
             /\ request'[p] # None => request'[p].seen = overrides[Subject(p)]
    <2> DEFINE r == [request[p] EXCEPT !.seen = overrides[Subject(p)]]
    <2>1. /\ request[p] # None /\ request[p].at = "clear_overrides" /\ request[p] \in Request
          /\ Subject(p) \in Channels
        BY <1>1, Owners DEF ClearOverrides, At, RequestsOK, Subject
    <2>2. /\ r \in Request /\ Same(r, request[p]) /\ r.at = "clear_overrides"
          /\ r.channel = request[p].channel /\ r.seen = overrides[Subject(p)]
        BY <2>1 DEF Request, Same
    <2>3. request' = [request EXCEPT ![p] = After(r)]
        BY <1>1 DEF ClearOverrides, RequestsOK
    <2>4. request'[p] # None => request'[p].seen = overrides[Subject(p)]
        <3>1. request'[p] = After(r)
            BY <2>3 DEF RequestsOK
        <3> QED BY <2>2, <3>1 DEF After, Request
    <2>5. Moves(p, "clear_overrides", Onward(p))
        <3> HIDE DEF r
        <3> QED BY <2>1, <2>2, <2>3, Going
    <2> QED BY <2>4, <2>5, GoesOn DEF After1
<1>2. ASSUME ReplaceOverrides(p)
      PROVE  Moves(p, "replace_overrides", Ordinary)
    BY <1>2, ProceedingFrom, RefusedAt DEF ReplaceOverrides, After1
<1> QED BY <1>1, <1>2

(* A request that has done one of several: it keeps what it is.            *)
LEMMA Lessening ==
    ASSUME RequestsOK, NEW p \in Slots, NEW s, At(p, s)
    PROVE  /\ \A t : request' = [request EXCEPT ![p].list = @ \ {t}] => Moves(p, s, {s})
           /\ \A c : request' = [request EXCEPT ![p].todo = @ \ {c}] => Moves(p, s, {s})
<1>1. /\ request[p] # None /\ request[p].at = s /\ request[p] \in Request
      /\ s \in Statements(request[p].op) \ {"start", "end"}
    BY DEF At, RequestsOK, Placed
<1>2. ASSUME NEW t, request' = [request EXCEPT ![p].list = @ \ {t}]
      PROVE  Moves(p, s, {s})
    <2> DEFINE r == [request[p] EXCEPT !.list = @ \ {t}]
    <2>1. /\ r \in Request /\ Same(r, request[p]) /\ r.at = s /\ r.op = request[p].op
          /\ r.channel = request[p].channel /\ r.seen = request[p].seen
        BY <1>1 DEF Request, Same
    <2>2. request' = [request EXCEPT ![p] = r]
        BY <1>2 DEF RequestsOK
    <2> HIDE DEF r
    <2> QED BY <1>1, <2>1, <2>2, Staying
<1>3. ASSUME NEW c, request' = [request EXCEPT ![p].todo = @ \ {c}]
      PROVE  Moves(p, s, {s})
    <2> DEFINE r == [request[p] EXCEPT !.todo = @ \ {c}]
    <2>1. /\ r \in Request /\ Same(r, request[p]) /\ r.at = s /\ r.op = request[p].op
          /\ r.channel = request[p].channel /\ r.seen = request[p].seen
        BY <1>1 DEF Request, Same
    <2>2. request' = [request EXCEPT ![p] = r]
        BY <1>3 DEF RequestsOK
    <2> HIDE DEF r
    <2> QED BY <1>1, <2>1, <2>2, Staying
<1> QED BY <1>2, <1>3

(* The other statements: from one that is ordinary to another.             *)
Ordinarily(p) ==
    /\ Moves(p, request[p].at, Ordinary)
    /\ request[p].at \in Ordinary \ {"count_channels", "find_doomed", "clear_overrides"}

(* The statements on overrides, rows and webhooks that count nothing.      *)
LEMMA OrdinaryMoves ==
    ASSUME RequestsOK, NEW p \in Slots,
           \/ AddOverrides(p) \/ FindChannel(p) \/ UpdateRow(p) \/ MoveEach(p)
           \/ UpsertOverride(p) \/ DeleteOverride(p)
           \/ FindSource(p) \/ InsertWebhook(p)
           \/ FindWebhook(p) \/ MoveWebhook(p) \/ DropWebhook(p)
    PROVE  Ordinarily(p)
<1> DEFINE others == {"add_overrides", "find_channel", "update_row", "move_each",
                      "upsert_override", "delete_override", "find_source", "insert_webhook",
                      "find_webhook", "move_webhook", "drop_webhook"}
<1>1. ASSUME NEW s \in others, Moves(p, s, Ordinary \cup {s} \cup After1(s))
      PROVE  Ordinarily(p)
    <2>1. request[p] # None /\ request[p].at = s /\ After1(s) = {}
        BY <1>1 DEF Moves, Takes, After1
    <2>2. s \in UNION {Statements(op) : op \in DOMAIN Handler}
        BY <2>1 DEF RequestsOK, Request
    <2>3. s \in Ordinary
        BY <2>2 DEF Ordinary
    <2> QED BY <1>1, <2>1, <2>3 DEF Ordinarily, Moves, Takes
<1>2. ASSUME NEW s \in others, At(p, s), Proceed(p) \/ Refuse(p)
      PROVE  Ordinarily(p)
    <2>1. Moves(p, s, Ordinary \cup After1(s))
        BY <1>2, ProceedingFrom, RefusedAt
    <2>2. Moves(p, s, Ordinary \cup {s} \cup After1(s))
        BY <2>1 DEF Moves, Takes
    <2> HIDE DEF others
    <2> QED BY <1>1, <2>2
<1>3. CASE AddOverrides(p)
    <2>1. CASE Proceed(p) \/ Refuse(p)
        BY <1>2, <1>3, <2>1 DEF AddOverrides
    <2>2. ASSUME NEW t, request' = [request EXCEPT ![p].list = @ \ {t}]
          PROVE  Ordinarily(p)
        <3>1. Moves(p, "add_overrides", {"add_overrides"})
            BY <1>3, <2>2, Lessening DEF AddOverrides
        <3> QED BY <1>1, <3>1 DEF Moves, Takes
    <2> QED BY <1>3, <2>1, <2>2 DEF AddOverrides
<1>4. CASE MoveEach(p)
    <2>1. CASE Proceed(p) \/ Refuse(p)
        BY <1>2, <1>4, <2>1 DEF MoveEach
    <2>2. ASSUME NEW c, request' = [request EXCEPT ![p].todo = @ \ {c}]
          PROVE  Ordinarily(p)
        <3>1. Moves(p, "move_each", {"move_each"})
            BY <1>4, <2>2, Lessening DEF MoveEach
        <3> QED BY <1>1, <3>1 DEF Moves, Takes
    <2> QED BY <1>4, <2>1, <2>2 DEF MoveEach
<1>5. CASE FindChannel(p)
    BY <1>2, <1>5 DEF FindChannel, Check
<1>6. CASE UpdateRow(p)
    BY <1>2, <1>6 DEF UpdateRow
<1>7. CASE UpsertOverride(p)
    BY <1>2, <1>7 DEF UpsertOverride
<1>8. CASE DeleteOverride(p)
    BY <1>2, <1>8 DEF DeleteOverride
<1>9. CASE FindSource(p)
    BY <1>2, <1>9 DEF FindSource, Check
<1>10. CASE InsertWebhook(p)
    BY <1>2, <1>10 DEF InsertWebhook
<1>11. CASE FindWebhook(p)
    BY <1>2, <1>11 DEF FindWebhook, Check
<1>12. CASE MoveWebhook(p)
    BY <1>2, <1>12 DEF MoveWebhook
<1>13. CASE DropWebhook(p)
    BY <1>2, <1>13 DEF DropWebhook
<1> QED BY <1>3, <1>4, <1>5, <1>6, <1>7, <1>8, <1>9, <1>10, <1>11, <1>12, <1>13

-----------------------------------------------------------------------------
(* Type correctness, the foreign keys with it.                             *)

ChannelsOK ==
    /\ channels \in [Channels -> Row \cup {None}]
    /\ \A c \in Existing : channels[c].parent \in Existing \cup {None}

OverridesOK ==
    /\ overrides \in [Channels -> SUBSET Targets]
    /\ \A c \in Channels \ Existing : overrides[c] = {}

WebhooksOK == webhooks \in [Webhooks -> Existing \cup {None}]

HistoryOK ==
    /\ intended \in [Channels -> SUBSET Targets] /\ mixed \subseteq Channels
    /\ rehung \in BOOLEAN /\ last_two \in BOOLEAN
    /\ started \in 0 .. MaxRequests /\ failures \in 0 .. MaxFailures

(* The type invariant, table by table.                                     *)
LEMMA TypeInvParts ==
    TypeInv <=> RequestsOK /\ ChannelsOK /\ OverridesOK /\ WebhooksOK /\ HistoryOK
<1>1. ASSUME TypeInv
      PROVE  RequestsOK /\ ChannelsOK /\ OverridesOK /\ WebhooksOK /\ HistoryOK
    BY <1>1 DEF TypeInv, TypeOK, ChannelsOK, OverridesOK, WebhooksOK, HistoryOK
<1>2. ASSUME RequestsOK, ChannelsOK, OverridesOK, WebhooksOK, HistoryOK
      PROVE  TypeInv
    <2>1. \A c \in Existing : channels[c].type \in Types
        BY <1>2 DEF ChannelsOK, Existing, Row
    <2>2. \A p \in Slots : request[p] # None =>
             /\ request[p].op \in DOMAIN Handler
             /\ request[p].at \in Statements(request[p].op) \ {"start", "end"}
        BY <1>2 DEF RequestsOK, Placed, Request
    <2> QED BY <1>2, <2>1, <2>2 DEF TypeInv, TypeOK, ChannelsOK, OverridesOK, WebhooksOK, HistoryOK
<1> QED BY <1>1, <1>2

(* What hangs a channel under another leaves the same channels.            *)
LEMMA HangTypes ==
    ASSUME ChannelsOK, NEW c, NEW parent \in Existing \cup {None}, Hang(c, parent)
    PROVE  ChannelsOK' /\ Existing' = Existing
<1>1. CASE c \notin Existing
    BY <1>1 DEF Hang, ChannelsOK, Existing
<1>2. CASE c \in Existing
    <2>1. /\ c \in Channels /\ channels[c] \in Row
          /\ channels' = [channels EXCEPT ![c].parent = parent]
        BY <1>2 DEF Hang, ChannelsOK, Existing
    <2>2. [channels[c] EXCEPT !.parent = parent] \in Row
        BY <2>1 DEF Row, Existing
    <2>3. /\ channels' \in [Channels -> Row \cup {None}]
          /\ \A d \in Channels \ {c} : channels'[d] = channels[d]
          /\ channels'[c] = [channels[c] EXCEPT !.parent = parent]
        BY <2>1, <2>2 DEF ChannelsOK
    <2>4. Existing' = Existing
        BY <1>2, <2>2, <2>3, NoneAssumption DEF Existing
    <2>5. \A d \in Existing : channels'[d].parent \in Existing \cup {None}
        BY <2>1, <2>3 DEF ChannelsOK, Row, Existing
    <2> QED BY <2>3, <2>4, <2>5 DEF ChannelsOK
<1> QED BY <1>1, <1>2

(* The children of a channel that lose their parent stay what else they are. *)
LEMMA WithoutParentTypes ==
    ASSUME ChannelsOK, NEW c
    PROVE  /\ WithoutParent(c) \in [Channels -> Row \cup {None}]
           /\ \A d \in Channels : WithoutParent(c)[d] = None <=> channels[d] = None
           /\ \A d \in Existing : /\ WithoutParent(c)[d].type = channels[d].type
                                  /\ WithoutParent(c)[d].parent
                                        = IF channels[d].parent = c THEN None
                                          ELSE channels[d].parent
<1>1. \A d \in Channels : WithoutParent(c)[d] =
         IF d \in Children(c) THEN [channels[d] EXCEPT !.parent = None] ELSE channels[d]
    BY DEF WithoutParent
<1>2. \A d \in Existing : channels[d] \in Row /\ d \in Channels
    BY DEF ChannelsOK, Existing
<1>3. \A d \in Existing : /\ [channels[d] EXCEPT !.parent = None] \in Row
                          /\ [channels[d] EXCEPT !.parent = None].type = channels[d].type
                          /\ [channels[d] EXCEPT !.parent = None].parent = None
    BY <1>2 DEF Row
<1>4. Children(c) = {d \in Existing : channels[d].parent = c}
    BY DEF Children
<1>5. ASSUME NEW d \in Channels
      PROVE  WithoutParent(c)[d] \in Row \cup {None}
    <2>1. CASE d \in Children(c)
        BY <1>1, <1>3, <1>4, <2>1
    <2>2. CASE d \notin Children(c)
        <3>1. channels[d] \in Row \cup {None}
            BY DEF ChannelsOK
        <3>2. WithoutParent(c)[d] = channels[d]
            BY <1>1, <2>2
        <3> QED BY <3>1, <3>2
    <2> QED BY <2>1, <2>2
<1>6. WithoutParent(c) \in [Channels -> Row \cup {None}]
    BY <1>5 DEF WithoutParent
<1>7. \A d \in Channels : WithoutParent(c)[d] = None <=> channels[d] = None
    BY <1>1, <1>3, <1>4, NoneAssumption DEF Existing
<1>8. \A d \in Existing : /\ WithoutParent(c)[d].type = channels[d].type
                          /\ WithoutParent(c)[d].parent
                                = IF channels[d].parent = c THEN None ELSE channels[d].parent
    BY <1>1, <1>2, <1>3, <1>4
<1> QED BY <1>6, <1>7, <1>8

(* Every step but an insertion, a hanging, an unhanging and a deletion     *)
(* leaves the channels alone.                                              *)
Elsewhere(p) ==
    \/ Start(p) \/ Fail(p)
    \/ CountChannels(p) \/ ParentIsCategory(p) \/ CountChildren(p)
    \/ AddOverrides(p) \/ FindChannel(p)
    \/ ClearOverrides(p) \/ ReplaceOverrides(p) \/ UpsertOverride(p) \/ DeleteOverride(p)
    \/ FindDoomed(p) \/ CountText(p)
    \/ FindSource(p) \/ InsertWebhook(p)
    \/ FindWebhook(p) \/ MoveWebhook(p) \/ DropWebhook(p)

(* The table of channels.                                                  *)
LEMMA ChannelsTyped ==
    ASSUME RequestsOK, ChannelsOK, NEW p \in Slots
    PROVE  /\ InsertChannel(p) => ChannelsOK' /\ Existing \subseteq Existing'
           /\ UpdateRow(p) \/ MoveEach(p) => ChannelsOK' /\ Existing' = Existing
           /\ UnsetChildren(p) => ChannelsOK' /\ Existing' = Existing
           /\ DeleteRow(p) => ChannelsOK' /\ Existing' = Existing \ {Subject(p)}
           /\ Elsewhere(p) => UNCHANGED channels /\ ChannelsOK' /\ Existing' = Existing
<1>1. ASSUME UNCHANGED channels
      PROVE  ChannelsOK' /\ Existing' = Existing
    BY <1>1 DEF ChannelsOK, Existing
<1>2. ASSUME InsertChannel(p)
      PROVE  ChannelsOK' /\ Existing \subseteq Existing'
    <2>1. ASSUME NEW c \in Channels, Inserts(p, c)
          PROVE  ChannelsOK' /\ Existing \subseteq Existing'
        <3> DEFINE row == [type |-> request[p].type, parent |-> Parent(p)]
        <3>1. /\ row \in Row /\ row # None /\ row.parent \in Existing \cup {None}
              /\ channels' = [channels EXCEPT ![c] = row] /\ channels[c] = None
            BY <2>1, NoneAssumption DEF Inserts, Existing
        <3> HIDE DEF row
        <3>2. channels' \in [Channels -> Row \cup {None}]
            BY <3>1 DEF ChannelsOK
        <3>3. channels'[c] = row /\ \A d \in Channels \ {c} : channels'[d] = channels[d]
            BY <3>1 DEF ChannelsOK
        <3>4. Existing' = Existing \cup {c}
            BY <3>1, <3>3 DEF Existing
        <3>5. \A d \in Existing' : channels'[d].parent \in Existing' \cup {None}
            BY <3>1, <3>3, <3>4 DEF ChannelsOK, Existing
        <3> QED BY <3>2, <3>4, <3>5 DEF ChannelsOK
    <2> QED BY <1>1, <1>2, <2>1, InsertChannelMoves
<1>3. ASSUME UpdateRow(p) \/ MoveEach(p)
      PROVE  ChannelsOK' /\ Existing' = Existing
    BY <1>1, <1>3, HangTypes DEF UpdateRow, MoveEach
<1>4. ASSUME UnsetChildren(p)
      PROVE  ChannelsOK' /\ Existing' = Existing
    <2>1. channels' = WithoutParent(Subject(p))
        BY <1>4 DEF UnsetChildren
    <2>2. Existing' = Existing
        BY <2>1, WithoutParentTypes DEF Existing
    <2> QED BY <2>1, <2>2, WithoutParentTypes DEF ChannelsOK
<1>5. ASSUME DeleteRow(p)
      PROVE  ChannelsOK' /\ Existing' = Existing \ {Subject(p)}
    <2> DEFINE c == Subject(p)
               left == WithoutParent(c)
    <2>1. channels' = [left EXCEPT ![c] = None]
        BY <1>5 DEF DeleteRow, Unhung
    <2>2. /\ left \in [Channels -> Row \cup {None}]
          /\ \A d \in Channels : left[d] = None <=> channels[d] = None
          /\ \A d \in Existing :
                left[d].parent = IF channels[d].parent = c THEN None ELSE channels[d].parent
        BY WithoutParentTypes
    <2> HIDE DEF left, c
    <2>3. /\ channels' \in [Channels -> Row \cup {None}]
          /\ \A d \in Channels \ {c} : channels'[d] = left[d]
          /\ c \in Channels => channels'[c] = None
        BY <2>1, <2>2
    <2>4. Existing' = Existing \ {c}
        BY <2>2, <2>3 DEF Existing
    <2>5. \A d \in Existing \ {c} : channels'[d].parent \in (Existing \ {c}) \cup {None}
        BY <2>2, <2>3 DEF ChannelsOK, Existing
    <2> QED BY <2>3, <2>4, <2>5 DEF ChannelsOK, c
<1>6. ASSUME Elsewhere(p)
      PROVE  UNCHANGED channels
    BY <1>6 DEF Elsewhere, Start, Fail, CountChannels, ParentIsCategory, CountChildren,
           AddOverrides, FindChannel, ClearOverrides, ReplaceOverrides, UpsertOverride,
           DeleteOverride, FindDoomed, CountText, FindSource, InsertWebhook, FindWebhook,
           MoveWebhook, DropWebhook, Check, rows
<1> QED BY <1>1, <1>2, <1>3, <1>4, <1>5, <1>6

-----------------------------------------------------------------------------
(* The overrides.                                                          *)

(* The steps of slot p.                                                    *)
StepOf(p) ==
    \/ Elsewhere(p) \/ InsertChannel(p) \/ UpdateRow(p) \/ MoveEach(p)
    \/ UnsetChildren(p) \/ DeleteRow(p)

(* Next, slot by slot.                                                     *)
LEMMA NextSteps == Next <=> \E p \in Slots : StepOf(p)
BY DEF Next, StepOf, Elsewhere

MeantOK == intended \in [Channels -> SUBSET Targets] /\ mixed \subseteq Channels

OverridesInv == OverridesOK /\ MeantOK /\ OverridesSerial /\ AllSeen

(* A write that mixes with a replacement says so, one that does not adds   *)
(* nothing the replacement has not seen.                                   *)
LEMMA WriteStep ==
    ASSUME RequestsOK, OverridesInv, NEW p \in Slots, NEW s, Moves(p, s, Ordinary),
           NEW new, NEW meant,
           overrides' = [overrides EXCEPT ![Subject(p)] = new],
           intended' = [intended EXCEPT ![Subject(p)] = meant],
           Subject(p) \in Channels => new \in SUBSET Targets /\ meant \in SUBSET Targets,
           Existing \ {Subject(p)} \subseteq Existing',
           Subject(p) \in Channels \ Existing' => new = {},
           Subject(p) \in Channels \ mixed => new = meant,
           \/ mixed' = Mixes(p, Subject(p)) /\ Subject(p) \in Channels
           \/ mixed' = mixed /\ new \subseteq overrides[Subject(p)]
    PROVE  OverridesInv'
<1> DEFINE c == Subject(p)
<1>1. /\ \A d \in Channels \ {c} : overrides'[d] = overrides[d] /\ intended'[d] = intended[d]
      /\ c \in Channels => overrides'[c] = new /\ intended'[c] = meant
    BY DEF OverridesInv, OverridesOK, MeantOK
<1>2. mixed \subseteq mixed' /\ mixed' \subseteq Channels
    BY DEF Mixes, OverridesInv, MeantOK
<1>3. OverridesOK'
    <2>1. overrides' \in [Channels -> SUBSET Targets]
        BY DEF OverridesInv, OverridesOK
    <2>2. \A d \in Channels \ Existing' : overrides'[d] = {}
        BY <1>1 DEF OverridesInv, OverridesOK
    <2> QED BY <2>1, <2>2 DEF OverridesOK
<1>4. MeantOK'
    BY <1>2 DEF OverridesInv, MeantOK
<1>5. OverridesSerial'
    <2>1. \A d \in Channels \ mixed' : overrides'[d] = intended'[d]
        BY <1>1, <1>2 DEF OverridesInv, OverridesSerial
    <2> QED BY <2>1 DEF OverridesSerial
<1>6. AllSeen'
    <2> SUFFICES ASSUME NEW q \in Slots, request'[q] # None,
                        request'[q].at = "replace_overrides", request'[q].channel \notin mixed'
                 PROVE  overrides'[request'[q].channel] \subseteq request'[q].seen
        BY DEF AllSeen, At, Subject
    <2>1. q # p /\ request'[q] = request[q]
        BY DEF Moves, Takes, Ordinary
    <2>2. Replaces(q, request[q].channel) /\ request[q].channel \in Channels
        BY <2>1, Owners DEF Replaces, At, Subject
    <2>3. overrides[request[q].channel] \subseteq request[q].seen
        BY <1>2, <2>1, <2>2 DEF OverridesInv, AllSeen, Replaces, Subject
    <2>4. CASE request[q].channel # c
        BY <1>1, <2>1, <2>2, <2>3, <2>4
    <2>5. CASE request[q].channel = c
        <3>1. mixed' # Mixes(p, c)
            BY <2>1, <2>2, <2>5 DEF Mixes
        <3>2. overrides'[c] \subseteq overrides[c]
            BY <1>1, <2>2, <2>5, <3>1
        <3> QED BY <2>1, <2>3, <2>5, <3>2
    <2> QED BY <2>4, <2>5
<1> QED BY <1>3, <1>4, <1>5, <1>6 DEF OverridesInv

(* A step that writes no override, and that begins no replacement or has   *)
(* just seen what there is.                                                *)
LEMMA QuietStep ==
    ASSUME OverridesInv, NEW p \in Slots,
           UNCHANGED <<overrides, intended, mixed>>, Existing \subseteq Existing',
           \A q \in Slots \ {p} : request'[q] = request[q],
           request'[p] # None /\ request'[p].at = "replace_overrides"
              => request'[p].seen = overrides[request'[p].channel]
    PROVE  OverridesInv'
<1>1. OverridesOK' /\ MeantOK' /\ OverridesSerial'
    BY DEF OverridesInv, OverridesOK, MeantOK, OverridesSerial
<1>2. AllSeen'
    <2> SUFFICES ASSUME NEW q \in Slots, request'[q] # None,
                        request'[q].at = "replace_overrides", request'[q].channel \notin mixed
                 PROVE  overrides[request'[q].channel] \subseteq request'[q].seen
        BY DEF AllSeen, At, Subject
    <2> QED BY DEF OverridesInv, AllSeen, At, Subject
<1> QED BY <1>1, <1>2 DEF OverridesInv

(* A step that only moves its request among ordinary statements.           *)
LEMMA QuietMove ==
    ASSUME OverridesInv, NEW p \in Slots, NEW s, NEW to, Moves(p, s, to),
           "replace_overrides" \notin to,
           UNCHANGED <<overrides, intended, mixed>>, Existing \subseteq Existing'
    PROVE  OverridesInv'
BY QuietStep DEF Moves, Takes

(* The overrides after each step.                                          *)
LEMMA OverridesStep ==
    ASSUME RequestsOK, ChannelsOK, OverridesInv, NEW p \in Slots, StepOf(p)
    PROVE  OverridesInv'
<1> DEFINE c == Subject(p)
<1>0. /\ overrides \in [Channels -> SUBSET Targets] /\ intended \in [Channels -> SUBSET Targets]
      /\ Existing \subseteq Channels /\ "replace_overrides" \notin Ordinary
    BY DEF OverridesInv, OverridesOK, MeantOK, Existing, Ordinary
<1>q. ASSUME UNCHANGED <<overrides, intended, mixed>>, Existing \subseteq Existing', Ordinarily(p)
      PROVE  OverridesInv'
    BY <1>0, <1>q, QuietMove DEF Ordinarily
<1>1. CASE Start(p)
    <2>1. Begins(p) /\ UNCHANGED <<overrides, intended, mixed>> /\ Existing' = Existing
        BY <1>1, Starting, ChannelsTyped DEF Start, rows, history, Elsewhere
    <2> QED BY <1>0, <2>1, QuietStep DEF Begins
<1>2. CASE Fail(p)
    <2>1. /\ Moves(p, request[p].at, Ordinary) /\ UNCHANGED <<overrides, intended, mixed>>
          /\ Existing' = Existing
        BY <1>2, Failing, ChannelsTyped DEF Fail, rows, history, Elsewhere
    <2> QED BY <1>0, <2>1, QuietMove
<1>3. CASE CountChannels(p) \/ ParentIsCategory(p) \/ CountChildren(p) \/ CountText(p)
    <2>1. UNCHANGED <<overrides, intended, mixed>> /\ Existing' = Existing
        BY <1>3, ChannelsTyped DEF CountChannels, ParentIsCategory, CountChildren, CountText,
               Check, rows, history, Elsewhere
    <2>2. \E s, to : Moves(p, s, to) /\ "replace_overrides" \notin to
        <3>1. \A x : x # "replace_overrides" => "replace_overrides" \notin Ordinary \cup {x}
            BY <1>0
        <3>2. "replace_overrides" \notin Ordinary \cup {"insert_channel", "parent_is_category"}
            BY <1>0
        <3> QED BY <1>3, <3>1, <3>2, CountingMoves
    <2> QED BY <2>1, <2>2, QuietMove
<1>4. CASE InsertChannel(p)
    <2>1. Moves(p, "insert_channel", Ordinary)
        BY <1>4, InsertChannelMoves DEF Inserts
    <2>2. UNCHANGED <<overrides, intended, mixed>> /\ Existing \subseteq Existing'
        BY <1>4, ChannelsTyped DEF InsertChannel, history
    <2> QED BY <1>0, <2>1, <2>2, QuietMove
<1>5. CASE FindChannel(p) \/ UpdateRow(p) \/ MoveEach(p) \/ FindSource(p) \/ InsertWebhook(p)
           \/ FindWebhook(p) \/ MoveWebhook(p) \/ DropWebhook(p)
    <2>1. Ordinarily(p)
        BY <1>5, OrdinaryMoves
    <2>2. Existing' = Existing
        BY <1>5, ChannelsTyped DEF Elsewhere
    <2>3. UNCHANGED <<overrides, intended, mixed>>
        BY <1>5 DEF FindChannel, UpdateRow, MoveEach, FindSource, InsertWebhook, FindWebhook,
               MoveWebhook, DropWebhook, Check, rows, history
    <2> QED BY <1>q, <2>1, <2>2, <2>3
<1>6. CASE FindDoomed(p) \/ UnsetChildren(p)
    <2>1. /\ UNCHANGED <<overrides, intended, mixed>> /\ Existing' = Existing
        BY <1>6, ChannelsTyped DEF FindDoomed, UnsetChildren, rows, history, Elsewhere
    <2>2. "replace_overrides" \notin Ordinary \cup {"unset_children", "delete_row"}
        BY <1>0
    <2>3. "replace_overrides" \notin Ordinary \cup {"delete_row"}
        BY <1>0
    <2>4. \E s, to : Moves(p, s, to) /\ "replace_overrides" \notin to
        BY <1>6, <2>2, <2>3, DeletingMoves
    <2> QED BY <2>1, <2>4, QuietMove
<1>7. CASE ClearOverrides(p)
    <2>1. /\ Moves(p, "clear_overrides", Ordinary \cup {"replace_overrides"})
          /\ request'[p] # None => request'[p].seen = overrides[Subject(p)]
        BY <1>0, <1>7, ReplacingMoves
    <2>2. UNCHANGED <<overrides, intended, mixed>> /\ Existing' = Existing
        BY <1>7, ChannelsTyped DEF ClearOverrides, rows, history, Elsewhere
    <2>3. request'[p] # None => request'[p].channel = Subject(p)
        BY <2>1 DEF Moves, Takes, Subject
    <2> QED BY <2>1, <2>2, <2>3, QuietStep DEF Moves, Takes
<1>8. CASE AddOverrides(p)
    <2>1. Ordinarily(p) /\ Existing' = Existing
        BY <1>8, OrdinaryMoves, ChannelsTyped DEF Elsewhere
    <2>2. CASE UNCHANGED <<overrides, intended, mixed>>
        BY <1>q, <2>1, <2>2
    <2>3. ASSUME NEW t \in request[p].list, c \in Existing, mixed' = Mixes(p, c),
                 overrides' = [overrides EXCEPT ![c] = @ \cup {t}],
                 intended' = [intended EXCEPT ![c] = @ \cup {t}]
          PROVE  OverridesInv'
        <3> DEFINE new == overrides[c] \cup {t}
                   meant == intended[c] \cup {t}
        <3>1. t \in Targets
            BY <1>8 DEF AddOverrides, At, RequestsOK, Request
        <3>2. /\ overrides' = [overrides EXCEPT ![c] = new]
              /\ intended' = [intended EXCEPT ![c] = meant]
              /\ new \in SUBSET Targets /\ meant \in SUBSET Targets
            BY <1>0, <2>3, <3>1
        <3>3. c \in Channels \ mixed => new = meant
            BY DEF OverridesInv, OverridesSerial
        <3> HIDE DEF new, meant
        <3> QED BY <1>0, <2>1, <2>3, <3>2, <3>3, WriteStep DEF Ordinarily
    <2> QED BY <1>8, <2>2, <2>3 DEF AddOverrides
<1>9. CASE UpsertOverride(p)
    <2>1. Ordinarily(p) /\ Existing' = Existing
        BY <1>9, OrdinaryMoves, ChannelsTyped DEF Elsewhere
    <2>2. CASE UNCHANGED <<overrides, intended, mixed>>
        BY <1>q, <2>1, <2>2
    <2>3. CASE c \in Existing
        <3> DEFINE new == overrides[c] \cup request[p].list
                   meant == intended[c] \cup request[p].list
        <3>1. request[p].list \in SUBSET Targets
            BY <1>9 DEF UpsertOverride, At, RequestsOK, Request
        <3>2. /\ overrides' = [overrides EXCEPT ![c] = new]
              /\ intended' = [intended EXCEPT ![c] = meant]
              /\ mixed' = Mixes(p, c)
              /\ new \in SUBSET Targets /\ meant \in SUBSET Targets
            BY <1>0, <1>9, <2>3, <3>1 DEF UpsertOverride
        <3>3. c \in Channels \ mixed => new = meant
            BY DEF OverridesInv, OverridesSerial
        <3> HIDE DEF new, meant
        <3> QED BY <1>0, <2>1, <2>3, <3>2, <3>3, WriteStep DEF Ordinarily
    <2> QED BY <1>9, <2>2, <2>3 DEF UpsertOverride
<1>10. CASE ReplaceOverrides(p)
    <2>1. /\ Moves(p, "replace_overrides", Ordinary) /\ Existing' = Existing
          /\ At(p, "replace_overrides") /\ request[p] \in Request
        BY <1>0, <1>10, ReplacingMoves, ChannelsTyped
           DEF Elsewhere, ReplaceOverrides, At, RequestsOK
    <2>2. CASE UNCHANGED <<overrides, intended, mixed>>
        BY <1>0, <2>1, <2>2, QuietMove
    <2>3. CASE c \in Existing /\ ~UNCHANGED <<overrides, intended, mixed>>
        <3> DEFINE kept == overrides[c] \ request[p].seen
                   new == kept \cup request[p].list
                   meant == request[p].list
        <3>1. meant \in SUBSET Targets
            BY <2>1 DEF Request
        <3>2. /\ overrides' = [overrides EXCEPT ![c] = new]
              /\ intended' = [intended EXCEPT ![c] = meant]
              /\ mixed' = Mixes(p, c)
              /\ new \in SUBSET Targets
            BY <1>0, <1>10, <2>3, <3>1 DEF ReplaceOverrides
        <3>3. c \notin mixed => kept = {}
            BY <2>1 DEF OverridesInv, AllSeen
        <3>4. c \in Channels \ mixed => new = meant
            BY <3>3
        <3> HIDE DEF new, meant, kept
        <3> QED BY <1>0, <2>1, <2>3, <3>1, <3>2, <3>4, WriteStep
    <2> QED BY <1>10, <2>2, <2>3 DEF ReplaceOverrides
<1>11. CASE DeleteOverride(p)
    <2>1. Ordinarily(p) /\ Existing' = Existing
        BY <1>11, OrdinaryMoves, ChannelsTyped DEF Elsewhere
    <2> DEFINE new == overrides[c] \ request[p].list
               meant == intended[c] \ request[p].list
    <2>2. /\ overrides' = [overrides EXCEPT ![c] = new]
          /\ intended' = [intended EXCEPT ![c] = meant]
          /\ mixed' = mixed /\ new \subseteq overrides[c]
          /\ c \in Channels => new \in SUBSET Targets /\ meant \in SUBSET Targets
        BY <1>0, <1>11 DEF DeleteOverride
    <2>3. c \in Channels \ mixed => new = meant
        BY DEF OverridesInv, OverridesSerial
    <2>4. c \in Channels \ Existing' => new = {}
        BY <2>1 DEF OverridesInv, OverridesOK
    <2> HIDE DEF new, meant
    <2> QED BY <1>0, <2>1, <2>2, <2>3, <2>4, WriteStep DEF Ordinarily
<1>12. CASE DeleteRow(p)
    <2>1. Moves(p, "delete_row", Ordinary) /\ Existing' = Existing \ {c}
        BY <1>12, DeletingMoves, ChannelsTyped
    <2>2. /\ overrides' = [overrides EXCEPT ![c] = {}]
          /\ intended' = [intended EXCEPT ![c] = {}] /\ mixed' = mixed
        BY <1>12 DEF DeleteRow
    <2> QED BY <1>0, <2>1, <2>2, WriteStep
<1> QED
    BY <1>1, <1>2, <1>3, <1>4, <1>5, <1>6, <1>7, <1>8, <1>9, <1>10, <1>11, <1>12
       DEF StepOf, Elsewhere

-----------------------------------------------------------------------------
(* The other tables.                                                       *)

(* The webhooks after each step: a channel that goes takes its own with it. *)
LEMMA WebhooksStep ==
    ASSUME RequestsOK, ChannelsOK, WebhooksOK, NEW p \in Slots, StepOf(p)
    PROVE  WebhooksOK'
<1>1. CASE UNCHANGED webhooks /\ Existing \subseteq Existing'
    BY <1>1 DEF WebhooksOK
<1>2. CASE InsertChannel(p) \/ UpdateRow(p) \/ MoveEach(p) \/ UnsetChildren(p)
    BY <1>1, <1>2, ChannelsTyped DEF InsertChannel, UpdateRow, MoveEach, UnsetChildren
<1>3. CASE Elsewhere(p)
    <2>1. Existing' = Existing
        BY <1>3, ChannelsTyped
    <2>2. CASE InsertWebhook(p) \/ MoveWebhook(p) \/ DropWebhook(p)
        <3>1. InsertWebhook(p) => WebhooksOK'
            BY <2>1 DEF InsertWebhook, WebhooksOK
        <3>2. MoveWebhook(p) => WebhooksOK'
            BY <2>1 DEF MoveWebhook, WebhooksOK
        <3>3. DropWebhook(p) => WebhooksOK'
            BY <2>1 DEF DropWebhook, WebhooksOK
        <3> QED BY <2>2, <3>1, <3>2, <3>3
    <2>3. CASE ~(InsertWebhook(p) \/ MoveWebhook(p) \/ DropWebhook(p))
        <3>1. UNCHANGED webhooks
            BY <1>3, <2>3 DEF Elsewhere, Start, Fail, CountChannels, ParentIsCategory,
                   CountChildren, AddOverrides, FindChannel, ClearOverrides, ReplaceOverrides,
                   UpsertOverride, DeleteOverride, FindDoomed, CountText, FindSource,
                   FindWebhook, Check, rows
        <3> QED BY <1>1, <2>1, <3>1
    <2> QED BY <2>2, <2>3
<1>4. CASE DeleteRow(p)
    <2>1. Existing' = Existing \ {Subject(p)}
        BY <1>4, ChannelsTyped
    <2>2. webhooks' = [w \in Webhooks |-> IF webhooks[w] = Subject(p) THEN None ELSE webhooks[w]]
        BY <1>4 DEF DeleteRow
    <2> QED BY <2>1, <2>2 DEF WebhooksOK
<1> QED BY <1>2, <1>3, <1>4 DEF StepOf

CountersOK ==
    /\ rehung \in BOOLEAN /\ last_two \in BOOLEAN
    /\ started \in 0 .. MaxRequests /\ failures \in 0 .. MaxFailures

(* The flags and the counters after each step.                             *)
LEMMA CountersStep ==
    ASSUME CountersOK, NEW p \in Slots, StepOf(p)
    PROVE  CountersOK'
<1>0. MaxRequests \in Nat /\ MaxFailures \in Nat
    BY ConstantsAssumption
<1>1. CASE Start(p)
    BY <1>0, <1>1 DEF Start, CountersOK, history
<1>2. CASE Fail(p)
    BY <1>0, <1>2 DEF Fail, CountersOK, history
<1>3. CASE CountText(p)
    BY <1>3 DEF CountText, CountersOK, counters
<1>4. CASE UpdateRow(p)
    BY <1>4 DEF UpdateRow, Hang, CountersOK, counters
<1>5. CASE MoveEach(p)
    BY <1>5 DEF MoveEach, Hang, CountersOK, counters
<1>6. CASE ~(Start(p) \/ Fail(p) \/ CountText(p) \/ UpdateRow(p) \/ MoveEach(p))
    <2>1. UNCHANGED <<rehung, last_two, started, failures>>
        BY <1>6 DEF StepOf, Elsewhere, CountChannels, ParentIsCategory, CountChildren,
               InsertChannel, AddOverrides, FindChannel, ClearOverrides, ReplaceOverrides,
               UpsertOverride, DeleteOverride, FindDoomed, UnsetChildren, DeleteRow, FindSource,
               InsertWebhook, FindWebhook, MoveWebhook, DropWebhook, Check, history, counters
    <2> QED BY <2>1 DEF CountersOK
<1> QED BY <1>1, <1>2, <1>3, <1>4, <1>5, <1>6

(* The requests after each step.                                           *)
LEMMA RequestsStep ==
    ASSUME RequestsOK, OverridesOK, NEW p \in Slots, StepOf(p)
    PROVE  RequestsOK'
<1>1. CASE Start(p) \/ Fail(p)
    BY <1>1, Starting, Failing DEF Begins, Moves
<1>2. CASE CountChannels(p) \/ ParentIsCategory(p) \/ CountChildren(p) \/ CountText(p)
    BY <1>2, CountingMoves DEF Moves
<1>3. CASE InsertChannel(p) \/ FindDoomed(p) \/ UnsetChildren(p) \/ DeleteRow(p)
    BY <1>3, InsertChannelMoves, DeletingMoves DEF Moves, Inserts
<1>4. CASE ClearOverrides(p) \/ ReplaceOverrides(p)
    BY <1>4, ReplacingMoves DEF Moves, OverridesOK
<1>5. CASE ~(\/ Start(p) \/ Fail(p) \/ CountChannels(p) \/ ParentIsCategory(p)
             \/ CountChildren(p) \/ CountText(p) \/ InsertChannel(p) \/ FindDoomed(p)
             \/ UnsetChildren(p) \/ DeleteRow(p) \/ ClearOverrides(p) \/ ReplaceOverrides(p))
    BY <1>5, OrdinaryMoves DEF StepOf, Elsewhere, Ordinarily, Moves
<1> QED BY <1>1, <1>2, <1>3, <1>4, <1>5

(* Every part of the type invariant, and the overrides, after a step.      *)
LEMMA TypeInvStep ==
    ASSUME TypeInv, OverridesSerial, AllSeen, NEW p \in Slots, StepOf(p)
    PROVE  (TypeInv /\ OverridesSerial /\ AllSeen)'
<1>1. RequestsOK /\ ChannelsOK /\ OverridesInv /\ WebhooksOK /\ CountersOK
    BY TypeInvParts DEF OverridesInv, MeantOK, HistoryOK, CountersOK
<1>2. RequestsOK'
    BY <1>1, RequestsStep DEF OverridesInv
<1>3. ChannelsOK'
    BY <1>1, ChannelsTyped DEF StepOf
<1>4. OverridesInv' /\ WebhooksOK' /\ CountersOK'
    BY <1>1, OverridesStep, WebhooksStep, CountersStep
<1>5. HistoryOK'
    BY <1>4 DEF OverridesInv, MeantOK, HistoryOK, CountersOK
<1>6. OverridesOK' /\ WebhooksOK'
    BY <1>4 DEF OverridesInv
<1>7. TypeInv'
    BY <1>2, <1>3, <1>5, <1>6, TypeInvParts, PTL
<1> QED BY <1>4, <1>7 DEF OverridesInv

-----------------------------------------------------------------------------
(* The last text channel.                                                  *)

(* The text channels after each step.                                      *)
LEMMA TextEffects ==
    ASSUME RequestsOK, ChannelsOK, NEW p \in Slots
    PROVE  /\ Elsewhere(p) \/ UpdateRow(p) \/ MoveEach(p) \/ UnsetChildren(p) => Text' = Text
           /\ InsertChannel(p) =>
                 /\ Text \subseteq Text'
                 /\ \A q \in Slots : request[q] # None /\ Subject(q) \in Text' => Subject(q) \in Text
           /\ DeleteRow(p) => Text' = Text \ {Subject(p)}
<1>0. Existing \subseteq Channels /\ channels \in [Channels -> Row \cup {None}]
    BY DEF Existing, ChannelsOK
<1>1. ASSUME UNCHANGED channels
      PROVE  Text' = Text
    BY <1>1 DEF Text, Existing
<1>2. ASSUME NEW c, NEW parent, Hang(c, parent), Existing' = Existing
      PROVE  Text' = Text
    <2>1. CASE c \in Existing
        <3>1. channels' = [channels EXCEPT ![c].parent = parent] /\ channels[c] \in Row
            BY <1>0, <1>2, <2>1 DEF Hang, Existing
        <3>2. \A d \in Existing : channels'[d].type = channels[d].type
            BY <1>0, <3>1 DEF Row
        <3> QED BY <1>2, <3>2 DEF Text
    <2> QED BY <1>1, <1>2, <2>1 DEF Hang
<1>3. ASSUME InsertChannel(p)
      PROVE  /\ Text \subseteq Text'
             /\ \A q \in Slots : request[q] # None /\ Subject(q) \in Text' => Subject(q) \in Text
    <2>1. ASSUME NEW c \in Channels, Inserts(p, c)
          PROVE  /\ Text \subseteq Text' /\ Text' \subseteq Text \cup {c}
                 /\ \A q \in Slots : request[q] # None => Subject(q) # c
        <3>1. /\ c \notin Existing /\ \A d \in Channels \ {c} : channels'[d] = channels[d]
            BY <1>0, <2>1 DEF Inserts
        <3>2. Text \subseteq Text' /\ Text' \subseteq Text \cup {c}
            BY <1>0, <3>1 DEF Text, Existing
        <3> QED BY <2>1, <3>2 DEF Inserts
    <2> QED BY <1>1, <1>3, <2>1, InsertChannelMoves
<1>4. ASSUME UnsetChildren(p)
      PROVE  Text' = Text
    <2>1. channels' = WithoutParent(Subject(p)) /\ Existing' = Existing
        BY <1>4, ChannelsTyped DEF UnsetChildren
    <2>2. \A d \in Existing : channels'[d].type = channels[d].type
        BY <2>1, WithoutParentTypes
    <2> QED BY <2>1, <2>2 DEF Text
<1>5. ASSUME DeleteRow(p)
      PROVE  Text' = Text \ {Subject(p)}
    <2> DEFINE c == Subject(p)
               left == WithoutParent(c)
    <2>1. channels' = [left EXCEPT ![c] = None] /\ Existing' = Existing \ {c}
        BY <1>5, ChannelsTyped DEF DeleteRow, Unhung
    <2>2. /\ left \in [Channels -> Row \cup {None}]
          /\ \A d \in Existing : left[d].type = channels[d].type
        BY WithoutParentTypes
    <2> HIDE DEF left, c
    <2>3. \A d \in Existing \ {c} : channels'[d].type = channels[d].type
        BY <1>0, <2>1, <2>2
    <2> QED BY <2>1, <2>3 DEF Text, c
<1>6. Elsewhere(p) \/ UpdateRow(p) \/ MoveEach(p) => Text' = Text
    BY <1>1, <1>2, ChannelsTyped DEF UpdateRow, MoveEach
<1> QED BY <1>3, <1>4, <1>5, <1>6

(* A step that takes no text channel away and dooms none.                  *)
LEMMA TextKept ==
    ASSUME TextStays, NEW p \in Slots, NEW s, NEW to, Moves(p, s, to) \/ Begins(p),
           last_two' = last_two, Text \subseteq Text',
           \A q \in Slots : request[q] # None /\ Subject(q) \in Text' => Subject(q) \in Text,
           request'[p] # None /\ request'[p].at \in {"unset_children", "delete_row"}
              => request'[p].channel \notin Text'
    PROVE  TextStays'
<1>1. \A q \in Slots \ {p} : request'[q] = request[q]
    BY DEF Moves, Takes, Begins
<1>2. Doomed' \subseteq Doomed
    <2> SUFFICES ASSUME NEW q \in Slots, request'[q] # None, request'[q].at = "delete_row",
                        request'[q].channel \in Text'
                 PROVE  request'[q].channel \in Doomed
        BY DEF Doomed, At, Subject
    <2> QED BY <1>1 DEF Doomed, At, Subject
<1>3. \A q \in Slots : request'[q] # None /\ request'[q].at = "unset_children"
         => request'[q].channel \notin Text'
    BY <1>1 DEF TextStays, At, Subject
<1>4. /\ ~last_two' => Text' # {}
      /\ ~last_two' => \A c \in Doomed' : Text' \ {c} # {}
      /\ ~last_two' => \A c, d \in Doomed' : c = d
    BY <1>2 DEF TextStays
<1> QED BY <1>3, <1>4 DEF TextStays, At, Subject

(* The deletion of a text channel that has counted another.                *)
LEMMA CountTextStep ==
    ASSUME TypeInv, TextStays, NEW p \in Slots, CountText(p)
    PROVE  TextStays'
<1> DEFINE c == Subject(p)
<1>0. RequestsOK /\ ChannelsOK
    BY TypeInvParts
<1>1. /\ Moves(p, "count_text", Ordinary \cup {"delete_row"}) /\ Text' = Text
      /\ request'[p] # None => OthersLeft(Cardinality(Text))
    BY <1>0, CountingMoves, TextEffects DEF Elsewhere
<1>2. /\ \A q \in Slots \ {p} : request'[q] = request[q]
      /\ request'[p] # None => request'[p].channel = c /\ request'[p].at # "unset_children"
      /\ request[p].at = "count_text"
    BY <1>1 DEF Moves, Takes, Ordinary, Subject
<1>3. /\ last_two => last_two'
      /\ ~last_two' => \A q \in Slots \ {p} : ~(At(q, "delete_row") /\ Subject(q) \in Text \ {c})
    BY DEF CountText
<1>4. ~last_two' => Doomed \subseteq {c}
    BY <1>2, <1>3 DEF Doomed, At
<1>5. Doomed' \subseteq Doomed \cup {c} /\ (request'[p] = None => Doomed' \subseteq Doomed)
    BY <1>1, <1>2 DEF Doomed, At, Subject
<1>6. request'[p] # None => Text \ {c} # {}
    <2> SUFFICES ASSUME request'[p] # None, Text \subseteq {c}
                 PROVE  FALSE
        OBVIOUS
    <2>1. Cardinality(Text) > 1
        BY <1>1 DEF OthersLeft
    <2>2. IsFiniteSet({c}) /\ Cardinality({c}) = 1
        BY FS_Singleton
    <2>3. Cardinality(Text) \in Nat /\ Cardinality(Text) <= 1
        BY <2>2, FS_Subset, FS_CardinalityType
    <2> QED BY <2>1, <2>3
<1>7. \A q \in Slots : request'[q] # None /\ request'[q].at = "unset_children"
         => request'[q].channel \notin Text'
    BY <1>1, <1>2 DEF TextStays, At, Subject
<1>8. /\ ~last_two' => Text' # {}
      /\ ~last_two' => \A d \in Doomed' : Text' \ {d} # {}
      /\ ~last_two' => \A d, e \in Doomed' : d = e
    <2> HIDE DEF c
    <2> QED BY <1>1, <1>3, <1>4, <1>5, <1>6 DEF TextStays
<1> QED BY <1>7, <1>8 DEF TextStays, At, Subject

(* The deletion itself: what is doomed is deleted, and another is left.    *)
LEMMA DeleteRowStep ==
    ASSUME TypeInv, TextStays, NEW p \in Slots, DeleteRow(p)
    PROVE  TextStays'
<1> DEFINE c == Subject(p)
<1>1. Moves(p, "delete_row", Ordinary) /\ Text' = Text \ {c} /\ last_two' = last_two
    BY TypeInvParts, DeletingMoves, TextEffects DEF DeleteRow
<1>2. /\ \A q \in Slots \ {p} : request'[q] = request[q]
      /\ request'[p] # None => request'[p].at \notin {"unset_children", "delete_row"}
      /\ request[p] # None /\ request[p].at = "delete_row"
    BY <1>1 DEF Moves, Takes, Ordinary
<1>3. c \in Text => c \in Doomed
    BY <1>2 DEF Doomed, At
<1>4. Doomed' \subseteq Doomed \ {c}
    BY <1>1, <1>2 DEF Doomed, At, Subject
<1>5. \A q \in Slots : request'[q] # None /\ request'[q].at = "unset_children"
         => request'[q].channel \notin Text'
    BY <1>1, <1>2 DEF TextStays, At, Subject
<1>6. /\ ~last_two' => Text' # {}
      /\ ~last_two' => \A d \in Doomed' : Text' \ {d} # {}
      /\ ~last_two' => \A d, e \in Doomed' : d = e
    <2> HIDE DEF c
    <2> QED BY <1>1, <1>3, <1>4 DEF TextStays
<1> QED BY <1>5, <1>6 DEF TextStays, At, Subject

(* The last text channel after each step.                                  *)
LEMMA TextStep ==
    ASSUME TypeInv, TextStays, NEW p \in Slots, StepOf(p)
    PROVE  TextStays'
<1>0. /\ RequestsOK /\ ChannelsOK /\ overrides \in [Channels -> SUBSET Targets]
      /\ {"unset_children", "delete_row"} \cap Ordinary = {}
    BY TypeInvParts DEF OverridesOK, Ordinary
<1>1. ASSUME NEW s, NEW to, Moves(p, s, to), {"unset_children", "delete_row"} \cap to = {},
             last_two' = last_two, Text \subseteq Text',
             \A q \in Slots : request[q] # None /\ Subject(q) \in Text' => Subject(q) \in Text
      PROVE  TextStays'
    <2>1. request'[p] # None => request'[p].at \notin {"unset_children", "delete_row"}
        BY <1>1 DEF Moves, Takes
    <2> QED BY <1>1, <2>1, TextKept
<1>2. CASE Start(p)
    <2>1. Begins(p) /\ Text' = Text /\ last_two' = last_two
        BY <1>0, <1>2, Starting, TextEffects DEF Start, history, Elsewhere
    <2>2. request'[p].at \notin {"unset_children", "delete_row"}
        BY <1>0, <2>1 DEF Begins
    <2> QED BY <2>1, <2>2, TextKept
<1>3. CASE Fail(p)
    <2>1. Moves(p, request[p].at, Ordinary) /\ Text' = Text /\ last_two' = last_two
        BY <1>0, <1>3, Failing, TextEffects DEF Fail, history, Elsewhere
    <2> QED BY <1>0, <1>1, <2>1
<1>4. CASE CountChannels(p) \/ ParentIsCategory(p) \/ CountChildren(p)
    <2>1. Text' = Text /\ last_two' = last_two
        BY <1>0, <1>4, TextEffects DEF CountChannels, ParentIsCategory, CountChildren, Check,
               history, Elsewhere
    <2>2. \E s, to : Moves(p, s, to) /\ {"unset_children", "delete_row"} \cap to = {}
        <3>1. \A x \in {"insert_channel", "count_children"} :
                 {"unset_children", "delete_row"} \cap (Ordinary \cup {x}) = {}
            BY <1>0
        <3>2. {"unset_children", "delete_row"}
                 \cap (Ordinary \cup {"insert_channel", "parent_is_category"}) = {}
            BY <1>0
        <3> QED BY <1>0, <1>4, <3>1, <3>2, CountingMoves
    <2> QED BY <1>1, <2>1, <2>2
<1>5. CASE InsertChannel(p)
    <2>1. Moves(p, "insert_channel", Ordinary)
        BY <1>0, <1>5, InsertChannelMoves DEF Inserts
    <2>2. last_two' = last_two
        BY <1>5 DEF InsertChannel, history
    <2> QED BY <1>0, <1>1, <1>5, <2>1, <2>2, TextEffects
<1>6. CASE FindDoomed(p)
    <2>1. /\ Text' = Text /\ last_two' = last_two
        BY <1>0, <1>6, TextEffects DEF FindDoomed, history, Elsewhere
    <2>2. /\ Moves(p, "find_doomed", Ordinary \cup {"unset_children", "delete_row"})
          /\ request'[p] # None /\ request'[p].at \in {"unset_children", "delete_row"}
                => Subject(p) \notin Text
        BY <1>0, <1>6, DeletingMoves
    <2>3. request'[p] # None => request'[p].channel = Subject(p)
        BY <2>2 DEF Moves, Takes, Subject
    <2> QED BY <2>1, <2>2, <2>3, TextKept
<1>7. CASE UnsetChildren(p)
    <2>1. Text' = Text /\ last_two' = last_two
        BY <1>0, <1>7, TextEffects DEF UnsetChildren, history
    <2>2. Moves(p, "unset_children", Ordinary \cup {"delete_row"})
        BY <1>0, <1>7, DeletingMoves
    <2>3. Subject(p) \notin Text
        BY <1>7 DEF UnsetChildren, TextStays
    <2>4. request'[p] # None => request'[p].channel = Subject(p)
        BY <2>2 DEF Moves, Takes, Subject
    <2> QED BY <2>1, <2>2, <2>3, <2>4, TextKept
<1>8. CASE ClearOverrides(p) \/ ReplaceOverrides(p)
    <2>1. Text' = Text /\ last_two' = last_two
        BY <1>0, <1>8, TextEffects DEF ClearOverrides, ReplaceOverrides, history, Elsewhere
    <2>2. {"unset_children", "delete_row"} \cap (Ordinary \cup {"replace_overrides"}) = {}
        BY <1>0
    <2>3. \E s, to : Moves(p, s, to) /\ {"unset_children", "delete_row"} \cap to = {}
        BY <1>0, <1>8, <2>2, ReplacingMoves
    <2> QED BY <1>1, <2>1, <2>3
<1>9. CASE \/ AddOverrides(p) \/ FindChannel(p) \/ UpdateRow(p) \/ MoveEach(p)
           \/ UpsertOverride(p) \/ DeleteOverride(p) \/ FindSource(p) \/ InsertWebhook(p)
           \/ FindWebhook(p) \/ MoveWebhook(p) \/ DropWebhook(p)
    <2>1. Ordinarily(p)
        BY <1>0, <1>9, OrdinaryMoves
    <2>2. Text' = Text
        BY <1>0, <1>9, TextEffects DEF Elsewhere
    <2>3. last_two' = last_two
        BY <1>9 DEF AddOverrides, FindChannel, UpdateRow, MoveEach, UpsertOverride,
               DeleteOverride, FindSource, InsertWebhook, FindWebhook, MoveWebhook, DropWebhook,
               Check, history
    <2> QED BY <1>0, <1>1, <2>1, <2>2, <2>3 DEF Ordinarily
<1>10. CASE CountText(p)
    BY <1>10, CountTextStep
<1>11. CASE DeleteRow(p)
    BY <1>11, DeleteRowStep
<1> QED
    BY <1>2, <1>3, <1>4, <1>5, <1>6, <1>7, <1>8, <1>9, <1>10, <1>11 DEF StepOf, Elsewhere

-----------------------------------------------------------------------------
(* The limits on channels and on children.                                 *)

(* The sets that are counted are finite.                                   *)
LEMMA Finite ==
    /\ IsFiniteSet(Slots) /\ Cardinality(Slots) \in Nat
    /\ \A S \in SUBSET Channels : IsFiniteSet(S) /\ Cardinality(S) \in Nat
    /\ \A S \in SUBSET Slots :
          IsFiniteSet(S) /\ Cardinality(S) \in Nat /\ Cardinality(S) <= Cardinality(Slots)
    /\ MaxChannels \in Nat \ {0} /\ MaxChildren \in Nat \ {0}
BY ConstantsAssumption, FS_Subset, FS_CardinalityType

(* A set that has lost nothing but members is no larger.                   *)
LEMMA NoLarger ==
    ASSUME NEW S, NEW T \in SUBSET S, IsFiniteSet(S)
    PROVE  Cardinality(T) <= Cardinality(S)
BY FS_Subset

(* The children after each step, and the requests that are about to make   *)
(* one, for a step that counts no channel in and inserts none.             *)
LEMMA RoomKept ==
    ASSUME TypeInv, RoomLeft, NEW p \in Slots,
           Existing' \subseteq Existing, Counted' \subseteq Counted,
           rehung => rehung',
           ~rehung' => \A c \in Existing' :
              Children(c)' \subseteq Children(c) /\ Born(c)' \subseteq Born(c)
    PROVE  RoomLeft'
<1>1. Existing \subseteq Channels /\ Counted \subseteq Slots
    BY DEF Existing, Counted
<1>2. /\ Cardinality(Existing') <= Cardinality(Existing)
      /\ Cardinality(Counted') <= Cardinality(Counted)
      /\ Cardinality(Existing) \in Nat /\ Cardinality(Existing') \in Nat
      /\ Cardinality(Counted) \in Nat /\ Cardinality(Counted') \in Nat
    <2>1. Existing' \in SUBSET Channels /\ Counted' \in SUBSET Slots
        BY <1>1
    <2> QED BY <1>1, <2>1, Finite, NoLarger
<1>3. Cardinality(Existing') + Cardinality(Counted') < MaxChannels + Cardinality(Slots)
    BY <1>2, Finite DEF RoomLeft
<1>4. ASSUME ~rehung', NEW c \in Existing'
      PROVE  Cardinality(Children(c)') + Cardinality(Born(c)') < MaxChildren + Cardinality(Slots)
    <2>1. Children(c) \subseteq Channels /\ Born(c) \subseteq Slots
        BY DEF Existing, Children, Born
    <2>2. Children(c)' \subseteq Children(c) /\ Born(c)' \subseteq Born(c)
        BY <1>4
    <2>3. Children(c)' \in SUBSET Channels /\ Born(c)' \in SUBSET Slots
        BY <2>1, <2>2
    <2>4. /\ Cardinality(Children(c)') <= Cardinality(Children(c))
          /\ Cardinality(Born(c)') <= Cardinality(Born(c))
          /\ Cardinality(Children(c)) \in Nat /\ Cardinality(Children(c)') \in Nat
          /\ Cardinality(Born(c)) \in Nat /\ Cardinality(Born(c)') \in Nat
        BY <2>1, <2>2, <2>3, Finite, NoLarger
    <2>5. Cardinality(Children(c)) + Cardinality(Born(c)) < MaxChildren + Cardinality(Slots)
        BY <1>4 DEF RoomLeft
    <2> QED BY <2>4, <2>5, Finite
<1>5. ~rehung' => \A c \in Existing' :
         Cardinality(Children(c)') + Cardinality(Born(c)') < MaxChildren + Cardinality(Slots)
    BY <1>4
<1> QED BY <1>3, <1>5 DEF RoomLeft

(* The statements between the count of channels and the insertion.         *)
Counting == {"parent_is_category", "count_children", "insert_channel"}

(* The requests that have been counted, after a move to other statements.  *)
LEMMA CountedKept ==
    ASSUME NEW p \in Slots, NEW s, NEW to, Moves(p, s, to) \/ Begins(p),
           Begins(p) \/ to \cap Counting = {}
    PROVE  Counted' \subseteq Counted /\ \A c : Born(c)' \subseteq Born(c)
<1>1. /\ \A q \in Slots \ {p} : request'[q] = request[q]
      /\ request'[p] # None => request'[p].at \notin Counting
    BY DEF Moves, Takes, Begins, Ordinary, Counting
<1>2. Counted' \subseteq Counted
    BY <1>1 DEF Counted, AtOneOf, Counting
<1>3. ASSUME NEW c
      PROVE  Born(c)' \subseteq Born(c)
    BY <1>1 DEF Born, At, Parent, Counting
<1> QED BY <1>2, <1>3

(* The count of channels leaves room for the requests that are past it.    *)
LEMMA CountChannelsRoom ==
    ASSUME TypeInv, RoomLeft, NEW p \in Slots, CountChannels(p)
    PROVE  RoomLeft'
<1>0. RequestsOK /\ Existing \subseteq Channels
    BY TypeInvParts DEF Existing
<1>1. /\ Moves(p, "count_channels", Ordinary \cup {"insert_channel", "parent_is_category"})
      /\ request'[p] # None => Room(Cardinality(Existing), MaxChannels)
      /\ request'[p] # None /\ request'[p].at = "insert_channel" => Parent(p) = None
    BY <1>0, CountingMoves
<1>2. /\ UNCHANGED channels /\ UNCHANGED rehung
      /\ \A q \in Slots \ {p} : request'[q] = request[q]
      /\ request'[p] # None => request'[p].parent = request[p].parent
    BY <1>1 DEF CountChannels, rows, history, Moves, Takes, Same
<1>3. Existing' = Existing /\ \A c : Children(c)' = Children(c)
    BY <1>2 DEF Existing, Children
<1>4. \A c \in Existing : Born(c)' \subseteq Born(c)
    <2>1. None \notin Existing
        BY <1>0, ConstantsAssumption
    <2> QED BY <1>1, <1>2, <2>1 DEF Born, At, Parent
<1>5. CASE request'[p] = None
    <2>1. Counted' \subseteq Counted
        BY <1>2, <1>5 DEF Counted, AtOneOf
    <2> QED BY <1>2, <1>3, <1>4, <2>1, RoomKept
<1>6. CASE request'[p] # None
    <2>1. Cardinality(Existing) < MaxChannels
        BY <1>1, <1>6 DEF Room
    <2>2. Counted' \in SUBSET Slots
        BY DEF Counted
    <2>3. Cardinality(Existing') + Cardinality(Counted') < MaxChannels + Cardinality(Slots)
        BY <1>0, <1>3, <2>1, <2>2, Finite
    <2>4. ASSUME ~rehung', NEW c \in Existing'
          PROVE  Cardinality(Children(c)') + Cardinality(Born(c)')
                    < MaxChildren + Cardinality(Slots)
        <3>1. Born(c) \in SUBSET Slots /\ Born(c)' \in SUBSET Born(c)
            BY <1>3, <1>4, <2>4 DEF Born
        <3>2. Born(c)' \in SUBSET Slots /\ Children(c) \in SUBSET Channels
            BY <3>1 DEF Children, Existing
        <3>3. Cardinality(Born(c)') <= Cardinality(Born(c))
            BY <3>1, Finite, NoLarger
        <3>4. Cardinality(Children(c)) + Cardinality(Born(c)) < MaxChildren + Cardinality(Slots)
            BY <1>2, <1>3, <2>4 DEF RoomLeft
        <3> QED BY <1>3, <3>1, <3>2, <3>3, <3>4, Finite
    <2> QED BY <2>3, <2>4 DEF RoomLeft
<1> QED BY <1>5, <1>6

(* The count of children leaves room for the requests that are past it.    *)
LEMMA CountChildrenRoom ==
    ASSUME TypeInv, RoomLeft, NEW p \in Slots, CountChildren(p)
    PROVE  RoomLeft'
<1> DEFINE d == Parent(p)
<1>0. RequestsOK /\ Existing \subseteq Channels
    BY TypeInvParts DEF Existing
<1>1. /\ Moves(p, "count_children", Ordinary \cup {"insert_channel"})
      /\ request'[p] # None => Room(Cardinality(Children(d)), MaxChildren)
    BY <1>0, CountingMoves
<1>2. /\ UNCHANGED channels /\ UNCHANGED rehung
      /\ \A q \in Slots \ {p} : request'[q] = request[q]
      /\ request'[p] # None => request'[p].parent = request[p].parent
      /\ request[p] # None /\ request[p].at = "count_children"
    BY <1>1 DEF CountChildren, Check, rows, history, Moves, Takes, Same
<1>3. Existing' = Existing /\ \A c : Children(c)' = Children(c)
    BY <1>2 DEF Existing, Children
<1>4. /\ \A c : c # d => Born(c)' \subseteq Born(c)
      /\ Counted' \subseteq Counted
    <2>1. \A c : c # d => Born(c)' \subseteq Born(c)
        BY <1>2 DEF Born, At, Parent
    <2>2. Counted' \subseteq Counted
        BY <1>2 DEF Counted, AtOneOf
    <2> QED BY <2>1, <2>2
<1>5. CASE request'[p] = None
    <2>1. \A c : Born(c)' \subseteq Born(c)
        BY <1>2, <1>5 DEF Born, At, Parent
    <2> QED BY <1>2, <1>3, <1>4, <2>1, RoomKept
<1>6. CASE request'[p] # None
    <2>1. Cardinality(Children(d)) < MaxChildren
        BY <1>1, <1>6 DEF Room
    <2>2. /\ Counted \in SUBSET Slots /\ Counted' \in SUBSET Slots
          /\ Cardinality(Counted') <= Cardinality(Counted)
        BY <1>4, Finite, NoLarger DEF Counted
    <2>3. Cardinality(Existing') + Cardinality(Counted') < MaxChannels + Cardinality(Slots)
        BY <1>0, <1>3, <2>2, Finite DEF RoomLeft
    <2>4. ASSUME ~rehung', NEW c \in Existing'
          PROVE  Cardinality(Children(c)') + Cardinality(Born(c)')
                    < MaxChildren + Cardinality(Slots)
        <3>1. /\ Born(c) \in SUBSET Slots /\ Born(c)' \in SUBSET Slots
              /\ Children(c) \in SUBSET Channels
            BY DEF Born, Children, Existing
        <3>2. CASE c = d
            BY <1>3, <2>1, <3>1, <3>2, Finite
        <3>3. CASE c # d
            <4>1. Cardinality(Born(c)') <= Cardinality(Born(c))
                BY <1>4, <3>1, <3>3, Finite, NoLarger
            <4>2. Cardinality(Children(c)) + Cardinality(Born(c))
                     < MaxChildren + Cardinality(Slots)
                BY <1>2, <1>3, <2>4 DEF RoomLeft
            <4> QED BY <1>3, <3>1, <4>1, <4>2, Finite
        <3> QED BY <3>2, <3>3
    <2> QED BY <2>3, <2>4 DEF RoomLeft
<1> QED BY <1>5, <1>6

(* The new channel takes the place of the request that was counted for it. *)
LEMMA InsertRoom ==
    ASSUME TypeInv, RoomLeft, NEW p \in Slots, NEW c \in Channels, Inserts(p, c),
           rehung' = rehung
    PROVE  RoomLeft'
<1>0. RequestsOK /\ ChannelsOK /\ Existing \subseteq Channels
    BY TypeInvParts DEF Existing
<1> DEFINE row == [type |-> request[p].type, parent |-> Parent(p)]
<1>1. /\ channels' = [channels EXCEPT ![c] = row] /\ row \in Row /\ row # None
      /\ c \notin Existing /\ Parent(p) \in Existing \cup {None}
      /\ row.parent = Parent(p)
      /\ \A q \in Slots : request[q] # None => c # Parent(q)
    BY NoneAssumption DEF Inserts
<1>2. /\ \A q \in Slots \ {p} : request'[q] = request[q]
      /\ request'[p] # None => request'[p].at \in Ordinary
      /\ request[p] # None /\ request[p].at = "insert_channel"
    BY DEF Inserts, Moves, Takes
<1> HIDE DEF row
<1>3. channels'[c] = row /\ \A d \in Channels \ {c} : channels'[d] = channels[d]
    BY <1>0, <1>1 DEF ChannelsOK
<1>4. Existing' = Existing \cup {c}
    BY <1>1, <1>3 DEF Existing
<1>5. Counted' \subseteq Counted \ {p} /\ p \in Counted
    BY <1>2 DEF Counted, AtOneOf, Ordinary
<1>6. \A d : Born(d)' \subseteq Born(d) \ {p}
    BY <1>2 DEF Born, At, Parent, Ordinary
<1>7. ASSUME NEW d \in Existing
      PROVE  Children(d)' \subseteq IF d = Parent(p) THEN Children(d) \cup {c} ELSE Children(d)
    BY <1>0, <1>1, <1>3, <1>4 DEF Children, Existing
<1>8. Children(c)' = {} /\ Born(c)' = {}
    <2>1. c # None
        BY ConstantsAssumption
    <2>2. Children(c)' = {}
        BY <1>0, <1>1, <1>3, <1>4, <2>1 DEF Children, ChannelsOK, Existing
    <2>3. Born(c) = {}
        BY <1>1 DEF Born, At, Parent
    <2>4. Born(c)' = {}
        BY <1>6, <2>3
    <2> QED BY <2>2, <2>4
<1>9. Cardinality(Existing') + Cardinality(Counted') < MaxChannels + Cardinality(Slots)
    <2>1. Counted \in SUBSET Slots /\ Counted' \in SUBSET Slots /\ Counted \ {p} \in SUBSET Slots
        BY DEF Counted
    <2>2. Cardinality(Existing') = Cardinality(Existing) + 1
        BY <1>0, <1>1, <1>4, Finite, FS_AddElement
    <2>3. Cardinality(Counted \ {p}) = Cardinality(Counted) - 1
        BY <1>5, <2>1, Finite, FS_RemoveElement
    <2>4. Cardinality(Counted') <= Cardinality(Counted \ {p})
        BY <1>5, <2>1, Finite, NoLarger
    <2>5. Cardinality(Existing) + Cardinality(Counted) < MaxChannels + Cardinality(Slots)
        BY DEF RoomLeft
    <2> QED BY <1>0, <2>1, <2>2, <2>3, <2>4, <2>5, Finite
<1>10. ASSUME ~rehung', NEW d \in Existing'
       PROVE  Cardinality(Children(d)') + Cardinality(Born(d)') < MaxChildren + Cardinality(Slots)
    <2>1. CASE d = c
        BY <1>8, <2>1, FS_EmptySet, Finite
    <2>2. CASE d # c
        <3>1. d \in Existing
            BY <1>4, <2>2
        <3>2. Cardinality(Children(d)) + Cardinality(Born(d)) < MaxChildren + Cardinality(Slots)
            BY <1>10, <3>1 DEF RoomLeft
        <3>3. /\ Born(d) \in SUBSET Slots /\ Born(d)' \in SUBSET Slots
              /\ Born(d) \ {p} \in SUBSET Slots
              /\ Children(d) \in SUBSET Channels /\ Children(d)' \in SUBSET Channels
              /\ Children(d) \cup {c} \in SUBSET Channels
            BY <1>0, <1>4 DEF Born, Children, Existing
        <3>4. CASE d # Parent(p)
            <4>1. Children(d)' \in SUBSET Children(d) /\ Born(d)' \in SUBSET Born(d)
                BY <1>6, <1>7, <3>1, <3>4
            <4>2. /\ Cardinality(Children(d)') <= Cardinality(Children(d))
                  /\ Cardinality(Born(d)') <= Cardinality(Born(d))
                BY <3>3, <4>1, Finite, NoLarger
            <4> QED BY <3>2, <3>3, <4>2, Finite
        <3>5. CASE d = Parent(p)
            <4>1. p \in Born(d) /\ c \notin Children(d)
                BY <1>1, <1>2, <3>5 DEF Born, At, Children
            <4>2. Cardinality(Children(d) \cup {c}) = Cardinality(Children(d)) + 1
                BY <3>3, <4>1, Finite, FS_AddElement
            <4>3. Cardinality(Born(d) \ {p}) = Cardinality(Born(d)) - 1
                BY <3>3, <4>1, Finite, FS_RemoveElement
            <4>4. Cardinality(Children(d)') <= Cardinality(Children(d) \cup {c})
                BY <1>7, <3>1, <3>3, <3>5, Finite, NoLarger
            <4>5. Cardinality(Born(d)') <= Cardinality(Born(d) \ {p})
                BY <1>6, <3>3, Finite, NoLarger
            <4> QED BY <3>2, <3>3, <4>2, <4>3, <4>4, <4>5, Finite
        <3> QED BY <3>4, <3>5
    <2> QED BY <2>1, <2>2
<1>11. ~rehung' => \A d \in Existing' :
          Cardinality(Children(d)') + Cardinality(Born(d)') < MaxChildren + Cardinality(Slots)
    BY <1>10
<1> QED BY <1>9, <1>11 DEF RoomLeft

(* A channel that is hung under another sets the flag, one that is taken   *)
(* out of its category leaves room there.                                  *)
LEMMA HangRoom ==
    ASSUME ChannelsOK, NEW c, NEW parent \in Existing \cup {None}, Hang(c, parent)
    PROVE  /\ rehung => rehung'
           /\ ~rehung' => \A d \in Existing : Children(d)' \subseteq Children(d)
<1>1. rehung' = (rehung \/ parent # None)
    BY DEF Hang
<1>2. Existing' = Existing /\ Existing \subseteq Channels
    BY HangTypes DEF Existing
<1>3. ASSUME parent = None, NEW d \in Existing
      PROVE  Children(d)' \subseteq Children(d)
    <2>1. CASE c \notin Existing
        BY <1>2, <2>1 DEF Hang, Children
    <2>2. CASE c \in Existing
        <3>1. channels' = [channels EXCEPT ![c].parent = None] /\ channels[c] \in Row
            BY <1>2, <1>3, <2>2 DEF Hang, ChannelsOK, Existing
        <3>2. channels'[c].parent = None /\ \A e \in Channels \ {c} : channels'[e] = channels[e]
            BY <1>2, <2>2, <3>1 DEF ChannelsOK, Row
        <3>3. d # None
            BY <1>2, ConstantsAssumption
        <3> QED BY <1>2, <3>2, <3>3 DEF Children
    <2> QED BY <2>1, <2>2
<1> QED BY <1>1, <1>3

(* The children of the rest, when a channel has let go of its own.         *)
LEMMA UnhungRoom ==
    ASSUME ChannelsOK, NEW p \in Slots, UnsetChildren(p) \/ DeleteRow(p)
    PROVE  Existing' \subseteq Existing /\ \A d \in Existing' : Children(d)' \subseteq Children(d)
<1> DEFINE c == Subject(p)
           left == WithoutParent(c)
<1>1. /\ left \in [Channels -> Row \cup {None}]
      /\ \A d \in Channels : left[d] = None <=> channels[d] = None
      /\ \A d \in Existing :
            left[d].parent = IF channels[d].parent = c THEN None ELSE channels[d].parent
    BY WithoutParentTypes
<1>2. channels' = left \/ channels' = [left EXCEPT ![c] = None]
    BY DEF UnsetChildren, DeleteRow, Unhung
<1> HIDE DEF left, c
<1>3. \A d \in Channels : channels'[d] = left[d] \/ channels'[d] = None
    BY <1>1, <1>2
<1>4. /\ Existing' \subseteq Existing /\ Existing \subseteq Channels
      /\ \A d \in Existing' : channels'[d] = left[d]
    BY <1>1, <1>3 DEF Existing
<1>5. \A d \in Existing' : d # None
    BY <1>4, ConstantsAssumption
<1>6. \A d \in Existing' : Children(d)' \subseteq Children(d)
    BY <1>1, <1>4, <1>5 DEF Children
<1> QED BY <1>4, <1>6

(* The room left after each step.                                          *)
LEMMA RoomStep ==
    ASSUME TypeInv, RoomLeft, NEW p \in Slots, StepOf(p)
    PROVE  RoomLeft'
<1>0. /\ RequestsOK /\ ChannelsOK /\ overrides \in [Channels -> SUBSET Targets]
      /\ Ordinary \cap Counting = {}
    BY TypeInvParts DEF OverridesOK, Ordinary, Counting
<1>1. ASSUME UNCHANGED <<channels, rehung>>,
             \/ Begins(p)
             \/ \E s, to : Moves(p, s, to) /\ to \cap Counting = {}
      PROVE  RoomLeft'
    <2>1. Counted' \subseteq Counted /\ \A c : Born(c)' \subseteq Born(c)
        BY <1>1, CountedKept
    <2>2. Existing' = Existing /\ \A c : Children(c)' = Children(c)
        BY <1>1 DEF Existing, Children
    <2> QED BY <1>1, <2>1, <2>2, RoomKept
<1>2. CASE Start(p)
    <2>1. Begins(p) /\ UNCHANGED <<channels, rehung>>
        BY <1>0, <1>2, Starting DEF Start, rows, history
    <2> QED BY <1>1, <2>1
<1>3. CASE Fail(p)
    <2>1. Moves(p, request[p].at, Ordinary) /\ UNCHANGED <<channels, rehung>>
        BY <1>0, <1>3, Failing DEF Fail, rows, history
    <2> QED BY <1>0, <1>1, <2>1
<1>4. CASE CountChannels(p)
    BY <1>4, CountChannelsRoom
<1>5. CASE CountChildren(p)
    BY <1>5, CountChildrenRoom
<1>6. CASE ParentIsCategory(p)
    <2>1. /\ Moves(p, "parent_is_category", Ordinary \cup {"count_children"})
          /\ UNCHANGED <<channels, rehung>>
        BY <1>0, <1>6, CountingMoves DEF ParentIsCategory, Check, rows, history
    <2>2. /\ \A q \in Slots \ {p} : request'[q] = request[q]
          /\ request'[p] # None => request'[p].at # "insert_channel"
          /\ request[p] # None /\ request[p].at = "parent_is_category"
        BY <1>0, <2>1 DEF Moves, Takes, Counting
    <2>3. Counted' \subseteq Counted
        BY <2>2 DEF Counted, AtOneOf
    <2>4. \A c : Born(c)' \subseteq Born(c)
        BY <2>2 DEF Born, At, Parent
    <2>5. Existing' = Existing /\ \A c : Children(c)' = Children(c)
        BY <2>1 DEF Existing, Children
    <2> QED BY <2>1, <2>3, <2>4, <2>5, RoomKept
<1>7. CASE InsertChannel(p)
    <2>1. rehung' = rehung
        BY <1>7 DEF InsertChannel, history
    <2>2. CASE \E c \in Channels : Inserts(p, c)
        BY <2>1, <2>2, InsertRoom
    <2>3. CASE Moves(p, "insert_channel", Ordinary) /\ UNCHANGED channels
        BY <1>0, <1>1, <2>1, <2>3
    <2> QED BY <1>0, <1>7, <2>2, <2>3, InsertChannelMoves
<1>8. CASE UpdateRow(p) \/ MoveEach(p)
    <2>1. Ordinarily(p)
        BY <1>0, <1>8, OrdinaryMoves
    <2>2. Counted' \subseteq Counted /\ \A c : Born(c)' \subseteq Born(c)
        BY <1>0, <2>1, CountedKept DEF Ordinarily
    <2>3. CASE UNCHANGED <<channels, rehung>>
        BY <1>0, <1>1, <2>1, <2>3 DEF Ordinarily
    <2>4. CASE \E c : \E parent \in Existing \cup {None} : Hang(c, parent)
        <3>1. /\ rehung => rehung'
              /\ ~rehung' => \A d \in Existing : Children(d)' \subseteq Children(d)
            BY <1>0, <2>4, HangRoom
        <3>2. Existing' = Existing
            BY <1>0, <1>8, ChannelsTyped
        <3> QED BY <2>2, <3>1, <3>2, RoomKept
    <2> QED BY <1>8, <2>3, <2>4 DEF UpdateRow, MoveEach
<1>9. CASE UnsetChildren(p) \/ DeleteRow(p)
    <2>1. Existing' \subseteq Existing /\ \A d \in Existing' : Children(d)' \subseteq Children(d)
        BY <1>0, <1>9, UnhungRoom
    <2>2. rehung' = rehung
        BY <1>9 DEF UnsetChildren, DeleteRow, history
    <2>3. (Ordinary \cup {"delete_row"}) \cap Counting = {}
        BY <1>0 DEF Counting
    <2>4. Counted' \subseteq Counted /\ \A c : Born(c)' \subseteq Born(c)
        BY <1>0, <1>9, <2>3, DeletingMoves, CountedKept
    <2> QED BY <2>1, <2>2, <2>4, RoomKept
<1>10. CASE FindDoomed(p) \/ CountText(p)
    <2>1. UNCHANGED <<channels, rehung>>
        BY <1>10 DEF FindDoomed, CountText, rows, history
    <2>2. /\ (Ordinary \cup {"unset_children", "delete_row"}) \cap Counting = {}
          /\ (Ordinary \cup {"delete_row"}) \cap Counting = {}
        BY <1>0 DEF Counting
    <2> QED BY <1>0, <1>1, <1>10, <2>1, <2>2, DeletingMoves, CountingMoves
<1>11. CASE ClearOverrides(p) \/ ReplaceOverrides(p)
    <2>1. UNCHANGED <<channels, rehung>>
        BY <1>11 DEF ClearOverrides, ReplaceOverrides, rows, history
    <2>2. (Ordinary \cup {"replace_overrides"}) \cap Counting = {}
        BY <1>0 DEF Counting
    <2> QED BY <1>0, <1>1, <1>11, <2>1, <2>2, ReplacingMoves
<1>12. CASE \/ AddOverrides(p) \/ FindChannel(p) \/ UpsertOverride(p) \/ DeleteOverride(p)
            \/ FindSource(p) \/ InsertWebhook(p) \/ FindWebhook(p) \/ MoveWebhook(p)
            \/ DropWebhook(p)
    <2>1. Ordinarily(p)
        BY <1>0, <1>12, OrdinaryMoves
    <2>2. UNCHANGED <<channels, rehung>>
        BY <1>12 DEF AddOverrides, FindChannel, UpsertOverride, DeleteOverride, FindSource,
               InsertWebhook, FindWebhook, MoveWebhook, DropWebhook, Check, rows, history
    <2> QED BY <1>0, <1>1, <2>1, <2>2 DEF Ordinarily
<1> QED
    BY <1>2, <1>3, <1>4, <1>5, <1>6, <1>7, <1>8, <1>9, <1>10, <1>11, <1>12 DEF StepOf, Elsewhere

-----------------------------------------------------------------------------
(* The theorems.                                                           *)

(* A server begins with a text channel and a category; every other table   *)
(* is empty, and so is every slot.                                         *)
LEMMA InitTree ==
    ASSUME Init
    PROVE  TreeInv
<1>1. PICK general, category \in Channels : \E parent \in {category, None} :
         /\ general # category
         /\ channels = [c \in Channels |->
               CASE c = category -> [type |-> "category", parent |-> None]
                 [] c = general  -> [type |-> "text", parent |-> parent]
                 [] OTHER        -> None]
    BY DEF Init
<1>2. PICK parent \in {category, None} :
         /\ general # category
         /\ channels = [c \in Channels |->
               CASE c = category -> [type |-> "category", parent |-> None]
                 [] c = general  -> [type |-> "text", parent |-> parent]
                 [] OTHER        -> None]
    BY <1>1
<1>3. /\ [type |-> "category", parent |-> None] \in Row
      /\ [type |-> "text", parent |-> parent] \in Row
    BY DEF Row, Types
<1>4. /\ channels \in [Channels -> Row \cup {None}]
      /\ channels[category] = [type |-> "category", parent |-> None]
      /\ channels[general] = [type |-> "text", parent |-> parent]
      /\ \A c \in Channels \ {general, category} : channels[c] = None
    BY <1>2, <1>3
<1>5. Existing = {general, category}
    BY <1>3, <1>4, NoneAssumption DEF Existing
<1>6. Text = {general}
    BY <1>4, <1>5 DEF Text
<1>7. /\ \A p \in Slots : request[p] = None
      /\ request \in [Slots -> Request \cup {None}]
      /\ overrides = [c \in Channels |-> {}] /\ intended = overrides /\ mixed = {}
      /\ webhooks = [w \in Webhooks |-> None]
      /\ rehung = FALSE /\ last_two = FALSE /\ started = 0 /\ failures = 0
    BY DEF Init
<1>8. TypeInv
    <2>1. RequestsOK
        BY <1>7 DEF RequestsOK
    <2>2. ChannelsOK
        BY <1>2, <1>4, <1>5 DEF ChannelsOK
    <2>3. OverridesOK /\ WebhooksOK
        BY <1>7 DEF OverridesOK, WebhooksOK
    <2>4. HistoryOK
        <3>1. MaxRequests \in Nat /\ MaxFailures \in Nat
            BY ConstantsAssumption
        <3>2. intended \in [Channels -> SUBSET Targets]
            BY <1>7
        <3>3. started \in 0 .. MaxRequests /\ failures \in 0 .. MaxFailures
            BY <1>7, <3>1
        <3>4. mixed \subseteq Channels /\ rehung \in BOOLEAN /\ last_two \in BOOLEAN
            BY <1>7
        <3> QED BY <3>2, <3>3, <3>4 DEF HistoryOK
    <2> QED BY <2>1, <2>2, <2>3, <2>4, TypeInvParts
<1>9. OverridesSerial /\ AllSeen
    BY <1>7 DEF OverridesSerial, AllSeen, At
<1>10. TextStays
    BY <1>6, <1>7 DEF TextStays, Doomed, At
<1>11. RoomLeft
    <2>1. Counted = {} /\ \A c : Born(c) = {}
        BY <1>7 DEF Counted, Born, At, AtOneOf
    <2>2. Cardinality(Existing) = 2
        <3>1. Existing = {general} \cup {category} /\ category \notin {general}
            BY <1>2, <1>5
        <3>2. IsFiniteSet({general}) /\ Cardinality({general}) = 1
            BY FS_Singleton
        <3>3. Cardinality({general} \cup {category}) = 1 + 1
            BY <3>1, <3>2, FS_AddElement
        <3> QED BY <3>1, <3>3
    <2>3. Cardinality(Slots) # 0
        BY ConstantsAssumption, FS_EmptySet
    <2>4. ASSUME NEW c \in Existing
          PROVE  Cardinality(Children(c)) <= 1 /\ Cardinality(Children(c)) \in Nat
        <3>1. Children(c) \subseteq {general}
            BY <1>4, <1>5, ConstantsAssumption DEF Children
        <3>2. IsFiniteSet({general}) /\ Cardinality({general}) = 1
            BY FS_Singleton
        <3> QED BY <3>1, <3>2, FS_Subset, FS_CardinalityType
    <2>5. MaxChannels \in Nat /\ MaxChannels >= 2
        BY ConstantsAssumption
    <2>6. Cardinality(Existing) + Cardinality(Counted) < MaxChannels + Cardinality(Slots)
        BY <2>1, <2>2, <2>3, <2>5, Finite, FS_EmptySet
    <2>7. \A c \in Existing :
             Cardinality(Children(c)) + Cardinality(Born(c)) < MaxChildren + Cardinality(Slots)
        BY <2>1, <2>3, <2>4, Finite, FS_EmptySet
    <2> QED BY <2>6, <2>7 DEF RoomLeft
<1> QED BY <1>8, <1>9, <1>10, <1>11 DEF TreeInv

(* A step that changes nothing.                                            *)
LEMMA StutteringTree ==
    ASSUME TreeInv, UNCHANGED vars
    PROVE  TreeInv'
<1>1. /\ UNCHANGED <<channels, overrides, webhooks, request, intended, mixed, rehung, last_two,
                     started, failures>>
    BY DEF vars, rows, history, counters
<1>2. /\ Existing' = Existing /\ Text' = Text /\ Counted' = Counted /\ Doomed' = Doomed
      /\ \A c : Children(c)' = Children(c) /\ Born(c)' = Born(c)
    BY <1>1 DEF Existing, Text, Counted, Doomed, Children, Born, At, AtOneOf, Subject, Parent
<1>3. TypeInv'
    BY <1>1, <1>2 DEF TreeInv, TypeInv, RequestsOK, TypeOK
<1>4. OverridesSerial' /\ AllSeen' /\ TextStays'
    BY <1>1, <1>2 DEF TreeInv, OverridesSerial, AllSeen, TextStays, At, Subject
<1>5. RoomLeft'
    BY <1>1, <1>2 DEF TreeInv, RoomLeft
<1> QED BY <1>3, <1>4, <1>5 DEF TreeInv

(* The inductive invariant of create_channel, update_channel,              *)
(* delete_channel, reorder_channels, the override handlers and the webhook *)
(* handlers, whatever their statements interleave with.                    *)
THEOREM TreeInvariant == Spec => []TreeInv
<1>1. Init => TreeInv
    BY InitTree
<1>2. TreeInv /\ [Next]_vars => TreeInv'
    <2> SUFFICES ASSUME TreeInv, [Next]_vars
                 PROVE  TreeInv'
        OBVIOUS
    <2>1. CASE UNCHANGED vars
        BY <2>1, StutteringTree
    <2>2. ASSUME NEW p \in Slots, StepOf(p)
          PROVE  TreeInv'
        <3>1. (TypeInv /\ OverridesSerial /\ AllSeen)'
            BY <2>2, TypeInvStep DEF TreeInv
        <3>2. TextStays' /\ RoomLeft'
            BY <2>2, TextStep, RoomStep DEF TreeInv
        <3> QED BY <3>1, <3>2 DEF TreeInv
    <2> QED BY <2>1, <2>2, NextSteps
<1> QED BY <1>1, <1>2, PTL DEF Spec

(* The rows of channels, overrides and webhooks stay consistent: a parent, *)
(* a channel with overrides and the channel of a webhook are there, which  *)
(* is what delete_channel's unhanging and the foreign keys are for.        *)
THEOREM TypeCorrect == Spec => []TypeOK
<1>1. TreeInv => TypeOK
    BY DEF TreeInv, TypeInv
<1> QED BY <1>1, TreeInvariant, PTL

(* create_channel's counts of channels and of children are exceeded by     *)
(* fewer than there are requests at once, and delete_channel's count       *)
(* leaves a text channel unless two deletions overlap.                     *)
THEOREM LimitsHold == Spec => []LimitsWithinReach
<1>1. TreeInv => LimitsWithinReach
    <2> SUFFICES ASSUME TreeInv
                 PROVE  LimitsWithinReach
        OBVIOUS
    <2>1. Existing \in SUBSET Channels /\ Counted \in SUBSET Slots
        BY DEF Existing, Counted
    <2>2. Cardinality(Existing) < MaxChannels + Cardinality(Slots)
        BY <2>1, Finite DEF TreeInv, RoomLeft
    <2>3. ASSUME ~rehung, NEW c \in Existing
          PROVE  Cardinality(Children(c)) < MaxChildren + Cardinality(Slots)
        <3>1. Children(c) \in SUBSET Channels /\ Born(c) \in SUBSET Slots
            BY <2>1 DEF Children, Born
        <3>2. Cardinality(Children(c)) + Cardinality(Born(c)) < MaxChildren + Cardinality(Slots)
            BY <2>3 DEF TreeInv, RoomLeft
        <3> QED BY <3>1, <3>2, Finite
    <2>4. ~last_two => Text # {}
        BY DEF TreeInv, TextStays
    <2> QED BY <2>2, <2>3, <2>4 DEF LimitsWithinReach
<1> QED BY <1>1, TreeInvariant, PTL

(* The overrides of a channel are what the requests of update_channel and  *)
(* of the override handlers ask for in the order they commit, unless a     *)
(* write has fallen into a replacement.                                    *)
THEOREM OverridesReplaced == Spec => []OverridesSerial
<1>1. TreeInv => OverridesSerial
    BY DEF TreeInv
<1> QED BY <1>1, TreeInvariant, PTL

-----------------------------------------------------------------------------
(* The inductive invariant.                                                *)

(* The map directs to the leader of a key as long as it leads, and to no   *)
(* other call unless that one was dropped.                                 *)
EntriesLed ==
    /\ \A c \in Callers : pc[c] \in Leading => in_flight[key[c]] = c
    /\ \A k \in Keys : in_flight[k] # Absent =>
          /\ key[in_flight[k]] = k
          /\ chan[in_flight[k]] = in_flight[k]
          /\ pc[in_flight[k]] \in Leading \/ outcome[in_flight[k]] = "cancelled"

(* A call has no channel before it has met the map; then it has that of a  *)
(* call of its own key, which made it.                                     *)
Unplaced == {"new", "redis", "limit", "lookup", "entry"}

ChannelsOfLeaders ==
    \A c \in Callers :
        /\ pc[c] \in Unplaced => chan[c] = Absent
        /\ chan[c] # Absent => chan[chan[c]] = chan[c] /\ key[chan[c]] = key[c]

(* A value is sent once it is final, by a leader that ends by returning    *)
(* it; a leader that is dropped has sent nothing and leaves its entry.     *)
SentByLeaders ==
    \A c \in Callers :
        /\ c \in sent => chan[c] = c /\ pc[c] \in {"remove", "done"}
        /\ pc[c] = "remove" => c \in sent
        /\ chan[c] = c =>
              /\ outcome[c] \in {"pending", "ok", "fetch_error", "cancelled"}
              /\ outcome[c] = "ok" => c \in sent
              /\ outcome[c] = "cancelled" => c \notin sent /\
                 in_flight[key[c]] = c

(* Whatever a call under way may still be answered with is at least as     *)
(* new as the version it is entitled to: the database's, the one in Redis, *)
(* those read by a fetch of its key, and the one sent on its channel.      *)
Holding == {"cache", "send", "remove"}

FloorsKept ==
    \A c \in Callers : pc[c] \notin {"new", "done"} =>
        /\ floor[c] <= db[key[c]]
        /\ cache[key[c]] # Absent => floor[c] <= cache[key[c]]
        /\ \A d \in Callers :
              key[d] = key[c] /\ pc[d] \in Holding => floor[c] <= val[d]
        /\ chan[c] # Absent /\ chan[c] \in sent => floor[c] <= val[chan[c]]

CoalescingInv ==
    DataTypeOK /\ EntriesLed /\ ChannelsOfLeaders /\ SentByLeaders

-----------------------------------------------------------------------------
(* Types.                                                                  *)

(* The calls begin with declared values, and no step leaves them.  That a  *)
(* follower is never its own leader rests on the map: an entry is that of  *)
(* a call which has a channel already.                                     *)
LEMMA TypeInit == DataInit => DataTypeOK
  BY DataAssumption DEF DataInit, DataTypeOK, Labels, Outcomes, Leading, Following

(* Every step keeps the types: whoever reads a value or a channel has one. *)
LEMMA TypeStep ==
    ASSUME DataTypeOK, EntriesLed, ChannelsOfLeaders, [DataNext]_data_vars
    PROVE  DataTypeOK'
  <1> USE DataAssumption DEF DataTypeOK, Labels, Outcomes, Leading, Following
  <1>1. ASSUME NEW c \in Callers, Call(c) PROVE DataTypeOK'
    BY <1>1 DEF Call, Goto
  <1>2. ASSUME NEW c \in Callers, GetCached(c) PROVE DataTypeOK'
    BY <1>2 DEF GetCached, Goto, Return, Fault
  <1>3. ASSUME NEW c \in Callers, CheckLimit(c) PROVE DataTypeOK'
    BY <1>3 DEF CheckLimit, Goto, Return
  <1>4. ASSUME NEW c \in Callers, Lookup(c) PROVE DataTypeOK'
    <2>1. in_flight[key[c]] # c
      BY <1>4 DEF Lookup, EntriesLed, ChannelsOfLeaders, Unplaced
    <2>2. early' \in [Callers -> BOOLEAN]
      <3>1. (in_flight[key[c]] \notin sent) \in BOOLEAN
        OBVIOUS
      <3>2. \A b \in BOOLEAN : [early EXCEPT ![c] = b] \in [Callers -> BOOLEAN]
        OBVIOUS
      <3>3. \/ early' = early
            \/ early' = [early EXCEPT ![c] = in_flight[key[c]] \notin sent]
        BY <1>4, Zenon DEF Lookup
      <3>4. early \in [Callers -> BOOLEAN]
        OBVIOUS
      <3>5. QED
        BY ONLY <3>1, <3>2, <3>3, <3>4, Zenon
    <2>3. QED
      BY <1>4, <2>1, <2>2 DEF Lookup, Goto
  <1>5. ASSUME NEW c \in Callers, Entry(c) PROVE DataTypeOK'
    <2>1. in_flight[key[c]] # c
      BY <1>5 DEF Entry, EntriesLed, ChannelsOfLeaders, Unplaced
    <2>2. QED
      BY <1>5, <2>1 DEF Entry, Goto
  <1>6. ASSUME NEW c \in Callers, Subscribe(c) PROVE DataTypeOK'
    BY <1>6 DEF Subscribe, Goto
  <1>7. ASSUME NEW c \in Callers, Receive(c) PROVE DataTypeOK'
    BY <1>7 DEF Receive, Return, Goto
  <1>8. ASSUME NEW c \in Callers, Fetch(c) PROVE DataTypeOK'
    BY <1>8 DEF Fetch, Goto, Fault, Advance, LeaderSteps
  <1>9. ASSUME NEW c \in Callers, CacheSet(c) PROVE DataTypeOK'
    BY <1>9 DEF CacheSet, Goto, Fault, Advance, LeaderSteps
  <1>10. ASSUME NEW c \in Callers, Send(c) PROVE DataTypeOK'
    BY <1>10 DEF Send, Goto, Advance, LeaderSteps
  <1>11. ASSUME NEW c \in Callers, RemoveOk(c) PROVE DataTypeOK'
    BY <1>11 DEF RemoveOk, Goto, Advance, LeaderSteps
  <1>12. ASSUME NEW c \in Callers, RemoveErr(c) PROVE DataTypeOK'
    BY <1>12 DEF RemoveErr, Return, Goto
  <1>13. ASSUME NEW c \in Callers, Cancel(c) PROVE DataTypeOK'
    BY <1>13 DEF Cancel, Fault, Return, Goto
  <1>14. ASSUME NEW k \in Keys, Write(k) PROVE DataTypeOK'
    BY <1>14 DEF Write, calls
  <1>15. ASSUME NEW k \in Keys, Invalidate(k) PROVE DataTypeOK'
    BY <1>15 DEF Invalidate, calls
  <1>16. ASSUME NEW k \in Keys, ExpireCache(k) PROVE DataTypeOK'
    BY <1>16 DEF ExpireCache, calls
  <1>17. CASE UNCHANGED data_vars
    BY <1>17 DEF data_vars, calls
  <1>18. QED
    BY <1>1, <1>2, <1>3, <1>4, <1>5, <1>6, <1>7, <1>8, <1>9, <1>10, <1>11,
       <1>12, <1>13, <1>14, <1>15, <1>16, <1>17 DEF DataNext, Serve

-----------------------------------------------------------------------------
(* Who fetches.                                                            *)

(* An entry is made by a call that finds none and removed by the leader    *)
(* that ends.                                                              *)
LEMMA EntriesStep ==
    ASSUME DataTypeOK, EntriesLed, SentByLeaders, [DataNext]_data_vars
    PROVE  EntriesLed'
  <1> USE DataAssumption DEF DataTypeOK, Leading, Following, EntriesLed,
     SentByLeaders
  <1>1. ASSUME NEW c \in Callers, Call(c) PROVE EntriesLed'
    BY <1>1 DEF Call, Goto
  <1>2. ASSUME NEW c \in Callers, GetCached(c) PROVE EntriesLed'
    BY <1>2 DEF GetCached, Goto, Return, Fault
  <1>3. ASSUME NEW c \in Callers, CheckLimit(c) PROVE EntriesLed'
    BY <1>3 DEF CheckLimit, Goto, Return
  <1>4. ASSUME NEW c \in Callers, Lookup(c) PROVE EntriesLed'
    BY <1>4 DEF Lookup, Goto
  <1>5. ASSUME NEW c \in Callers, Entry(c) PROVE EntriesLed'
    BY <1>5 DEF Entry, Goto
  <1>6. ASSUME NEW c \in Callers, Subscribe(c) PROVE EntriesLed'
    BY <1>6 DEF Subscribe, Goto
  <1>7. ASSUME NEW c \in Callers, Receive(c) PROVE EntriesLed'
    BY <1>7 DEF Receive, Return, Goto
  <1>8. ASSUME NEW c \in Callers, Fetch(c) PROVE EntriesLed'
    BY <1>8 DEF Fetch, Goto, Fault, Advance, LeaderSteps
  <1>9. ASSUME NEW c \in Callers, CacheSet(c) PROVE EntriesLed'
    BY <1>9 DEF CacheSet, Goto, Fault, Advance, LeaderSteps
  <1>10. ASSUME NEW c \in Callers, Send(c) PROVE EntriesLed'
    BY <1>10 DEF Send, Goto, Advance, LeaderSteps
  <1>11. ASSUME NEW c \in Callers, RemoveOk(c) PROVE EntriesLed'
    BY <1>11 DEF RemoveOk, Goto, Advance, LeaderSteps
  <1>12. ASSUME NEW c \in Callers, RemoveErr(c) PROVE EntriesLed'
    BY <1>12 DEF RemoveErr, Return, Goto
  <1>13. ASSUME NEW c \in Callers, Cancel(c) PROVE EntriesLed'
    BY <1>13 DEF Cancel, Fault, Return, Goto
  <1>14. ASSUME NEW k \in Keys, Write(k) PROVE EntriesLed'
    BY <1>14 DEF Write, calls
  <1>15. ASSUME NEW k \in Keys, Invalidate(k) PROVE EntriesLed'
    BY <1>15 DEF Invalidate, calls
  <1>16. ASSUME NEW k \in Keys, ExpireCache(k) PROVE EntriesLed'
    BY <1>16 DEF ExpireCache, calls
  <1>17. CASE UNCHANGED data_vars
    BY <1>17 DEF data_vars, calls
  <1>18. QED
    BY <1>1, <1>2, <1>3, <1>4, <1>5, <1>6, <1>7, <1>8, <1>9, <1>10, <1>11,
       <1>12, <1>13, <1>14, <1>15, <1>16, <1>17 DEF DataNext, Serve

(* A call takes the channel it finds in the map, or makes its own.         *)
LEMMA ChannelsStep ==
    ASSUME DataTypeOK, EntriesLed, ChannelsOfLeaders, [DataNext]_data_vars
    PROVE  ChannelsOfLeaders'
  <1> USE DEF DataTypeOK, Leading, Following, EntriesLed, ChannelsOfLeaders,
     Unplaced
  <1>1. ASSUME NEW c \in Callers, Call(c) PROVE ChannelsOfLeaders'
    BY <1>1 DEF Call, Goto
  <1>2. ASSUME NEW c \in Callers, GetCached(c) PROVE ChannelsOfLeaders'
    BY <1>2 DEF GetCached, Goto, Return, Fault
  <1>3. ASSUME NEW c \in Callers, CheckLimit(c) PROVE ChannelsOfLeaders'
    BY <1>3 DEF CheckLimit, Goto, Return
  <1>4. ASSUME NEW c \in Callers, Lookup(c) PROVE ChannelsOfLeaders'
    BY <1>4 DEF Lookup, Goto
  <1>5. ASSUME NEW c \in Callers, Entry(c) PROVE ChannelsOfLeaders'
    BY <1>5 DEF Entry, Goto
  <1>6. ASSUME NEW c \in Callers, Subscribe(c) PROVE ChannelsOfLeaders'
    BY <1>6 DEF Subscribe, Goto
  <1>7. ASSUME NEW c \in Callers, Receive(c) PROVE ChannelsOfLeaders'
    BY <1>7 DEF Receive, Return, Goto
  <1>8. ASSUME NEW c \in Callers, Fetch(c) PROVE ChannelsOfLeaders'
    BY <1>8 DEF Fetch, Goto, Fault, Advance, LeaderSteps
  <1>9. ASSUME NEW c \in Callers, CacheSet(c) PROVE ChannelsOfLeaders'
    BY <1>9 DEF CacheSet, Goto, Fault, Advance, LeaderSteps
  <1>10. ASSUME NEW c \in Callers, Send(c) PROVE ChannelsOfLeaders'
    BY <1>10 DEF Send, Goto, Advance, LeaderSteps
  <1>11. ASSUME NEW c \in Callers, RemoveOk(c) PROVE ChannelsOfLeaders'
    BY <1>11 DEF RemoveOk, Goto, Advance, LeaderSteps
  <1>12. ASSUME NEW c \in Callers, RemoveErr(c) PROVE ChannelsOfLeaders'
    BY <1>12 DEF RemoveErr, Return, Goto
  <1>13. ASSUME NEW c \in Callers, Cancel(c) PROVE ChannelsOfLeaders'
    BY <1>13 DEF Cancel, Fault, Return, Goto
  <1>14. ASSUME NEW k \in Keys, Write(k) PROVE ChannelsOfLeaders'
    BY <1>14 DEF Write, calls
  <1>15. ASSUME NEW k \in Keys, Invalidate(k) PROVE ChannelsOfLeaders'
    BY <1>15 DEF Invalidate, calls
  <1>16. ASSUME NEW k \in Keys, ExpireCache(k) PROVE ChannelsOfLeaders'
    BY <1>16 DEF ExpireCache, calls
  <1>17. CASE UNCHANGED data_vars
    BY <1>17 DEF data_vars, calls
  <1>18. QED
    BY <1>1, <1>2, <1>3, <1>4, <1>5, <1>6, <1>7, <1>8, <1>9, <1>10, <1>11,
       <1>12, <1>13, <1>14, <1>15, <1>16, <1>17 DEF DataNext, Serve

(* Only RemoveOk and RemoveErr end a leader that is not dropped, and only   *)
(* the first after a send.                                                 *)
LEMMA SentStep ==
    ASSUME DataTypeOK, EntriesLed, ChannelsOfLeaders, SentByLeaders, [DataNext]_data_vars
    PROVE  SentByLeaders'
  <1> USE DataAssumption DEF DataTypeOK, Leading, Following, EntriesLed,
     ChannelsOfLeaders, Unplaced, SentByLeaders
  <1>1. ASSUME NEW c \in Callers, Call(c) PROVE SentByLeaders'
    BY <1>1 DEF Call, Goto
  <1>2. ASSUME NEW c \in Callers, GetCached(c) PROVE SentByLeaders'
    BY <1>2 DEF GetCached, Goto, Return, Fault
  <1>3. ASSUME NEW c \in Callers, CheckLimit(c) PROVE SentByLeaders'
    BY <1>3 DEF CheckLimit, Goto, Return
  <1>4. ASSUME NEW c \in Callers, Lookup(c) PROVE SentByLeaders'
    BY <1>4 DEF Lookup, Goto
  <1>5. ASSUME NEW c \in Callers, Entry(c) PROVE SentByLeaders'
    BY <1>5 DEF Entry, Goto
  <1>6. ASSUME NEW c \in Callers, Subscribe(c) PROVE SentByLeaders'
    BY <1>6 DEF Subscribe, Goto
  <1>7. ASSUME NEW c \in Callers, Receive(c) PROVE SentByLeaders'
    BY <1>7 DEF Receive, Return, Goto
  <1>8. ASSUME NEW c \in Callers, Fetch(c) PROVE SentByLeaders'
    BY <1>8 DEF Fetch, Goto, Fault, Advance, LeaderSteps
  <1>9. ASSUME NEW c \in Callers, CacheSet(c) PROVE SentByLeaders'
    BY <1>9 DEF CacheSet, Goto, Fault, Advance, LeaderSteps
  <1>10. ASSUME NEW c \in Callers, Send(c) PROVE SentByLeaders'
    BY <1>10 DEF Send, Goto, Advance, LeaderSteps
  <1>11. ASSUME NEW c \in Callers, RemoveOk(c) PROVE SentByLeaders'
    BY <1>11 DEF RemoveOk, Goto, Advance, LeaderSteps
  <1>12. ASSUME NEW c \in Callers, RemoveErr(c) PROVE SentByLeaders'
    BY <1>12 DEF RemoveErr, Return, Goto
  <1>13. ASSUME NEW c \in Callers, Cancel(c) PROVE SentByLeaders'
    BY <1>13 DEF Cancel, Fault, Return, Goto
  <1>14. ASSUME NEW k \in Keys, Write(k) PROVE SentByLeaders'
    BY <1>14 DEF Write, calls
  <1>15. ASSUME NEW k \in Keys, Invalidate(k) PROVE SentByLeaders'
    BY <1>15 DEF Invalidate, calls
  <1>16. ASSUME NEW k \in Keys, ExpireCache(k) PROVE SentByLeaders'
    BY <1>16 DEF ExpireCache, calls
  <1>17. CASE UNCHANGED data_vars
    BY <1>17 DEF data_vars, calls
  <1>18. QED
    BY <1>1, <1>2, <1>3, <1>4, <1>5, <1>6, <1>7, <1>8, <1>9, <1>10, <1>11,
       <1>12, <1>13, <1>14, <1>15, <1>16, <1>17 DEF DataNext, Serve

(* The parts together are inductive.                                       *)
LEMMA CoalescingInit == DataInit => CoalescingInv
  BY TypeInit, DataAssumption
  DEF DataInit, CoalescingInv, EntriesLed, ChannelsOfLeaders, SentByLeaders, Leading

(* The parts of the invariant together are kept by every step.             *)
LEMMA CoalescingStep == CoalescingInv /\ [DataNext]_data_vars => CoalescingInv'
  BY TypeStep, EntriesStep, ChannelsStep, SentStep DEF CoalescingInv

(* The declared types hold.                                                *)
THEOREM DataTypeCorrect == DataSpec => []DataTypeOK
  <1>1. CoalescingInv => DataTypeOK
    BY DEF CoalescingInv
  <1>2. QED
    BY <1>1, CoalescingInit, CoalescingStep, PTL DEF DataSpec

(* No two calls ever fetch the same key, whatever fails or is dropped, and *)
(* the map holds a fetch no longer than it lasts unless it was dropped.    *)
THEOREM FetchesOnce == DataSpec => []OneFetchPerKey
  <1>1. CoalescingInv => OneFetchPerKey
    BY DEF CoalescingInv, EntriesLed, OneFetchPerKey
  <1>2. QED
    BY <1>1, CoalescingInit, CoalescingStep, PTL DEF DataSpec

-----------------------------------------------------------------------------
(* What the followers are told.                                            *)

(* The value of a channel is final once sent, and an open channel is only  *)
(* closed unsent by a leader whose fetch failed: a dropped leader leaves    *)
(* its sender in the map.                                                  *)
LEMMA FollowersStep ==
    ASSUME DataTypeOK, EntriesLed, ChannelsOfLeaders, SentByLeaders,
           FollowersShareOutcome, [DataNext]_data_vars
    PROVE  FollowersShareOutcome'
  <1> USE DataAssumption DEF DataTypeOK, Leading, Following, EntriesLed,
     ChannelsOfLeaders, Unplaced,
                                  SentByLeaders, FollowersShareOutcome
  <1>1. ASSUME NEW c \in Callers, Call(c) PROVE FollowersShareOutcome'
    BY <1>1 DEF Call, Goto
  <1>2. ASSUME NEW c \in Callers, GetCached(c) PROVE FollowersShareOutcome'
    BY <1>2 DEF GetCached, Goto, Return, Fault
  <1>3. ASSUME NEW c \in Callers, CheckLimit(c) PROVE FollowersShareOutcome'
    BY <1>3 DEF CheckLimit, Goto, Return
  <1>4. ASSUME NEW c \in Callers, Lookup(c) PROVE FollowersShareOutcome'
    BY <1>4 DEF Lookup, Goto
  <1>5. ASSUME NEW c \in Callers, Entry(c) PROVE FollowersShareOutcome'
    BY <1>5 DEF Entry, Goto
  <1>6. ASSUME NEW c \in Callers, Subscribe(c) PROVE FollowersShareOutcome'
    BY <1>6 DEF Subscribe, Goto
  <1>7. ASSUME NEW c \in Callers, Receive(c) PROVE FollowersShareOutcome'
    BY <1>7 DEF Receive, Return, Goto, Closed
  <1>8. ASSUME NEW c \in Callers, Fetch(c) PROVE FollowersShareOutcome'
    BY <1>8 DEF Fetch, Goto, Fault, Advance, LeaderSteps
  <1>9. ASSUME NEW c \in Callers, CacheSet(c) PROVE FollowersShareOutcome'
    BY <1>9 DEF CacheSet, Goto, Fault, Advance, LeaderSteps
  <1>10. ASSUME NEW c \in Callers, Send(c) PROVE FollowersShareOutcome'
    BY <1>10 DEF Send, Goto, Advance, LeaderSteps
  <1>11. ASSUME NEW c \in Callers, RemoveOk(c) PROVE FollowersShareOutcome'
    BY <1>11 DEF RemoveOk, Goto, Advance, LeaderSteps
  <1>12. ASSUME NEW c \in Callers, RemoveErr(c) PROVE FollowersShareOutcome'
    BY <1>12 DEF RemoveErr, Return, Goto
  <1>13. ASSUME NEW c \in Callers, Cancel(c) PROVE FollowersShareOutcome'
    BY <1>13 DEF Cancel, Fault, Return, Goto
  <1>14. ASSUME NEW k \in Keys, Write(k) PROVE FollowersShareOutcome'
    BY <1>14 DEF Write, calls
  <1>15. ASSUME NEW k \in Keys, Invalidate(k) PROVE FollowersShareOutcome'
    BY <1>15 DEF Invalidate, calls
  <1>16. ASSUME NEW k \in Keys, ExpireCache(k) PROVE FollowersShareOutcome'
    BY <1>16 DEF ExpireCache, calls
  <1>17. CASE UNCHANGED data_vars
    BY <1>17 DEF data_vars, calls
  <1>18. QED
    BY <1>1, <1>2, <1>3, <1>4, <1>5, <1>6, <1>7, <1>8, <1>9, <1>10, <1>11,
       <1>12, <1>13, <1>14, <1>15, <1>16, <1>17 DEF DataNext, Serve

(* A follower that is answered has its leader's value, and is turned away  *)
(* only where the fetch failed or the value had been sent before it had    *)
(* subscribed.  Nothing is said of one that is not answered: a late one    *)
(* may wait for good (WaitersAnswered of DataService, which does not hold).*)
THEOREM FollowersToldTheSame == DataSpec => []FollowersShareOutcome
  <1> DEFINE FInv == CoalescingInv /\ FollowersShareOutcome
  <1>1. DataInit => FInv
    BY CoalescingInit, DataAssumption DEF DataInit, FollowersShareOutcome
  <1>2. FInv /\ [DataNext]_data_vars => FInv'
    BY CoalescingStep, FollowersStep DEF CoalescingInv
  <1>3. QED
    BY <1>1, <1>2, PTL DEF DataSpec

-----------------------------------------------------------------------------
(* How old an answer may be.                                               *)

(* A call is entitled to something only if no fetch of its key was under   *)
(* way when it began, so every value read since is new enough.             *)
LEMMA FloorsStep ==
    ASSUME DataTypeOK, EntriesLed, ChannelsOfLeaders, SentByLeaders, FloorsKept,
       [DataNext]_data_vars
    PROVE  FloorsKept'
  <1> USE DataAssumption DEF DataTypeOK, Leading, Following, EntriesLed,
     ChannelsOfLeaders, Unplaced,
                                  SentByLeaders, FloorsKept, Holding
  <1>1. ASSUME NEW c \in Callers, Call(c) PROVE FloorsKept'
    BY <1>1 DEF Call, Goto
  <1>2. ASSUME NEW c \in Callers, GetCached(c) PROVE FloorsKept'
    BY <1>2 DEF GetCached, Goto, Return, Fault
  <1>3. ASSUME NEW c \in Callers, CheckLimit(c) PROVE FloorsKept'
    BY <1>3 DEF CheckLimit, Goto, Return
  <1>4. ASSUME NEW c \in Callers, Lookup(c) PROVE FloorsKept'
    BY <1>4 DEF Lookup, Goto
  <1>5. ASSUME NEW c \in Callers, Entry(c) PROVE FloorsKept'
    BY <1>5 DEF Entry, Goto
  <1>6. ASSUME NEW c \in Callers, Subscribe(c) PROVE FloorsKept'
    BY <1>6 DEF Subscribe, Goto
  <1>7. ASSUME NEW c \in Callers, Receive(c) PROVE FloorsKept'
    BY <1>7 DEF Receive, Return, Goto
  <1>8. ASSUME NEW c \in Callers, Fetch(c) PROVE FloorsKept'
    BY <1>8 DEF Fetch, Goto, Fault, Advance, LeaderSteps
  <1>9. ASSUME NEW c \in Callers, CacheSet(c) PROVE FloorsKept'
    BY <1>9 DEF CacheSet, Goto, Fault, Advance, LeaderSteps
  <1>10. ASSUME NEW c \in Callers, Send(c) PROVE FloorsKept'
    BY <1>10 DEF Send, Goto, Advance, LeaderSteps
  <1>11. ASSUME NEW c \in Callers, RemoveOk(c) PROVE FloorsKept'
    BY <1>11 DEF RemoveOk, Goto, Advance, LeaderSteps
  <1>12. ASSUME NEW c \in Callers, RemoveErr(c) PROVE FloorsKept'
    BY <1>12 DEF RemoveErr, Return, Goto
  <1>13. ASSUME NEW c \in Callers, Cancel(c) PROVE FloorsKept'
    BY <1>13 DEF Cancel, Fault, Return, Goto
  <1>14. ASSUME NEW k \in Keys, Write(k) PROVE FloorsKept'
    BY <1>14 DEF Write, calls
  <1>15. ASSUME NEW k \in Keys, Invalidate(k) PROVE FloorsKept'
    BY <1>15 DEF Invalidate, calls
  <1>16. ASSUME NEW k \in Keys, ExpireCache(k) PROVE FloorsKept'
    BY <1>16 DEF ExpireCache, calls
  <1>17. CASE UNCHANGED data_vars
    BY <1>17 DEF data_vars, calls
  <1>18. QED
    BY <1>1, <1>2, <1>3, <1>4, <1>5, <1>6, <1>7, <1>8, <1>9, <1>10, <1>11,
       <1>12, <1>13, <1>14, <1>15, <1>16, <1>17 DEF DataNext, Serve

(* The version and the entitlement of a call do not change once answered.  *)
LEMMA AnswersStep ==
    ASSUME DataTypeOK, SentByLeaders, FloorsKept, NotOlderThanStart, [DataNext]_data_vars
    PROVE  NotOlderThanStart'
  <1> USE DEF DataTypeOK, Leading, Following, SentByLeaders, FloorsKept, Holding,
     NotOlderThanStart
  <1>1. ASSUME NEW c \in Callers, Call(c) PROVE NotOlderThanStart'
    BY <1>1 DEF Call, Goto
  <1>2. ASSUME NEW c \in Callers, GetCached(c) PROVE NotOlderThanStart'
    BY <1>2 DEF GetCached, Goto, Return, Fault
  <1>3. ASSUME NEW c \in Callers, CheckLimit(c) PROVE NotOlderThanStart'
    BY <1>3 DEF CheckLimit, Goto, Return
  <1>4. ASSUME NEW c \in Callers, Lookup(c) PROVE NotOlderThanStart'
    BY <1>4 DEF Lookup, Goto
  <1>5. ASSUME NEW c \in Callers, Entry(c) PROVE NotOlderThanStart'
    BY <1>5 DEF Entry, Goto
  <1>6. ASSUME NEW c \in Callers, Subscribe(c) PROVE NotOlderThanStart'
    BY <1>6 DEF Subscribe, Goto
  <1>7. ASSUME NEW c \in Callers, Receive(c) PROVE NotOlderThanStart'
    BY <1>7, DataAssumption DEF Receive, Return, Goto
  <1>8. ASSUME NEW c \in Callers, Fetch(c) PROVE NotOlderThanStart'
    BY <1>8 DEF Fetch, Goto, Fault, Advance, LeaderSteps
  <1>9. ASSUME NEW c \in Callers, CacheSet(c) PROVE NotOlderThanStart'
    BY <1>9 DEF CacheSet, Goto, Fault, Advance, LeaderSteps
  <1>10. ASSUME NEW c \in Callers, Send(c) PROVE NotOlderThanStart'
    BY <1>10 DEF Send, Goto, Advance, LeaderSteps
  <1>11. ASSUME NEW c \in Callers, RemoveOk(c) PROVE NotOlderThanStart'
    BY <1>11 DEF RemoveOk, Goto, Advance, LeaderSteps
  <1>12. ASSUME NEW c \in Callers, RemoveErr(c) PROVE NotOlderThanStart'
    BY <1>12 DEF RemoveErr, Return, Goto
  <1>13. ASSUME NEW c \in Callers, Cancel(c) PROVE NotOlderThanStart'
    BY <1>13 DEF Cancel, Fault, Return, Goto
  <1>14. ASSUME NEW k \in Keys, Write(k) PROVE NotOlderThanStart'
    BY <1>14 DEF Write, calls
  <1>15. ASSUME NEW k \in Keys, Invalidate(k) PROVE NotOlderThanStart'
    BY <1>15 DEF Invalidate, calls
  <1>16. ASSUME NEW k \in Keys, ExpireCache(k) PROVE NotOlderThanStart'
    BY <1>16 DEF ExpireCache, calls
  <1>17. CASE UNCHANGED data_vars
    BY <1>17 DEF data_vars, calls
  <1>18. QED
    BY <1>1, <1>2, <1>3, <1>4, <1>5, <1>6, <1>7, <1>8, <1>9, <1>10, <1>11,
       <1>12, <1>13, <1>14, <1>15, <1>16, <1>17 DEF DataNext, Serve

(* A call made while no fetch of its key is in flight and Redis holds      *)
(* nothing older than the database returns at least the version of then.   *)
THEOREM AnswersFresh == DataSpec => []NotOlderThanStart
  <1> DEFINE AInv == CoalescingInv /\ FloorsKept /\ NotOlderThanStart
  <1>1. DataInit => AInv
    BY CoalescingInit DEF DataInit, FloorsKept, NotOlderThanStart
  <1>2. AInv /\ [DataNext]_data_vars => AInv'
    BY CoalescingStep, FloorsStep, AnswersStep DEF CoalescingInv
  <1>3. QED
    BY <1>1, <1>2, PTL DEF DataSpec
=============================================================================
