----------------------------- MODULE ChannelTree -----------------------------
(***************************************************************************)
(* The channels of one server, the categories they hang under, their       *)
(* permission overrides and their webhooks, as the handlers of             *)
(* routes/channels.rs, the two override handlers of routes/roles.rs and    *)
(* the webhook handlers of routes/webhooks.rs change them in PostgreSQL.   *)
(*                                                                         *)
(* A handler is a sequence of SQL statements, given by the function named  *)
(* after it; a statement is an action and commits by itself, but for the   *)
(* replacement of a channel's overrides, which is one transaction.  A      *)
(* request that is refused for want of a permission changes nothing and is *)
(* left out, and so are names, topics, positions and the bits of an        *)
(* override: a channel is its type and its parent, an override its target, *)
(* a webhook the channel it posts to.  Posting is in MessagePipeline.      *)
(***************************************************************************)
EXTENDS Naturals, FiniteSets

CONSTANTS
    Slots,        \* places for requests being served at once
    Channels,     \* ids for the channels of the server
    Targets,      \* roles and members that overrides are for
    Webhooks,     \* ids for webhooks
    None,         \* absent: no request, no row, no parent
    MaxChannels,  \* 500 in the code
    MaxChildren,  \* 50 in the code
    MaxRequests,  \* bound on the requests started
    MaxFailures   \* bound on statements that end in an error

(* The limit on channels admits the two that Init begins with.             *)
ASSUME ConstantsAssumption ==
    /\ Slots # {} /\ IsFiniteSet(Slots) /\ IsFiniteSet(Channels)
    /\ None \notin Channels \cup Webhooks
    /\ MaxChannels \in Nat \ {0, 1} /\ MaxChildren \in Nat \ {0}
    /\ MaxRequests \in Nat /\ MaxFailures \in Nat

VARIABLES
    channels,   \* channels[c]: the row of channel c, or None
    overrides,  \* overrides[c]: targets with a row of permission_overrides
    webhooks,   \* webhooks[w]: the channel of webhook w, or None
    request,    \* request[p]: the request served in slot p, or None
    intended,   \* history: overrides, were each request served in one step
    mixed,      \* history: channels whose overrides were written while they
                \* were being replaced
    rehung,     \* history: a parent was set by update_channel or reorder_channels
    last_two,   \* history: two deletions of text channels overlapped
    started, failures

rows     == <<channels, overrides, webhooks>>
history  == <<intended, mixed, rehung, last_two>>
counters == <<started, failures>>
vars == <<rows, request, history, counters>>

-----------------------------------------------------------------------------
(* Deviations: what a plausible slip in the code would make of the         *)
(* definition each is named after.  Nothing below uses them; they show     *)
(* that the properties depend on what the code does.                       *)

(* text_count < 1.                                                         *)
OthersLeft_OffByOne(text_count) == text_count >= 1

(* New overrides are put beside the old ones.                              *)
update_overrides_KeepsOld ==
    [start             |-> "find_channel",
     find_channel      |-> "replace_overrides",
     replace_overrides |-> "end"]

(* The foreign key without ON DELETE SET NULL.                             *)
Unhung_NotAtAll(c) == [channels EXCEPT ![c] = None]

-----------------------------------------------------------------------------
(* The handlers: from each statement to the one after it.                  *)

create_channel ==
    [start              |-> "count_channels",
     count_channels     |-> "insert_channel",
     parent_is_category |-> "count_children",
     count_children     |-> "insert_channel",
     insert_channel     |-> "add_overrides",
     add_overrides      |-> "end"]

(* The UPDATE of the row; a request that has overrides too goes on with    *)
(* the transaction of update_overrides.                                    *)
update_channel ==
    [start        |-> "find_channel",
     find_channel |-> "update_row",
     update_row   |-> "end"]

update_overrides ==
    [start             |-> "find_channel",
     find_channel      |-> "clear_overrides",
     clear_overrides   |-> "replace_overrides",
     replace_overrides |-> "end"]

delete_channel ==
    [start          |-> "find_doomed",
     find_doomed    |-> "delete_row",
     count_text     |-> "delete_row",
     unset_children |-> "delete_row",
     delete_row     |-> "end"]

reorder_channels == [start |-> "move_each", move_each |-> "end"]

set_channel_override ==
    [start           |-> "find_channel",
     find_channel    |-> "upsert_override",
     upsert_override |-> "end"]

delete_channel_override ==
    [start           |-> "find_channel",
     find_channel    |-> "delete_override",
     delete_override |-> "end"]

(* follow_channel makes a webhook in the target for a source channel.      *)
create_webhook ==
    [start          |-> "find_channel",
     find_channel   |-> "insert_webhook",
     insert_webhook |-> "end"]

follow_channel ==
    [start          |-> "find_source",
     find_source    |-> "find_channel",
     find_channel   |-> "insert_webhook",
     insert_webhook |-> "end"]

(* With another channel_id; what is read again for the answer is left out. *)
update_webhook ==
    [start        |-> "find_webhook",
     find_webhook |-> "move_webhook",
     move_webhook |-> "end"]

delete_webhook ==
    [start        |-> "find_webhook",
     find_webhook |-> "drop_webhook",
     drop_webhook |-> "end"]

Handler ==
    [create_channel |-> create_channel, update_channel |-> update_channel,
     update_overrides |-> update_overrides, delete_channel |-> delete_channel,
     reorder_channels |-> reorder_channels, set_channel_override |-> set_channel_override,
     delete_channel_override |-> delete_channel_override,
     create_webhook |-> create_webhook, follow_channel |-> follow_channel,
     update_webhook |-> update_webhook, delete_webhook |-> delete_webhook]

Statements(op) == {Handler[op][s] : s \in DOMAIN Handler[op]} \cup DOMAIN Handler[op]

Types == {"text", "voice", "category", "announcement"}

Row == [type : Types, parent : Channels \cup {None}]

(* seen is what the DELETE of a replacement found, list are overrides, and *)
(* todo the entries of a body that reorders.                               *)
Request ==
    [op : DOMAIN Handler, at : UNION {Statements(op) : op \in DOMAIN Handler},
     seen : SUBSET Targets, type : Types \cup {None}, channel : Channels \cup {None},
     parent : Channels \cup {None}, list : SUBSET Targets, todo : SUBSET Channels,
     webhook : Webhooks \cup {None}]

ASSUME NoneAssumption == None \notin Row \cup Request

At(p, statement) == request[p] # None /\ request[p].at = statement

AtOneOf(p, statements) == request[p] # None /\ request[p].at \in statements

Subject(p) == request[p].channel
Parent(p)  == request[p].parent

After(r) ==
    LET next == Handler[r.op][r.at]
    IN  IF next = "end" THEN None ELSE [r EXCEPT !.at = next]

Proceed(p) == request' = [request EXCEPT ![p] = After(@)]

GoTo(p, statement) == request' = [request EXCEPT ![p].at = statement]

Refuse(p) == request' = [request EXCEPT ![p] = None]

(* A statement that only reads, and the test of what it returns.           *)
Check(p, statement, passes) ==
    /\ At(p, statement)
    /\ IF passes THEN Proceed(p) ELSE Refuse(p)
    /\ UNCHANGED <<rows, history, counters>>

Existing    == {c \in Channels : channels[c] # None}
Text        == {c \in Existing : channels[c].type = "text"}
Children(c) == {d \in Existing : channels[d].parent = c}

(* A text channel and a category, over it or beside it.                    *)
Init ==
    /\ \E general, category \in Channels : \E parent \in {category, None} :
          /\ general # category
          /\ channels = [c \in Channels |->
                CASE c = category -> [type |-> "category", parent |-> None]
                  [] c = general  -> [type |-> "text", parent |-> parent]
                  [] OTHER        -> None]
    /\ overrides = [c \in Channels |-> {}]
    /\ webhooks = [w \in Webhooks |-> None]
    /\ intended = overrides /\ mixed = {} /\ rehung = FALSE /\ last_two = FALSE
    /\ request = [p \in Slots |-> None]
    /\ started = 0 /\ failures = 0

-----------------------------------------------------------------------------
(* Creating a channel.                                                     *)

Room(count, limit) == count < limit

CountChannels(p) ==
    /\ At(p, "count_channels")
    /\ IF Room(Cardinality(Existing), MaxChannels)
       THEN IF Parent(p) = None THEN Proceed(p) ELSE GoTo(p, "parent_is_category")
       ELSE Refuse(p)
    /\ UNCHANGED <<rows, history, counters>>

ParentIsCategory(p) ==
    Check(p, "parent_is_category",
          Parent(p) \in Existing /\ channels[Parent(p)].type = "category")

CountChildren(p) ==
    Check(p, "count_children", Room(Cardinality(Children(Parent(p))), MaxChildren))

(* The foreign key refuses a parent that is gone.                          *)
InsertChannel(p) ==
    /\ At(p, "insert_channel")
    /\ IF Parent(p) \in Existing \cup {None}
       THEN \E c \in Channels \ Existing :
               /\ \A q \in Slots : request[q] # None => c \notin {Subject(q), Parent(q)}
               /\ channels' = [channels EXCEPT ![c] =
                      [type |-> request[p].type, parent |-> Parent(p)]]
               /\ request' = [request EXCEPT ![p] = After([@ EXCEPT !.channel = c])]
       ELSE Refuse(p) /\ UNCHANGED channels
    /\ UNCHANGED <<overrides, webhooks, history, counters>>

Replaces(p, c) == At(p, "replace_overrides") /\ Subject(p) = c

Mixes(p, c) == IF \E q \in Slots \ {p} : Replaces(q, c) THEN mixed \cup {c} ELSE mixed

(* The overrides a channel is created with, one INSERT after the other.    *)
AddOverrides(p) ==
    LET c == Subject(p)
    IN  /\ At(p, "add_overrides")
        /\ IF request[p].list = {}
           THEN Proceed(p) /\ UNCHANGED <<overrides, intended, mixed>>
           ELSE \E t \in request[p].list :
                   IF c \notin Existing \/ t \in overrides[c]
                   THEN Refuse(p) /\ UNCHANGED <<overrides, intended, mixed>>
                   ELSE /\ overrides' = [overrides EXCEPT ![c] = @ \cup {t}]
                        /\ intended' = [intended EXCEPT ![c] = @ \cup {t}]
                        /\ mixed' = Mixes(p, c)
                        /\ request' = [request EXCEPT ![p].list = @ \ {t}]
        /\ UNCHANGED <<channels, webhooks, rehung, last_two, counters>>

-----------------------------------------------------------------------------
(* Changing one.                                                           *)

FindChannel(p) == Check(p, "find_channel", Subject(p) \in Existing)

(* UPDATE ... SET parent_id: the key must exist, whatever it is of.        *)
Hang(c, parent) ==
    /\ channels' = IF c \in Existing THEN [channels EXCEPT ![c].parent = parent] ELSE channels
    /\ rehung' = (rehung \/ parent # None)

UpdateRow(p) ==
    /\ At(p, "update_row")
    /\ IF Parent(p) \in Existing \cup {None}
       THEN Hang(Subject(p), Parent(p)) /\ Proceed(p)
       ELSE Refuse(p) /\ UNCHANGED <<channels, rehung>>
    /\ UNCHANGED <<overrides, webhooks, intended, mixed, last_two, counters>>

(* One UPDATE per entry of the body, in no transaction.                    *)
MoveEach(p) ==
    /\ At(p, "move_each")
    /\ \E c \in request[p].todo :
          IF Parent(p) \in Existing \cup {None}
          THEN /\ Hang(c, Parent(p))
               /\ IF request[p].todo = {c}
                  THEN Proceed(p)
                  ELSE request' = [request EXCEPT ![p].todo = @ \ {c}]
          ELSE Refuse(p) /\ UNCHANGED <<channels, rehung>>
    /\ UNCHANGED <<overrides, webhooks, intended, mixed, last_two, counters>>

(* The transaction of update_channel.  Its DELETE removes the rows it sees *)
(* committed when it begins ...                                            *)
ClearOverrides(p) ==
    /\ At(p, "clear_overrides")
    /\ request' = [request EXCEPT ![p] = After([@ EXCEPT !.seen = overrides[Subject(p)]])]
    /\ UNCHANGED <<rows, history, counters>>

(* ... and its INSERTs end in an error at a row that came in between.      *)
ReplaceOverrides(p) ==
    LET c    == Subject(p)
        kept == overrides[c] \ request[p].seen
    IN  /\ At(p, "replace_overrides")
        /\ IF c \in Existing /\ kept \cap request[p].list = {}
           THEN /\ overrides' = [overrides EXCEPT ![c] = kept \cup request[p].list]
                /\ intended' = [intended EXCEPT ![c] = request[p].list]
                /\ mixed' = Mixes(p, c)
                /\ Proceed(p)
           ELSE Refuse(p) /\ UNCHANGED <<overrides, intended, mixed>>
        /\ UNCHANGED <<channels, webhooks, rehung, last_two, counters>>

(* INSERT ... ON CONFLICT DO UPDATE.                                       *)
UpsertOverride(p) ==
    LET c == Subject(p)
    IN  /\ At(p, "upsert_override")
        /\ IF c \in Existing
           THEN /\ overrides' = [overrides EXCEPT ![c] = @ \cup request[p].list]
                /\ intended' = [intended EXCEPT ![c] = @ \cup request[p].list]
                /\ mixed' = Mixes(p, c)
                /\ Proceed(p)
           ELSE Refuse(p) /\ UNCHANGED <<overrides, intended, mixed>>
        /\ UNCHANGED <<channels, webhooks, rehung, last_two, counters>>

DeleteOverride(p) ==
    LET c == Subject(p)
    IN  /\ At(p, "delete_override")
        /\ overrides' = [overrides EXCEPT ![c] = @ \ request[p].list]
        /\ intended' = [intended EXCEPT ![c] = @ \ request[p].list]
        /\ Proceed(p)
        /\ UNCHANGED <<channels, webhooks, mixed, rehung, last_two, counters>>

-----------------------------------------------------------------------------
(* Deleting one.                                                           *)

FindDoomed(p) ==
    /\ At(p, "find_doomed")
    /\ IF Subject(p) \notin Existing THEN Refuse(p)
       ELSE CASE channels[Subject(p)].type = "text"     -> GoTo(p, "count_text")
              [] channels[Subject(p)].type = "category" -> GoTo(p, "unset_children")
              [] OTHER                                  -> Proceed(p)
    /\ UNCHANGED <<rows, history, counters>>

OthersLeft(text_count) == text_count > 1

CountText(p) ==
    /\ At(p, "count_text")
    /\ IF OthersLeft(Cardinality(Text)) THEN Proceed(p) ELSE Refuse(p)
    /\ last_two' = (last_two \/ \E q \in Slots \ {p} :
           At(q, "delete_row") /\ Subject(q) \in Text \ {Subject(p)})
    /\ UNCHANGED <<rows, intended, mixed, rehung, counters>>

WithoutParent(c) ==
    [d \in Channels |-> IF d \in Children(c) THEN [channels[d] EXCEPT !.parent = None]
                        ELSE channels[d]]

UnsetChildren(p) ==
    /\ At(p, "unset_children")
    /\ channels' = WithoutParent(Subject(p))
    /\ Proceed(p)
    /\ UNCHANGED <<overrides, webhooks, history, counters>>

(* ON DELETE SET NULL for the children, ON DELETE CASCADE for overrides    *)
(* and webhooks.                                                           *)
Unhung(c) == [WithoutParent(c) EXCEPT ![c] = None]

DeleteRow(p) ==
    LET c == Subject(p)
    IN  /\ At(p, "delete_row")
        /\ channels' = Unhung(c)
        /\ overrides' = [overrides EXCEPT ![c] = {}]
        /\ intended' = [intended EXCEPT ![c] = {}]
        /\ webhooks' = [w \in Webhooks |-> IF webhooks[w] = c THEN None ELSE webhooks[w]]
        /\ Proceed(p)
        /\ UNCHANGED <<mixed, rehung, last_two, counters>>

-----------------------------------------------------------------------------
(* Webhooks.                                                               *)

(* "Can only follow announcement channels": of this server here.           *)
FindSource(p) ==
    Check(p, "find_source",
          Parent(p) \in Existing /\ channels[Parent(p)].type = "announcement")

(* The foreign key refuses a channel that is gone by now.                  *)
InsertWebhook(p) ==
    /\ At(p, "insert_webhook")
    /\ IF Subject(p) \in Existing
       THEN \E w \in Webhooks :
               /\ webhooks[w] = None
               /\ \A q \in Slots : request[q] # None => request[q].webhook # w
               /\ webhooks' = [webhooks EXCEPT ![w] = Subject(p)]
               /\ Proceed(p)
       ELSE Refuse(p) /\ UNCHANGED webhooks
    /\ UNCHANGED <<channels, overrides, history, counters>>

FindWebhook(p) == Check(p, "find_webhook", webhooks[request[p].webhook] # None)

(* UPDATE ... SET channel_id: of no row, or to a channel that exists.      *)
MoveWebhook(p) ==
    LET w == request[p].webhook
    IN  /\ At(p, "move_webhook")
        /\ IF webhooks[w] # None /\ Subject(p) \in Existing
           THEN webhooks' = [webhooks EXCEPT ![w] = Subject(p)]
           ELSE UNCHANGED webhooks
        /\ Proceed(p)
        /\ UNCHANGED <<channels, overrides, history, counters>>

DropWebhook(p) ==
    /\ At(p, "drop_webhook")
    /\ webhooks' = [webhooks EXCEPT ![request[p].webhook] = None]
    /\ Proceed(p)
    /\ UNCHANGED <<channels, overrides, history, counters>>

-----------------------------------------------------------------------------
(* A request arrives.  What it names are ids of channels; a channel is     *)
(* created with no overrides or with all, a body that reorders has two     *)
(* entries with the same parent.  The parent in the body of follow_channel *)
(* is the channel that is followed.                                        *)
Bodies(op) ==
    LET Body(type, channel, parent, list, todo, webhook) ==
            [op : {op}, at : {Handler[op].start}, seen : {{}}, type : type,
             channel : channel, parent : parent, list : list, todo : todo,
             webhook : webhook]
        Plain(channel, parent, list) == Body({None}, channel, parent, list, {{}}, {None})
        hooks == {w \in Webhooks : webhooks[w] # None}
        one   == {{t} : t \in Targets}
    IN  CASE op = "create_channel" ->
               Body(Types, {None}, Existing \cup {None}, {{}, Targets}, {{}}, {None})
          [] op = "update_channel"   -> Plain(Existing, Existing \cup {None}, {{}})
          [] op = "update_overrides" -> Plain(Existing, {None}, SUBSET Targets)
          [] op \in {"delete_channel", "create_webhook"} -> Plain(Existing, {None}, {{}})
          [] op = "reorder_channels" ->
               Body({None}, {None}, Existing \cup {None}, {{}},
                    {s \in SUBSET Existing : Cardinality(s) = 2}, {None})
          [] op = "follow_channel"   -> Plain(Existing, Existing, {{}})
          [] op = "update_webhook"   -> Body({None}, Existing, {None}, {{}}, {{}}, hooks)
          [] op = "delete_webhook"   -> Body({None}, {None}, {None}, {{}}, {{}}, hooks)
          [] OTHER                   -> Plain(Existing, {None}, one)

Start(p) ==
    /\ request[p] = None
    /\ started < MaxRequests
    /\ started' = started + 1
    /\ \E op \in DOMAIN Handler : \E body \in Bodies(op) :
          request' = [request EXCEPT ![p] = body]
    /\ UNCHANGED <<rows, history, failures>>

(* A statement fails, or the client goes away and the handler is dropped;  *)
(* a transaction that is open is rolled back.                              *)
Fail(p) ==
    /\ request[p] # None
    /\ failures < MaxFailures
    /\ failures' = failures + 1
    /\ Refuse(p)
    /\ UNCHANGED <<rows, history, started>>

Next ==
    \E p \in Slots :
        \/ Start(p) \/ Fail(p)
        \/ CountChannels(p) \/ ParentIsCategory(p) \/ CountChildren(p) \/ InsertChannel(p)
        \/ AddOverrides(p) \/ FindChannel(p) \/ UpdateRow(p) \/ MoveEach(p)
        \/ ClearOverrides(p) \/ ReplaceOverrides(p) \/ UpsertOverride(p) \/ DeleteOverride(p)
        \/ FindDoomed(p) \/ CountText(p) \/ UnsetChildren(p) \/ DeleteRow(p)
        \/ FindSource(p) \/ InsertWebhook(p)
        \/ FindWebhook(p) \/ MoveWebhook(p) \/ DropWebhook(p)

Spec == Init /\ [][Next]_vars
-----------------------------------------------------------------------------
(* Properties.                                                             *)

(* Types; a parent and a channel that has overrides or a webhook are       *)
(* there, which the foreign keys keep.                                     *)
TypeOK ==
    /\ \A c \in Existing :
          /\ channels[c].type \in Types
          /\ channels[c].parent \in Existing \cup {None}
    /\ overrides \in [Channels -> SUBSET Targets]
    /\ \A c \in Channels \ Existing : overrides[c] = {}
    /\ webhooks \in [Webhooks -> Existing \cup {None}]
    /\ intended \in [Channels -> SUBSET Targets]
    /\ mixed \subseteq Channels
    /\ rehung \in BOOLEAN /\ last_two \in BOOLEAN
    /\ started \in 0 .. MaxRequests /\ failures \in 0 .. MaxFailures
    /\ \A p \in Slots : request[p] # None =>
          /\ request[p].op \in DOMAIN Handler
          /\ request[p].at \in Statements(request[p].op) \ {"start", "end"}

(* What is counted some statements before it is changed.  "Cannot delete   *)
(* the last text channel in a server": there is always one, unless two     *)
(* deletions of text channels have overlapped, each counting the channel   *)
(* the other was about to delete.  "Max 500 channels per server" and "Max  *)
(* 50 channels per category": concurrent requests go over them, but by no  *)
(* more than there are other requests at once; the second holds only of    *)
(* what create_channel puts there, since nothing is counted when a channel *)
(* is moved.                                                               *)
LimitsWithinReach ==
    /\ ~last_two => Text # {}
    /\ Cardinality(Existing) < MaxChannels + Cardinality(Slots)
    /\ ~rehung => \A c \in Existing :
          Cardinality(Children(c)) < MaxChildren + Cardinality(Slots)

(* "Replace permission overrides (in a transaction)": the overrides of a   *)
(* channel are what the requests ask for, each served in one step at its   *)
(* commit.  A write that commits while a replacement is past its DELETE    *)
(* breaks this: the DELETE does not see the new row, which stays beside    *)
(* the new list, in a transaction or not.                                  *)
OverridesSerial ==
    \A c \in Channels \ mixed : overrides[c] = intended[c]
=============================================================================
