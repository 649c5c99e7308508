---------------------------- MODULE Relationships ----------------------------
(***************************************************************************)
(* Friends, blocks and direct message channels: the tables relationships,  *)
(* channels (of types 1 and 3) and dm_recipients, as the handlers of       *)
(* routes/users.rs change them.                                            *)
(*                                                                         *)
(* A handler is a sequence of SQL statements, given by the function named  *)
(* after it; a statement is an action and commits by itself.  A friendship *)
(* or a request is two rows, one for each side, which one statement writes;*)
(* a block is one row of the blocker's.  The users exist; the events that  *)
(* follow the last statement change nothing here and are left out.         *)
(***************************************************************************)
EXTENDS Naturals, Sequences, FiniteSets

CONSTANTS
    Slots,        \* places for requests being served at once
    Users,
    Channels,     \* ids for the channels that are created
    None,         \* absent: no request, no row
    MaxGroup,     \* recipients besides the creator, 9 in the code
    MaxRequests,  \* bound on the requests started
    MaxFailures   \* bound on statements that end in an error

Types == {"friend", "blocked", "incoming", "outgoing"}
Kinds == {"direct", "group"}

ASSUME ConstantsAssumption ==
    /\ None \notin Users \cup Channels \cup Types \cup Kinds
    /\ MaxGroup \in Nat \ {0}
    /\ MaxRequests \in Nat /\ MaxFailures \in Nat

VARIABLES
    type,        \* type[u][v]: type of the row (u, v), "friend" ..., or None
    channels,    \* channels[c]: "direct", "group", or None
    recipients,  \* recipients[c]: the users with a row of dm_recipients
    request,     \* request[p]: the request served in slot p, or None
    asked,       \* history: <<u, v>> when u has asked v, or said yes, since the
                 \* last time their rows were deleted
    overtaken,   \* history: pairs whose rows were deleted while one was accepting
    crossed,     \* history: pairs who blocked one another at once
    doubled,     \* history: pairs who opened a direct channel at once
    started, failures

rows     == <<type, channels, recipients>>
history  == <<asked, overtaken, crossed, doubled>>
counters == <<started, failures>>
vars == <<rows, request, history, counters>>

-----------------------------------------------------------------------------
(* Deviations: what a plausible slip in the code would make of the         *)
(* definition each is named after.  Nothing below uses them; they show     *)
(* that the properties depend on what the code does.                       *)

(* Only the row of the one who removes is deleted.                         *)
WithoutRows_OneSide(u, v) == [type EXCEPT ![u][v] = None]

(* Any request between the two is taken for one to accept.                 *)
IsIncoming_EitherSide(row) == row \in {"incoming", "outgoing"}

(* No check for oneself.                                                   *)
Asks_OneselfToo(op, u, to) == IF op = "create_group" THEN Len(to) > 1 ELSE Len(to) = 1

(* The channel that is there is not looked for.                            *)
create_dm_channel_Always ==
    [start          |-> "dm_unblocked",
     dm_unblocked   |-> "insert_channel",
     insert_channel |-> "add_recipients",
     add_recipients |-> "end"]

-----------------------------------------------------------------------------
(* The handlers: from each statement to the one after it.                  *)

create_relationship ==
    [start        |-> "unblocked",
     unblocked    |-> "not_blocking",
     not_blocking |-> "incoming",
     incoming     |-> "existing",
     existing     |-> "insert_pair",
     insert_pair  |-> "end",
     accept       |-> "end"]

remove_relationship == [start |-> "delete_pair", delete_pair |-> "end"]

block_user ==
    [start        |-> "delete_pair",
     delete_pair  |-> "insert_block",
     insert_block |-> "end"]

(* With one recipient ...                                                  *)
create_dm_channel ==
    [start          |-> "dm_unblocked",
     dm_unblocked   |-> "dm_existing",
     dm_existing    |-> "insert_channel",
     insert_channel |-> "add_recipients",
     add_recipients |-> "end"]

(* ... and with several.                                                   *)
create_group ==
    [start          |-> "insert_channel",
     insert_channel |-> "add_recipients",
     add_recipients |-> "end"]

Handler ==
    [create_relationship |-> create_relationship, remove_relationship |-> remove_relationship,
     block_user |-> block_user, create_dm_channel |-> create_dm_channel,
     create_group |-> create_group]

At(p, statement) == request[p] # None /\ request[p].at = statement

AtOneOf(p, statements) == request[p] # None /\ request[p].at \in statements

Actor(p)  == request[p].actor
Target(p) == Head(request[p].to)
Pair(p)   == {Actor(p), Target(p)}

Proceed(p) ==
    LET next == Handler[request[p].op][request[p].at]
    IN  request' = [request EXCEPT ![p] =
            IF next = "end" THEN None ELSE [@ EXCEPT !.at = next]]

Refuse(p) == request' = [request EXCEPT ![p] = None]

Check(p, statement, passes) ==
    /\ At(p, statement)
    /\ IF passes THEN Proceed(p) ELSE Refuse(p)
    /\ UNCHANGED <<rows, history, counters>>

When(happens, set) == IF happens THEN set ELSE {}

(* Nobody is related to anybody, and there is no channel.                  *)
Init ==
    /\ type = [u \in Users |-> [v \in Users |-> None]]
    /\ channels = [c \in Channels |-> None]
    /\ recipients = [c \in Channels |-> {}]
    /\ request = [p \in Slots |-> None]
    /\ asked = {} /\ overtaken = {} /\ crossed = {} /\ doubled = {}
    /\ started = 0 /\ failures = 0

-----------------------------------------------------------------------------
(* Friends and blocks.                                                     *)

Unblocked(p)   == Check(p, "unblocked", type[Target(p)][Actor(p)] # "blocked")
NotBlocking(p) == Check(p, "not_blocking", type[Actor(p)][Target(p)] # "blocked")
Existing(p)    == Check(p, "existing", type[Actor(p)][Target(p)] = None)

IsIncoming(row) == row = "incoming"

Incoming(p) ==
    /\ At(p, "incoming")
    /\ IF IsIncoming(type[Actor(p)][Target(p)])
       THEN request' = [request EXCEPT ![p].at = "accept"]
       ELSE Proceed(p)
    /\ UNCHANGED <<rows, history, counters>>

(* UPDATE: the rows of the two become friends, whatever they are by now.   *)
Accept(p) ==
    LET Accepted(u, v) == IF {u, v} = Pair(p) /\ type[u][v] # None
                          THEN "friend" ELSE type[u][v]
    IN  /\ At(p, "accept")
        /\ type' = [u \in Users |-> [v \in Users |-> Accepted(u, v)]]
        /\ asked' = asked \cup {<<Actor(p), Target(p)>>}
        /\ Proceed(p)
        /\ UNCHANGED <<channels, recipients, overtaken, crossed, doubled, counters>>

(* INSERT of both rows in one statement: neither may be there.             *)
InsertPair(p) ==
    LET u == Actor(p)
        v == Target(p)
    IN  /\ At(p, "insert_pair")
        /\ IF type[u][v] = None /\ type[v][u] = None
           THEN /\ type' = [type EXCEPT ![u][v] = "outgoing", ![v][u] = "incoming"]
                /\ asked' = asked \cup {<<u, v>>}
                /\ Proceed(p)
           ELSE Refuse(p) /\ UNCHANGED <<type, asked>>
        /\ UNCHANGED <<channels, recipients, overtaken, crossed, doubled, counters>>

WithoutRows(u, v) == [type EXCEPT ![u][v] = None, ![v][u] = None]

(* DELETE of both rows; a removal that finds none is refused.              *)
DeletePair(p) ==
    LET u == Actor(p)
        v == Target(p)
    IN  /\ At(p, "delete_pair")
        /\ type' = WithoutRows(u, v)
        /\ asked' = asked \ {<<u, v>>, <<v, u>>}
        /\ overtaken' = overtaken \cup
               When(\E q \in Slots : At(q, "accept") /\ Pair(q) = Pair(p), {Pair(p)})
        /\ IF request[p].op = "remove_relationship" /\ type[u][v] = None /\ type[v][u] = None
           THEN Refuse(p) ELSE Proceed(p)
        /\ UNCHANGED <<channels, recipients, crossed, doubled, counters>>

(* INSERT of the blocker's row, which may be there again.                  *)
InsertBlock(p) ==
    LET u == Actor(p)
        v == Target(p)
    IN  /\ At(p, "insert_block")
        /\ IF type[u][v] = None
           THEN type' = [type EXCEPT ![u][v] = "blocked"] /\ Proceed(p)
           ELSE Refuse(p) /\ UNCHANGED type
        /\ crossed' = crossed \cup
               When(\E q \in Slots : At(q, "insert_block") /\ Actor(q) = v /\ Target(q) = u,
                    {Pair(p)})
        /\ UNCHANGED <<channels, recipients, asked, overtaken, doubled, counters>>

-----------------------------------------------------------------------------
(* Direct messages.                                                        *)

DmUnblocked(p) == Check(p, "dm_unblocked", type[Target(p)][Actor(p)] # "blocked")

Direct(pair) == {c \in Channels : channels[c] = "direct" /\ pair \subseteq recipients[c]}

(* A channel of the two is answered as it is.                              *)
DmExisting(p) ==
    /\ At(p, "dm_existing")
    /\ IF Direct(Pair(p)) = {} THEN Proceed(p) ELSE Refuse(p)
    /\ doubled' = doubled \cup
           When(Direct(Pair(p)) = {}
                /\ \E q \in Slots : /\ AtOneOf(q, {"insert_channel", "add_recipients"})
                                    /\ request[q].op = "create_dm_channel"
                                    /\ Pair(q) = Pair(p),
                {Pair(p)})
    /\ UNCHANGED <<rows, asked, overtaken, crossed, counters>>

InsertChannel(p) ==
    /\ At(p, "insert_channel")
    /\ \E c \in Channels :
          /\ channels[c] = None
          /\ channels' = [channels EXCEPT ![c] =
                IF Len(request[p].to) = 1 THEN "direct" ELSE "group"]
          /\ request' = [request EXCEPT ![p].channel = c, ![p].at = "add_recipients"]
    /\ UNCHANGED <<type, recipients, history, counters>>

(* One INSERT per user, the creator first; a user who is in twice fails.   *)
AddRecipient(p) ==
    LET c == request[p].channel
        u == Head(request[p].todo)
    IN  /\ At(p, "add_recipients")
        /\ IF u \in recipients[c]
           THEN Refuse(p)
           ELSE IF Len(request[p].todo) = 1
                THEN Proceed(p)
                ELSE request' = [request EXCEPT ![p].todo = Tail(@)]
        /\ recipients' = [recipients EXCEPT ![c] = @ \cup {u}]
        /\ UNCHANGED <<type, channels, history, counters>>

-----------------------------------------------------------------------------
(* A request arrives.  The two of a relationship or a direct channel are   *)
(* not the same; a group may name its creator, or a user twice.            *)
Asks(op, u, to) ==
    IF op = "create_group" THEN Len(to) > 1 ELSE Len(to) = 1 /\ to # <<u>>

Start(p) ==
    /\ request[p] = None
    /\ started < MaxRequests
    /\ started' = started + 1
    /\ \E op \in DOMAIN Handler, u \in Users, n \in 1 .. MaxGroup : \E to \in [1 .. n -> Users] :
          /\ Asks(op, u, to)
          /\ request' = [request EXCEPT ![p] =
                [op |-> op, actor |-> u, to |-> to, todo |-> <<u>> \o to, channel |-> None,
                 at |-> Handler[op].start]]
    /\ UNCHANGED <<rows, history, failures>>

(* A statement fails, or the client goes away and the handler is dropped.  *)
Fail(p) ==
    /\ request[p] # None
    /\ failures < MaxFailures
    /\ failures' = failures + 1
    /\ Refuse(p)
    /\ UNCHANGED <<rows, history, started>>

Next ==
    \E p \in Slots :
        \/ Start(p) \/ Fail(p)
        \/ Unblocked(p) \/ NotBlocking(p) \/ Incoming(p) \/ Existing(p)
        \/ Accept(p) \/ InsertPair(p) \/ DeletePair(p) \/ InsertBlock(p)
        \/ DmUnblocked(p) \/ DmExisting(p) \/ InsertChannel(p) \/ AddRecipient(p)

Spec == Init /\ [][Next]_vars
-----------------------------------------------------------------------------
(* Properties.                                                             *)

Statements(op) == {Handler[op][s] : s \in DOMAIN Handler[op]} \cup {"accept"}

(* Types; a channel that has recipients is there, and nobody is related to *)
(* himself.                                                                *)
TypeOK ==
    /\ type \in [Users -> [Users -> Types \cup {None}]]
    /\ channels \in [Channels -> Kinds \cup {None}]
    /\ recipients \in [Channels -> SUBSET Users]
    /\ started \in 0 .. MaxRequests /\ failures \in 0 .. MaxFailures
    /\ \A p \in Slots : request[p] # None =>
          /\ request[p].op \in DOMAIN Handler
          /\ request[p].at \in Statements(request[p].op) \ {"end"}
          /\ request[p].actor \in Users
          /\ request[p].channel \in Channels \cup {None}
    /\ \A c \in Channels : channels[c] = None => recipients[c] = {}
    /\ \A u \in Users : type[u][u] = None

Matching == {<<None, None>>, <<"friend", "friend">>, <<"outgoing", "incoming">>,
             <<"incoming", "outgoing">>, <<"blocked", None>>, <<None, "blocked">>}

(* The two rows of a pair match at every moment, through failures too: a   *)
(* friendship and a request have both sides, a block has one.  What breaks *)
(* it is an UPDATE that accepts a request whose rows were deleted since it *)
(* was looked at, or two users who block one another at once.              *)
PairsMatch ==
    \A u, v \in Users : {u, v} \notin overtaken \cup crossed =>
        <<type[u][v], type[v][u]>> \in Matching

(* Nobody is somebody's friend without both having asked for it since they *)
(* last were strangers, unless the request was withdrawn and made again    *)
(* between the look at it and the UPDATE.                                  *)
FriendsConsented ==
    \A u, v \in Users : type[u][v] = "friend" /\ {u, v} \notin overtaken =>
        <<u, v>> \in asked /\ <<v, u>> \in asked

(* "For 1:1 DM, check if channel already exists (idempotent)": two users   *)
(* share one direct channel, unless two of their requests were both past   *)
(* the check; a channel left half made by a failure is never found.        *)
OneDirectChannel ==
    \A u, v \in Users : u # v /\ {u, v} \notin doubled =>
        Cardinality(Direct({u, v})) <= 1
=============================================================================
