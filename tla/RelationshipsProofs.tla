------------------------- MODULE RelationshipsProofs -------------------------
(***************************************************************************)
(* What the statements of the handlers of relationships and of direct      *)
(* channels keep true however they interleave, for any number of users,    *)
(* channels and requests.                                                  *)
(***************************************************************************)
EXTENDS Relationships, FiniteSetTheorems, SequenceTheorems, TLAPS

-----------------------------------------------------------------------------
(* The requests, and where each may be.                                    *)

Relating == {"unblocked", "not_blocking", "incoming", "existing", "insert_pair", "accept"}
Creating == {"insert_channel", "add_recipients"}
Opening  == {"dm_unblocked", "dm_existing"} \cup Creating

Places(op) ==
    CASE op = "create_relationship" -> Relating
      [] op = "remove_relationship" -> {"delete_pair"}
      [] op = "block_user"          -> {"delete_pair", "insert_block"}
      [] op = "create_dm_channel"   -> Opening
      [] op = "create_group"        -> Creating

Requests ==
    [op : DOMAIN Handler, actor : Users, to : Seq(Users) \ {<<>>},
     todo : Seq(Users) \ {<<>>}, channel : Channels \cup {None},
     at : UNION {Places(op) : op \in DOMAIN Handler}]

Placed(r) ==
    /\ r \in Requests
    /\ r.at \in Places(r.op)
    /\ r.op # "create_group" => Len(r.to) = 1 /\ r.actor # Head(r.to)
    /\ r.op = "create_group" => Len(r.to) # 1

RequestsPlaced ==
    /\ request \in [Slots -> Requests \cup {None}]
    /\ \A p \in Slots : request[p] # None => Placed(request[p])

(* A request adds recipients to a channel that is there, and that is its   *)
(* own.                                                                    *)
OwnChannels ==
    /\ \A p \in Slots : At(p, "add_recipients") =>
          /\ request[p].channel \in Channels
          /\ channels[request[p].channel] =
                IF request[p].op = "create_dm_channel" THEN "direct" ELSE "group"
    /\ \A p, q \in Slots :
          At(p, "add_recipients") /\ At(q, "add_recipients") /\ p # q
              => request[p].channel # request[q].channel

TypeInv == TypeOK /\ RequestsPlaced /\ OwnChannels

-----------------------------------------------------------------------------
(* Pairs.                                                                  *)

(* Two rows match but where both block, and only the crossed both block.   *)
RowsMatch ==
    \A u, v \in Users :
        /\ {u, v} \notin overtaken =>
              <<type[u][v], type[v][u]>> \in Matching \cup {<<"blocked", "blocked">>}
        /\ {u, v} \notin crossed =>
              ~(type[u][v] = "blocked" /\ type[v][u] = "blocked")

(* Between the DELETE and the INSERT of a block, the other has not blocked *)
(* without crossing it.                                                    *)
BlocksAlone ==
    \A p \in Slots : At(p, "insert_block") /\ Pair(p) \notin crossed =>
        type[Target(p)][Actor(p)] # "blocked"

(* Between the look at a request and the UPDATE the rows are those of a    *)
(* request or of friends, and the other has asked.                         *)
Acceptable == {"friend", "incoming", "outgoing"}

AcceptsAsked ==
    \A p \in Slots : At(p, "accept") /\ Pair(p) \notin overtaken =>
        /\ type[Actor(p)][Target(p)] \in Acceptable
        /\ type[Target(p)][Actor(p)] \in Acceptable
        /\ <<Target(p), Actor(p)>> \in asked

(* Whoever has an outgoing request has asked.                              *)
OutgoingAsked ==
    \A u, v \in Users : type[u][v] = "outgoing" /\ {u, v} \notin overtaken =>
        <<u, v>> \in asked

PairInv == RowsMatch /\ BlocksAlone /\ AcceptsAsked /\ OutgoingAsked /\ FriendsConsented

-----------------------------------------------------------------------------
(* Direct channels.                                                        *)

Opens(p) == AtOneOf(p, Creating) /\ request[p].op = "create_dm_channel"

(* What a request for a direct channel has still to add, and has added,    *)
(* are the two of it.                                                      *)
AddsItsPair ==
    \A p \in Slots : request[p] # None /\ request[p].op = "create_dm_channel" =>
        /\ \A i \in 1 .. Len(request[p].todo) : request[p].todo[i] \in Pair(p)
        /\ At(p, "add_recipients") => recipients[request[p].channel] \subseteq Pair(p)

(* One request at a time makes the direct channel of a pair, while no      *)
(* other has it, unless two were both past the check.                      *)
OneOpens ==
    \A p, q \in Slots : Opens(p) /\ Opens(q) /\ p # q /\ Pair(p) = Pair(q) =>
        Pair(p) \in doubled

OpensTheOnly ==
    \A p \in Slots : Opens(p) /\ Pair(p) \notin doubled =>
        \A c \in Direct(Pair(p)) : At(p, "add_recipients") /\ c = request[p].channel

OnlyOne ==
    \A u, v \in Users : u # v /\ {u, v} \notin doubled =>
        \A c, d \in Direct({u, v}) : c = d

ChannelInv == AddsItsPair /\ OneOpens /\ OpensTheOnly /\ OnlyOne

-----------------------------------------------------------------------------
(* The statements in their order.                                          *)

(* The handlers there are.                                                 *)
LEMMA Operations ==
    DOMAIN Handler = {"create_relationship", "remove_relationship", "block_user",
                      "create_dm_channel", "create_group"}
  BY DEF Handler

(* Each handler goes through its statements in this order.                 *)
LEMMA NextStatement ==
    ASSUME NEW op \in DOMAIN Handler, NEW at \in Places(op)
    PROVE  /\ at = "unblocked"      => Handler[op][at] = "not_blocking"
           /\ at = "not_blocking"   => Handler[op][at] = "incoming"
           /\ at = "incoming"       => Handler[op][at] = "existing"
           /\ at = "existing"       => Handler[op][at] = "insert_pair"
           /\ at = "insert_pair"    => Handler[op][at] = "end"
           /\ at = "accept"         => Handler[op][at] = "end"
           /\ at = "delete_pair"    =>
                Handler[op][at] = IF op = "block_user" THEN "insert_block" ELSE "end"
           /\ at = "insert_block"   => Handler[op][at] = "end"
           /\ at = "dm_unblocked"   => Handler[op][at] = "dm_existing"
           /\ at = "dm_existing"    => Handler[op][at] = "insert_channel"
           /\ at = "insert_channel" => Handler[op][at] = "add_recipients"
           /\ at = "add_recipients" => Handler[op][at] = "end"
  <1>1. CASE op = "create_relationship"
    BY <1>1 DEF Handler, create_relationship, Places, Relating
  <1>2. CASE op = "remove_relationship"
    BY <1>2 DEF Handler, remove_relationship, Places
  <1>3. CASE op = "block_user"
    BY <1>3 DEF Handler, block_user, Places
  <1>4. CASE op = "create_dm_channel"
    BY <1>4 DEF Handler, create_dm_channel, Places, Opening, Creating
  <1>5. CASE op = "create_group"
    BY <1>5 DEF Handler, create_group, Places, Creating
  <1>6. QED
    BY <1>1, <1>2, <1>3, <1>4, <1>5, Operations

(* The statement after one of a handler is one of that handler.            *)
LEMMA StaysPlaced ==
    ASSUME NEW op \in DOMAIN Handler, NEW at \in Places(op), Handler[op][at] # "end"
    PROVE  Handler[op][at] \in Places(op)
  <1> USE NextStatement
  <1>1. CASE op = "create_relationship"
    BY <1>1 DEF Places, Relating
  <1>2. CASE op = "remove_relationship"
    BY <1>2 DEF Places
  <1>3. CASE op = "block_user"
    BY <1>3 DEF Places
  <1>4. CASE op = "create_dm_channel"
    BY <1>4 DEF Places, Opening, Creating
  <1>5. CASE op = "create_group"
    BY <1>5 DEF Places, Creating
  <1>6. QED
    BY <1>1, <1>2, <1>3, <1>4, <1>5, Operations

(* What a request is for.                                                  *)
SameRequest(r, s) == r.op = s.op /\ r.actor = s.actor /\ r.to = s.to

(* A request that goes on is the same, one statement later.                *)
LEMMA Proceeding ==
    ASSUME RequestsPlaced, NEW p \in Slots, request[p] # None, Proceed(p)
    PROVE  /\ request' \in [Slots -> Requests \cup {None}]
           /\ \A q \in Slots \ {p} : request'[q] = request[q]
           /\ request'[p] # None =>
                 /\ Placed(request'[p])
                 /\ SameRequest(request'[p], request[p])
                 /\ request'[p].todo = request[p].todo
                 /\ request'[p].channel = request[p].channel
                 /\ request'[p].at = Handler[request[p].op][request[p].at]
  <1> DEFINE r    == request[p]
             next == Handler[r.op][r.at]
  <1>1. Placed(r) /\ r \in Requests /\ r.op \in DOMAIN Handler /\ r.at \in Places(r.op)
    BY DEF RequestsPlaced, Placed, Requests
  <1>2. request' = [request EXCEPT ![p] = IF next = "end" THEN None ELSE [r EXCEPT !.at = next]]
    BY DEF Proceed, RequestsPlaced
  <1>3. CASE next = "end"
    BY <1>2, <1>3 DEF RequestsPlaced
  <1>4. CASE next # "end"
    <2>1. next \in Places(r.op)
      BY <1>1, <1>4, StaysPlaced
    <2>2. [r EXCEPT !.at = next] \in Requests
      BY <1>1, <2>1 DEF Requests
    <2> HIDE DEF next
    <2>3. request'[p] = [r EXCEPT !.at = next] /\ request' \in [Slots -> Requests \cup {None}]
      BY <1>2, <1>4, <2>2 DEF RequestsPlaced
    <2>4. SameRequest([r EXCEPT !.at = next], r) /\ [r EXCEPT !.at = next].at = next
          /\ [r EXCEPT !.at = next].todo = r.todo /\ [r EXCEPT !.at = next].channel = r.channel
      BY <1>1 DEF Requests, SameRequest
    <2>5. Placed([r EXCEPT !.at = next])
      BY <1>1, <2>1, <2>2, <2>4 DEF Placed, SameRequest
    <2>6. next = Handler[request[p].op][request[p].at]
      BY DEF next
    <2> QED
      BY <1>2, <2>3, <2>4, <2>5, <2>6 DEF RequestsPlaced
  <1>5. QED
    BY <1>3, <1>4

(* A request that is refused is gone, the others stay.                     *)
LEMMA Refusing ==
    ASSUME RequestsPlaced, NEW p \in Slots, Refuse(p)
    PROVE  /\ request' \in [Slots -> Requests \cup {None}]
           /\ \A q \in Slots \ {p} : request'[q] = request[q]
           /\ request'[p] = None
  BY DEF Refuse, RequestsPlaced

-----------------------------------------------------------------------------
(* The requests after a step.                                              *)

Step(p) ==
    \/ Start(p) \/ Fail(p)
    \/ Unblocked(p) \/ NotBlocking(p) \/ Incoming(p) \/ Existing(p)
    \/ Accept(p) \/ InsertPair(p) \/ DeletePair(p) \/ InsertBlock(p)
    \/ DmUnblocked(p) \/ DmExisting(p) \/ InsertChannel(p) \/ AddRecipient(p)

(* A request that has just come.                                           *)
Started(r) ==
    /\ Placed(r)
    /\ r.at = Handler[r.op].start
    /\ r.todo = <<r.actor>> \o r.to

(* Where the request r of slot p is, when it was served before the step:   *)
(* what has taken it to the statements the invariants are about.           *)
Advanced(p, r) ==
    /\ Placed(r)
    /\ SameRequest(r, request[p])
    /\ r.at = "accept" => type[Actor(p)][Target(p)] = "incoming" /\ Incoming(p)
    /\ r.at = "insert_block" => DeletePair(p)
    /\ r.at = "insert_channel" => DmExisting(p) /\ Direct(Pair(p)) = {}
    /\ r.at = "add_recipients" => InsertChannel(p) \/ AddRecipient(p)
    /\ r.todo = request[p].todo \/ AddRecipient(p)
    /\ r.channel = request[p].channel \/ InsertChannel(p)

(* Where each handler begins.                                              *)
LEMMA FirstStatement ==
    /\ Handler["create_relationship"].start = "unblocked"
    /\ Handler["remove_relationship"].start = "delete_pair"
    /\ Handler["block_user"].start = "delete_pair"
    /\ Handler["create_dm_channel"].start = "dm_unblocked"
    /\ Handler["create_group"].start = "insert_channel"
  BY DEF Handler, create_relationship, remove_relationship, block_user,
         create_dm_channel, create_group

(* A request that comes is at a statement of its handler.                  *)
LEMMA FirstPlace ==
    ASSUME NEW op \in DOMAIN Handler
    PROVE  Handler[op].start \in Places(op)
  BY FirstStatement, Operations DEF Places, Relating, Opening, Creating

(* What Start does to the requests.                                        *)
LEMMA Starting ==
    ASSUME RequestsPlaced, NEW p \in Slots, Start(p)
    PROVE  /\ request' \in [Slots -> Requests \cup {None}]
           /\ \A q \in Slots \ {p} : request'[q] = request[q]
           /\ Started(request'[p])
  <1>1. PICK op \in DOMAIN Handler, u \in Users, n \in 1 .. MaxGroup :
           \E to \in [1 .. n -> Users] :
              /\ Asks(op, u, to)
              /\ request' = [request EXCEPT ![p] =
                    [op |-> op, actor |-> u, to |-> to, todo |-> <<u>> \o to, channel |-> None,
                     at |-> Handler[op].start]]
    BY DEF Start
  <1>2. PICK to \in [1 .. n -> Users] :
              /\ Asks(op, u, to)
              /\ request' = [request EXCEPT ![p] =
                    [op |-> op, actor |-> u, to |-> to, todo |-> <<u>> \o to, channel |-> None,
                     at |-> Handler[op].start]]
    BY <1>1
  <1> DEFINE first == Handler[op].start
             r == [op |-> op, actor |-> u, to |-> to, todo |-> <<u>> \o to,
                   channel |-> None, at |-> first]
  <1>3. to \in Seq(Users) /\ Len(to) = n /\ n >= 1 /\ n \in Nat
    BY ConstantsAssumption
  <1>4. <<u>> \o to \in Seq(Users) /\ Len(<<u>> \o to) = n + 1
    BY <1>3
  <1>5. to # <<>> /\ <<u>> \o to # <<>>
    BY <1>3, <1>4
  <1>6. first \in Places(op)
    BY FirstPlace
  <1>7. op # "create_group" => Len(to) = 1 /\ u # Head(to)
    BY <1>2, <1>3 DEF Asks
  <1>8. op = "create_group" => Len(to) # 1
    BY <1>2, <1>3 DEF Asks
  <1> HIDE DEF first
  <1>9. r \in Requests
    BY <1>3, <1>4, <1>5, <1>6 DEF Requests
  <1>10. Started(r)
    BY <1>6, <1>7, <1>8, <1>9 DEF Started, Placed, first
  <1>11. request' = [request EXCEPT ![p] = r]
    BY <1>2 DEF first
  <1>12. QED
    BY <1>9, <1>10, <1>11 DEF RequestsPlaced

(* A check moves to a statement no invariant is about.                     *)
LEMMA Checking ==
    ASSUME RequestsPlaced, NEW p \in Slots, NEW statement, NEW passes \in BOOLEAN,
           statement \in {"unblocked", "not_blocking", "existing", "dm_unblocked"},
           Check(p, statement, passes)
    PROVE  /\ request' \in [Slots -> Requests \cup {None}]
           /\ \A q \in Slots \ {p} : request'[q] = request[q]
           /\ request'[p] # None => request[p] # None /\ Advanced(p, request'[p])
  <1>1. request[p] # None /\ request[p].at = statement
    BY DEF Check, At
  <1>2. CASE Proceed(p)
    <2>1. request[p].op \in DOMAIN Handler /\ request[p].at \in Places(request[p].op)
      BY <1>1 DEF RequestsPlaced, Placed, Requests
    <2>2. Handler[request[p].op][request[p].at]
             \in {"not_blocking", "incoming", "insert_pair", "dm_existing"}
      BY <1>1, <2>1, NextStatement
    <2>3. QED
      BY <1>1, <1>2, <2>2, Proceeding DEF Advanced
  <1>3. CASE Refuse(p)
    BY <1>3, Refusing
  <1>4. QED
    BY <1>2, <1>3 DEF Check

(* A request that is given its channel and its next statement.             *)
LEMMA TwoFields ==
    ASSUME NEW Ops, NEW Lists, NEW Ats, NEW c \in Channels, NEW at \in Ats,
           NEW r \in [op : Ops, actor : Users, to : Lists, todo : Lists,
                      channel : Channels \cup {None}, at : Ats]
    PROVE  LET s == [r EXCEPT !.channel = c, !.at = at]
           IN  /\ s \in [op : Ops, actor : Users, to : Lists, todo : Lists,
                         channel : Channels \cup {None}, at : Ats]
               /\ s.op = r.op /\ s.actor = r.actor /\ s.to = r.to /\ s.todo = r.todo
               /\ s.channel = c /\ s.at = at
  OBVIOUS

(* What a step of slot p makes of the requests.                            *)
LEMMA Moving ==
    ASSUME RequestsPlaced, NEW p \in Slots, Step(p)
    PROVE  /\ request' \in [Slots -> Requests \cup {None}]
           /\ \A q \in Slots \ {p} : request'[q] = request[q]
           /\ request'[p] # None =>
                 \/ request[p] = None /\ Start(p) /\ Started(request'[p])
                 \/ request[p] # None /\ Advanced(p, request'[p])
  <1> DEFINE r == request[p]
  <1>a. r # None => r \in Requests /\ r.op \in DOMAIN Handler /\ r.at \in Places(r.op)
                    /\ Placed(r)
    BY DEF RequestsPlaced, Placed, Requests
  <1>1. CASE Start(p)
    BY <1>1, Starting DEF Start
  <1>2. CASE Fail(p)
    BY <1>2, Refusing DEF Fail
  <1>3. CASE Unblocked(p) \/ NotBlocking(p) \/ Existing(p) \/ DmUnblocked(p)
    BY <1>3, Checking DEF Unblocked, NotBlocking, Existing, DmUnblocked
  <1>4. CASE Incoming(p)
    <2>1. r # None /\ r.at = "incoming"
      BY <1>4 DEF Incoming, At
    <2>2. CASE IsIncoming(type[Actor(p)][Target(p)])
      <3>1. request' = [request EXCEPT ![p] = [r EXCEPT !.at = "accept"]]
        BY <1>4, <2>2 DEF Incoming, RequestsPlaced
      <3>2. r.op = "create_relationship"
        BY <1>a, <2>1, Operations DEF Places, Relating, Opening, Creating
      <3>3. "accept" \in Places(r.op)
        BY <3>2 DEF Places, Relating
      <3>4. [r EXCEPT !.at = "accept"] \in Requests
        BY <1>a, <2>1, <3>3 DEF Requests
      <3>5. /\ SameRequest([r EXCEPT !.at = "accept"], r)
            /\ [r EXCEPT !.at = "accept"].at = "accept"
            /\ [r EXCEPT !.at = "accept"].todo = r.todo
            /\ [r EXCEPT !.at = "accept"].channel = r.channel
        BY <1>a, <2>1 DEF Requests, SameRequest
      <3>6. Placed([r EXCEPT !.at = "accept"])
        BY <1>a, <2>1, <3>3, <3>4, <3>5 DEF Placed, SameRequest
      <3>7. Advanced(p, [r EXCEPT !.at = "accept"])
        BY <1>4, <2>2, <3>5, <3>6 DEF Advanced, IsIncoming
      <3>8. QED
        BY <2>1, <3>1, <3>4, <3>7 DEF RequestsPlaced
    <2>3. CASE ~IsIncoming(type[Actor(p)][Target(p)])
      <3>1. Proceed(p)
        BY <1>4, <2>3 DEF Incoming
      <3>2. Handler[r.op][r.at] = "existing"
        BY <1>a, <2>1, NextStatement
      <3>3. QED
        BY <2>1, <3>1, <3>2, Proceeding DEF Advanced
    <2>4. QED
      BY <2>2, <2>3
  <1>5. CASE Accept(p)
    <2>1. r # None /\ r.at = "accept" /\ Proceed(p)
      BY <1>5 DEF Accept, At
    <2>2. Handler[r.op][r.at] = "end"
      BY <1>a, <2>1, NextStatement
    <2>3. QED
      BY <2>1, <2>2, Proceeding DEF Advanced
  <1>6. CASE InsertPair(p)
    <2>1. r # None /\ r.at = "insert_pair" /\ (Proceed(p) \/ Refuse(p))
      BY <1>6 DEF InsertPair, At
    <2>2. Handler[r.op][r.at] = "end"
      BY <1>a, <2>1, NextStatement
    <2>3. QED
      BY <2>1, <2>2, Proceeding, Refusing DEF Advanced
  <1>7. CASE DeletePair(p)
    <2>1. r # None /\ r.at = "delete_pair" /\ (Proceed(p) \/ Refuse(p))
      BY <1>7 DEF DeletePair, At
    <2>2. Handler[r.op][r.at] \in {"insert_block", "end"}
      BY <1>a, <2>1, NextStatement
    <2>3. QED
      BY <1>7, <2>1, <2>2, Proceeding, Refusing DEF Advanced
  <1>8. CASE InsertBlock(p)
    <2>1. r # None /\ r.at = "insert_block" /\ (Proceed(p) \/ Refuse(p))
      BY <1>8 DEF InsertBlock, At
    <2>2. Handler[r.op][r.at] = "end"
      BY <1>a, <2>1, NextStatement
    <2>3. QED
      BY <2>1, <2>2, Proceeding, Refusing DEF Advanced
  <1>9. CASE DmExisting(p)
    <2>1. /\ r # None /\ r.at = "dm_existing"
          /\ (Proceed(p) /\ Direct(Pair(p)) = {}) \/ Refuse(p)
      BY <1>9 DEF DmExisting, At
    <2>2. Handler[r.op][r.at] = "insert_channel"
      BY <1>a, <2>1, NextStatement
    <2>3. QED
      BY <1>9, <2>1, <2>2, Proceeding, Refusing DEF Advanced
  <1>10. CASE InsertChannel(p)
    <2>1. r # None /\ r.at = "insert_channel"
      BY <1>10 DEF InsertChannel, At
    <2>2. PICK c \in Channels :
            request' = [request EXCEPT ![p].channel = c, ![p].at = "add_recipients"]
      BY <1>10 DEF InsertChannel
    <2> DEFINE s == [r EXCEPT !.channel = c, !.at = "add_recipients"]
    <2>3. request' = [request EXCEPT ![p] = s]
      BY <2>2 DEF RequestsPlaced
    <2>4. "add_recipients" \in Places(r.op)
      BY <1>a, <2>1, Operations DEF Places, Relating, Opening, Creating
    <2>5. /\ s \in Requests /\ SameRequest(s, r) /\ s.at = "add_recipients"
          /\ s.todo = r.todo
      <3>1. r \in Requests /\ "add_recipients" \in UNION {Places(op) : op \in DOMAIN Handler}
        BY <1>a, <2>1, <2>4
      <3>2. QED
        BY <3>1, TwoFields DEF Requests, SameRequest
    <2> HIDE DEF s
    <2>6. Placed(s)
      BY <1>a, <2>1, <2>4, <2>5 DEF Placed, SameRequest
    <2>7. Advanced(p, s)
      BY <1>10, <2>5, <2>6 DEF Advanced
    <2>8. QED
      BY <2>1, <2>3, <2>5, <2>7 DEF RequestsPlaced
  <1>11. CASE AddRecipient(p)
    <2>1. r # None /\ r.at = "add_recipients"
      BY <1>11 DEF AddRecipient, At
    <2>2. CASE Proceed(p) \/ Refuse(p)
      <3>1. Handler[r.op][r.at] = "end"
        BY <1>a, <2>1, NextStatement
      <3>2. QED
        BY <2>1, <2>2, <3>1, Proceeding, Refusing DEF Advanced
    <2>3. CASE Len(r.todo) # 1 /\ request' = [request EXCEPT ![p].todo = Tail(@)]
      <3> DEFINE s == [r EXCEPT !.todo = Tail(r.todo)]
      <3>1. request' = [request EXCEPT ![p] = s]
        BY <2>3 DEF RequestsPlaced
      <3>2. r.todo \in Seq(Users) /\ r.todo # <<>>
        BY <1>a, <2>1 DEF Requests
      <3>3. Tail(r.todo) \in Seq(Users) /\ Tail(r.todo) # <<>>
        <4> DEFINE todo == r.todo
        <4>1. todo \in Seq(Users) /\ todo # <<>> /\ Len(todo) # 1
          BY <2>3, <3>2
        <4> HIDE DEF todo
        <4>2. Len(todo) \in Nat /\ Len(todo) # 0
          BY <4>1
        <4>3. Tail(todo) \in Seq(Users) /\ Len(Tail(todo)) = Len(todo) - 1
          BY <4>1
        <4>4. Len(Tail(todo)) # 0
          BY <4>1, <4>2, <4>3
        <4>5. Tail(todo) # <<>>
          <5>1. Len(<<>>) = 0
            OBVIOUS
          <5>2. QED
            BY <4>4, <5>1
        <4>6. QED
          BY <4>3, <4>5 DEF todo
      <3>4. s \in Requests /\ SameRequest(s, r) /\ s.at = r.at /\ s.channel = r.channel
        BY <1>a, <2>1, <3>3 DEF Requests, SameRequest
      <3> HIDE DEF s
      <3>5. Placed(s)
        BY <1>a, <2>1, <3>4 DEF Placed, SameRequest
      <3>6. Advanced(p, s)
        BY <1>11, <2>1, <3>4, <3>5 DEF Advanced
      <3>7. QED
        BY <2>1, <3>1, <3>4, <3>6 DEF RequestsPlaced
    <2>4. QED
      BY <1>11, <2>2, <2>3 DEF AddRecipient
  <1>12. QED
    BY <1>1, <1>2, <1>3, <1>4, <1>5, <1>6, <1>7, <1>8, <1>9, <1>10, <1>11 DEF Step

(* Every step keeps requests at statements of their handlers.              *)
LEMMA StaysServed ==
    ASSUME RequestsPlaced, NEW p \in Slots, Step(p)
    PROVE  RequestsPlaced'
  <1>1. \A q \in Slots : request'[q] # None => Placed(request'[q])
    BY Moving DEF RequestsPlaced, Started, Advanced
  <1>2. QED
    BY <1>1, Moving DEF RequestsPlaced

-----------------------------------------------------------------------------
(* Types.                                                                  *)

(* The two of a request that is not for a group are users, and two.        *)
LEMMA TwoUsers ==
    ASSUME RequestsPlaced, NEW p \in Slots, request[p] # None,
           request[p].at \notin Creating \/ request[p].op = "create_dm_channel"
    PROVE  Actor(p) \in Users /\ Target(p) \in Users /\ Actor(p) # Target(p)
  <1>1. Placed(request[p]) /\ request[p] \in Requests
    BY DEF RequestsPlaced, Placed
  <1>2. request[p].op # "create_group"
    BY <1>1 DEF Placed, Places, Creating
  <1>3. request[p].to \in Seq(Users) /\ request[p].to # <<>> /\ request[p].actor \in Users
    BY <1>1 DEF Requests
  <1>4. Head(request[p].to) \in Users
    BY <1>3
  <1>5. QED
    BY <1>1, <1>2, <1>3, <1>4 DEF Placed, Actor, Target

(* The places of a handler are the statements of its table.                *)
LEMMA StatementsOf ==
    ASSUME NEW op \in DOMAIN Handler, NEW at \in Places(op)
    PROVE  at \in Statements(op) \ {"end"}
  <1>1. CASE op = "create_relationship"
    BY <1>1 DEF Statements, Handler, create_relationship, Places, Relating
  <1>2. CASE op = "remove_relationship"
    BY <1>2 DEF Statements, Handler, remove_relationship, Places
  <1>3. CASE op = "block_user"
    BY <1>3 DEF Statements, Handler, block_user, Places
  <1>4. CASE op = "create_dm_channel"
    BY <1>4 DEF Statements, Handler, create_dm_channel, Places, Opening, Creating
  <1>5. CASE op = "create_group"
    BY <1>5 DEF Statements, Handler, create_group, Places, Creating
  <1>6. QED
    BY <1>1, <1>2, <1>3, <1>4, <1>5, Operations

(* The rows after a step: their types, and nobody related to himself.      *)
RowsTyped ==
    /\ type \in [Users -> [Users -> Types \cup {None}]]
    /\ \A u \in Users : type[u][u] = None

(* A function changed at two arguments.                                    *)
LEMMA TwoElements ==
    ASSUME NEW S, NEW T, NEW f \in [S -> T], NEW u \in S, NEW v \in S, u # v,
           NEW s \in T, NEW t \in T
    PROVE  LET g == [f EXCEPT ![u] = s, ![v] = t]
           IN  /\ g \in [S -> T]
               /\ \A a \in S : g[a] = IF a = u THEN s ELSE IF a = v THEN t ELSE f[a]
  OBVIOUS

(* A statement that writes both rows of a pair writes no other.            *)
LEMMA BothRows ==
    ASSUME NEW T, NEW f \in [Users -> [Users -> T]], NEW g, NEW s \in T, NEW t \in T,
           NEW u \in Users, NEW v \in Users, u # v,
           g = [f EXCEPT ![u][v] = s, ![v][u] = t]
    PROVE  /\ g \in [Users -> [Users -> T]]
           /\ g[u][v] = s /\ g[v][u] = t
           /\ \A a, b \in Users : ~(a = u /\ b = v) /\ ~(a = v /\ b = u)
                => g[a][b] = f[a][b]
  <1> DEFINE one == [f[u] EXCEPT ![v] = s]
             two == [f[v] EXCEPT ![u] = t]
             F   == [Users -> T]
             new == [f EXCEPT ![u] = one, ![v] = two]
  <1>1. one \in F /\ two \in F
    OBVIOUS
  <1>2. g = new
    OBVIOUS
  <1>3. /\ \A b \in Users : one[b] = IF b = v THEN s ELSE f[u][b]
        /\ \A b \in Users : two[b] = IF b = u THEN t ELSE f[v][b]
    OBVIOUS
  <1>4. f \in [Users -> F]
    OBVIOUS
  <1> HIDE DEF F, one, two
  <1>5. /\ new \in [Users -> F]
        /\ \A a \in Users : new[a] = IF a = u THEN one ELSE IF a = v THEN two ELSE f[a]
    BY <1>1, <1>4, TwoElements
  <1> HIDE DEF new
  <1>6. g \in [Users -> [Users -> T]]
    BY <1>2, <1>5 DEF F
  <1>7. /\ g[u][v] = s /\ g[v][u] = t
        /\ \A a, b \in Users : ~(a = u /\ b = v) /\ ~(a = v /\ b = u)
              => g[a][b] = f[a][b]
    BY <1>2, <1>3, <1>5
  <1>8. QED
    BY <1>6, <1>7

(* The INSERT of both rows of a request.                                   *)
LEMMA PairInserted ==
    ASSUME RequestsPlaced, RowsTyped, NEW p \in Slots, InsertPair(p), type' # type
    PROVE  /\ type' \in [Users -> [Users -> Types \cup {None}]]
           /\ \A u, v \in Users : type'[u][v] =
                 IF u = Actor(p) /\ v = Target(p) THEN "outgoing"
                 ELSE IF u = Target(p) /\ v = Actor(p) THEN "incoming" ELSE type[u][v]
  <1> DEFINE a == Actor(p)
             t == Target(p)
  <1>1. "outgoing" \in Types \cup {None} /\ "incoming" \in Types \cup {None}
    BY DEF Types
  <1>2. type' = [type EXCEPT ![a][t] = "outgoing", ![t][a] = "incoming"]
    BY DEF InsertPair
  <1>3. a \in Users /\ t \in Users /\ a # t
    BY TwoUsers DEF InsertPair, At, Creating
  <1> HIDE DEF a, t
  <1>4. /\ type' \in [Users -> [Users -> Types \cup {None}]]
        /\ \A u, v \in Users : type'[u][v] =
              IF u = a /\ v = t THEN "outgoing"
              ELSE IF u = t /\ v = a THEN "incoming" ELSE type[u][v]
    <2> DEFINE T == Types \cup {None}
               mine == "outgoing"
               yours == "incoming"
               new == [type EXCEPT ![a][t] = mine, ![t][a] = yours]
    <2>1. type \in [Users -> [Users -> T]] /\ mine \in T /\ yours \in T
      BY <1>1 DEF RowsTyped
    <2>2. new = [type EXCEPT ![a][t] = mine, ![t][a] = yours] /\ type' = new
      BY <1>2
    <2>3. a \in Users /\ t \in Users /\ a # t
      BY <1>3
    <2> HIDE DEF T, new, mine, yours
    <2>4. new \in [Users -> [Users -> T]]
      BY <2>1, <2>2, <2>3, BothRows
    <2>5. /\ new[a][t] = mine /\ new[t][a] = yours
          /\ \A u, v \in Users : ~(u = a /\ v = t) /\ ~(u = t /\ v = a)
                => new[u][v] = type[u][v]
      BY <2>1, <2>2, <2>3, BothRows
    <2>6. QED
      BY <2>2, <2>4, <2>5 DEF T, mine, yours
  <1>5. QED
    BY <1>4 DEF a, t

(* Every step leaves rows of the known types, none for oneself.            *)
LEMMA RowsStayTyped ==
    ASSUME RequestsPlaced, RowsTyped, NEW p \in Slots, Step(p)
    PROVE  RowsTyped'
  <1>1. CASE Accept(p)
    <2>1. request[p] # None /\ request[p].at = "accept"
      BY <1>1 DEF Accept, At
    <2>2. Actor(p) # Target(p)
      BY <2>1, TwoUsers DEF Creating
    <2>3. QED
      BY <1>1, <2>2 DEF Accept, RowsTyped, Types, Pair
  <1>2. CASE InsertPair(p)
    <2>1. request[p] # None /\ request[p].at = "insert_pair"
      BY <1>2 DEF InsertPair, At
    <2>2. Actor(p) \in Users /\ Target(p) \in Users /\ Actor(p) # Target(p)
      BY <2>1, TwoUsers DEF Creating
    <2>3. CASE type' # type
      BY <1>2, <2>2, <2>3, PairInserted DEF RowsTyped
    <2>4. CASE type' = type
      BY <2>4 DEF RowsTyped
    <2>5. QED
      BY <1>2, <2>3, <2>4 DEF InsertPair
  <1>3. CASE DeletePair(p)
    <2>1. request[p] # None /\ request[p].at = "delete_pair"
      BY <1>3 DEF DeletePair, At
    <2>2. Actor(p) \in Users /\ Target(p) \in Users
      BY <2>1, TwoUsers DEF Creating
    <2>3. QED
      BY <1>3, <2>2 DEF DeletePair, WithoutRows, RowsTyped, Types
  <1>4. CASE InsertBlock(p)
    <2>1. request[p] # None /\ request[p].at = "insert_block"
      BY <1>4 DEF InsertBlock, At
    <2>2. Actor(p) \in Users /\ Target(p) \in Users /\ Actor(p) # Target(p)
      BY <2>1, TwoUsers DEF Creating
    <2>3. QED
      BY <1>4, <2>2 DEF InsertBlock, RowsTyped, Types
  <1>5. CASE type' = type
    BY <1>5 DEF RowsTyped
  <1>6. QED
    BY <1>1, <1>2, <1>3, <1>4, <1>5
       DEF Step, Start, Fail, Unblocked, NotBlocking, Incoming, Existing, DmUnblocked,
           DmExisting, InsertChannel, AddRecipient, Check, rows

(* The bounds on requests and failures are kept.                           *)
LEMMA CountersStay ==
    ASSUME NEW p \in Slots, Step(p),
           started \in 0 .. MaxRequests, failures \in 0 .. MaxFailures
    PROVE  (started \in 0 .. MaxRequests)' /\ (failures \in 0 .. MaxFailures)'
  <1>1. CASE Start(p)
    BY <1>1, ConstantsAssumption DEF Start
  <1>2. CASE Fail(p)
    BY <1>2, ConstantsAssumption DEF Fail
  <1>3. CASE UNCHANGED counters
    BY <1>3 DEF counters
  <1>4. QED
    BY <1>1, <1>2, <1>3
       DEF Step, Accept, InsertPair, DeletePair, InsertBlock, Unblocked, NotBlocking, Incoming,
           Existing, DmUnblocked, DmExisting, InsertChannel, AddRecipient, Check

(* The channels after a step.                                              *)
ChannelsTyped ==
    /\ channels \in [Channels -> Kinds \cup {None}]
    /\ recipients \in [Channels -> SUBSET Users]
    /\ \A c \in Channels : channels[c] = None => recipients[c] = {}

(* Every step leaves channels of the known kinds, with recipients.         *)
LEMMA ChannelsStayTyped ==
    ASSUME RequestsPlaced, ChannelsTyped, OwnChannels, NEW p \in Slots, Step(p)
    PROVE  ChannelsTyped'
  <1>1. CASE InsertChannel(p)
    BY <1>1, ConstantsAssumption DEF InsertChannel, ChannelsTyped, Kinds
  <1>2. CASE AddRecipient(p)
    <2>1. request[p] # None /\ At(p, "add_recipients") /\ Placed(request[p])
      BY <1>2 DEF AddRecipient, At, RequestsPlaced
    <2>2. request[p].todo \in Seq(Users) /\ request[p].todo # <<>>
      BY <2>1 DEF Placed, Requests
    <2>3. Head(request[p].todo) \in Users
      BY <2>2
    <2>4. request[p].channel \in Channels /\ channels[request[p].channel] # None
      BY <2>1, ConstantsAssumption DEF OwnChannels, Kinds
    <2>5. QED
      BY <1>2, <2>3, <2>4 DEF AddRecipient, ChannelsTyped
  <1>3. CASE UNCHANGED <<channels, recipients>>
    BY <1>3 DEF ChannelsTyped
  <1>4. QED
    BY <1>1, <1>2, <1>3
       DEF Step, Start, Fail, Accept, InsertPair, DeletePair, InsertBlock, Unblocked,
           NotBlocking, Incoming, Existing, DmUnblocked, DmExisting, Check, rows

(* No handler begins by adding recipients.                                 *)
LEMMA StartsNone ==
    ASSUME RequestsPlaced, NEW p \in Slots, Start(p)
    PROVE  request'[p].at # "add_recipients"
  <1>1. Started(request'[p]) /\ request'[p].op \in DOMAIN Handler
    BY Starting DEF Started, Placed, Requests
  <1>2. QED
    BY <1>1, FirstStatement, Operations DEF Started

(* The channel that is inserted.                                           *)
Inserted(p, c) ==
    /\ channels[c] = None
    /\ channels' = [channels EXCEPT ![c] =
          IF request[p].op = "create_dm_channel" THEN "direct" ELSE "group"]
    /\ SameRequest(request'[p], request[p])
    /\ request'[p].todo = request[p].todo
    /\ request'[p].channel = c
    /\ \A q \in Slots \ {p} : request'[q] = request[q]

(* The INSERT of a channel picks one that is not there.                    *)
LEMMA Inserting ==
    ASSUME RequestsPlaced, NEW p \in Slots, InsertChannel(p)
    PROVE  \E c \in Channels : Inserted(p, c)
  <1>1. request[p] # None /\ request[p].at = "insert_channel" /\ Placed(request[p])
    BY DEF InsertChannel, At, RequestsPlaced
  <1>2. PICK c \in Channels :
          /\ channels[c] = None
          /\ channels' = [channels EXCEPT ![c] =
                IF Len(request[p].to) = 1 THEN "direct" ELSE "group"]
          /\ request' = [request EXCEPT ![p].channel = c, ![p].at = "add_recipients"]
    BY DEF InsertChannel
  <1> DEFINE s == [request[p] EXCEPT !.channel = c, !.at = "add_recipients"]
  <1>3. request' = [request EXCEPT ![p] = s]
    BY <1>2 DEF RequestsPlaced
  <1>4. request[p] \in Requests /\ request[p].op \in DOMAIN Handler
        /\ request[p].at \in Places(request[p].op)
    BY <1>1 DEF Placed, Requests
  <1>5. "add_recipients" \in UNION {Places(op) : op \in DOMAIN Handler}
    BY Operations DEF Places, Creating
  <1>6. s.channel = c /\ SameRequest(s, request[p]) /\ s.todo = request[p].todo
    BY <1>4, <1>5, TwoFields DEF Requests, SameRequest
  <1> HIDE DEF s
  <1>7. request'[p] = s /\ \A q \in Slots \ {p} : request'[q] = request[q]
    BY <1>3 DEF RequestsPlaced
  <1>8. request[p].op \in {"create_dm_channel", "create_group"}
    BY <1>1, <1>4, Operations DEF Places, Relating, Opening, Creating
  <1>9. Len(request[p].to) = 1 <=> request[p].op = "create_dm_channel"
    BY <1>1, <1>8 DEF Placed
  <1>10. QED
    BY <1>2, <1>6, <1>7, <1>9 DEF Inserted

(* Whoever adds recipients adds them to the channel it made.               *)
LEMMA ChannelsStayOwn ==
    ASSUME RequestsPlaced, ChannelsTyped, OwnChannels, NEW p \in Slots, Step(p)
    PROVE  OwnChannels'
  <1>1. CASE InsertChannel(p)
    <2>1. PICK c \in Channels : Inserted(p, c)
      BY <1>1, Inserting
    <2>2. request'[p].channel = c /\ request'[p].op = request[p].op
      BY <2>1 DEF Inserted, SameRequest
    <2>3. channels'[c] = IF request[p].op = "create_dm_channel" THEN "direct" ELSE "group"
      BY <2>1 DEF Inserted, ChannelsTyped
    <2>4. \A q \in Slots \ {p} : At(q, "add_recipients") => request[q].channel # c
      BY <2>1, ConstantsAssumption DEF OwnChannels, Kinds, Inserted
    <2>5. /\ \A q \in Slots \ {p} : request'[q] = request[q]
          /\ \A d \in Channels \ {c} : channels'[d] = channels[d]
      BY <2>1 DEF Inserted, RequestsPlaced, ChannelsTyped
    <2>6. \A q \in Slots \ {p} : At(q, "add_recipients")' =>
            /\ At(q, "add_recipients")
            /\ request'[q].channel \in Channels \ {c}
            /\ request'[q].channel = request[q].channel
            /\ channels'[request'[q].channel] =
                  IF request'[q].op = "create_dm_channel" THEN "direct" ELSE "group"
      BY <2>4, <2>5 DEF OwnChannels, At
    <2>7. /\ request'[p].channel = c
          /\ channels'[request'[p].channel] =
                IF request'[p].op = "create_dm_channel" THEN "direct" ELSE "group"
      BY <2>2, <2>3
    <2>8. \A q, q2 \in Slots :
             At(q, "add_recipients")' /\ At(q2, "add_recipients")' /\ q # q2
               => request'[q].channel # request'[q2].channel
      BY <2>6, <2>7 DEF OwnChannels
    <2>9. QED
      BY <2>6, <2>7, <2>8 DEF OwnChannels
  <1>2. CASE ~InsertChannel(p) /\ channels' = channels
    <2>1. \A q \in Slots : At(q, "add_recipients")' =>
            /\ At(q, "add_recipients")
            /\ request'[q].channel = request[q].channel
            /\ request'[q].op = request[q].op
      <3>1. SUFFICES ASSUME At(p, "add_recipients")'
                     PROVE  /\ At(p, "add_recipients")
                            /\ request'[p].channel = request[p].channel
                            /\ request'[p].op = request[p].op
        BY Moving DEF At
      <3>2. ~Start(p)
        BY <3>1, StartsNone DEF At
      <3>3. Advanced(p, request'[p])
        BY <3>1, <3>2, Moving DEF At
      <3>4. AddRecipient(p)
        BY <1>2, <3>1, <3>3 DEF Advanced, At
      <3>5. QED
        BY <1>2, <3>3, <3>4 DEF Advanced, AddRecipient, SameRequest
    <2>2. QED
      BY <1>2, <2>1 DEF OwnChannels
  <1>3. QED
    BY <1>1, <1>2
       DEF Step, Start, Fail, Accept, InsertPair, DeletePair, InsertBlock, Unblocked,
           NotBlocking, Incoming, Existing, DmUnblocked, DmExisting, Check, AddRecipient, rows

(* The parts of the type invariant.                                        *)
LEMMA TypeParts == TypeInv <=>
    /\ RowsTyped /\ ChannelsTyped /\ RequestsPlaced /\ OwnChannels
    /\ started \in 0 .. MaxRequests /\ failures \in 0 .. MaxFailures
  <1>1. RequestsPlaced => \A p \in Slots : request[p] # None =>
          /\ request[p].op \in DOMAIN Handler
          /\ request[p].at \in Statements(request[p].op) \ {"end"}
          /\ request[p].actor \in Users
          /\ request[p].channel \in Channels \cup {None}
    BY StatementsOf DEF RequestsPlaced, Placed, Requests
  <1>2. QED
    BY <1>1 DEF TypeInv, TypeOK, RowsTyped, ChannelsTyped

(* The type invariant and what makes it inductive hold always.             *)
LEMMA TypeInvHolds == Spec => []TypeInv
  <1>1. Init => TypeInv
    <2>1. SUFFICES ASSUME Init
                   PROVE  TypeInv
      OBVIOUS
    <2>2. RowsTyped /\ ChannelsTyped
      BY <2>1 DEF Init, RowsTyped, ChannelsTyped
    <2>3. RequestsPlaced /\ OwnChannels
      BY <2>1 DEF Init, RequestsPlaced, OwnChannels, At
    <2>4. started \in 0 .. MaxRequests /\ failures \in 0 .. MaxFailures
      BY <2>1, ConstantsAssumption DEF Init
    <2>5. QED
      BY <2>2, <2>3, <2>4, TypeParts
  <1>2. TypeInv /\ [Next]_vars => TypeInv'
    <2>1. SUFFICES ASSUME TypeInv, [Next]_vars
                   PROVE  TypeInv'
      OBVIOUS
    <2>2. CASE Next
      <3>1. PICK p \in Slots : Step(p)
        BY <2>2 DEF Next, Step
      <3>2. RowsTyped' /\ ChannelsTyped' /\ RequestsPlaced' /\ OwnChannels'
        BY <2>1, <3>1, TypeParts, RowsStayTyped, ChannelsStayTyped, StaysServed, ChannelsStayOwn
      <3>3. (started \in 0 .. MaxRequests)' /\ (failures \in 0 .. MaxFailures)'
        BY <2>1, <3>1, TypeParts, CountersStay
      <3>4. QED
        BY <3>2, <3>3, TypeParts, PTL
    <2>3. CASE UNCHANGED vars
      BY <2>1, <2>3 DEF vars, rows, history, counters, TypeInv, TypeOK, RequestsPlaced,
                        OwnChannels, At
    <2>4. QED
      BY <2>1, <2>2, <2>3
  <1>3. QED
    BY <1>1, <1>2, PTL DEF Spec

(* Types hold in every state: whichever statements interleave, each        *)
(* request is at a statement of its handler, a channel that has recipients *)
(* is there, nobody has a row for himself.                                 *)
THEOREM TypeCorrect == Spec => []TypeOK
  <1>1. TypeInv => TypeOK
    BY DEF TypeInv
  <1>2. QED
    BY <1>1, TypeInvHolds, PTL

-----------------------------------------------------------------------------
(* Pairs after a step.                                                     *)

(* When two pairs are the same.                                            *)
LEMMA SamePair ==
    ASSUME NEW u, NEW v, NEW a, NEW b
    PROVE  {u, v} = {a, b} <=> (u = a /\ v = b) \/ (u = b /\ v = a)
  OBVIOUS

(* A request that is about to accept after a step was so before, or has    *)
(* just looked at one; one about to block was so before, or has just       *)
(* deleted the rows.                                                       *)
LEMMA Arriving ==
    ASSUME RequestsPlaced, NEW p \in Slots, Step(p), NEW q \in Slots
    PROVE  /\ At(q, "accept")' =>
                /\ request[q] # None /\ SameRequest(request'[q], request[q])
                /\ \/ At(q, "accept")
                   \/ q = p /\ Incoming(p) /\ type[Actor(p)][Target(p)] = "incoming"
           /\ At(q, "insert_block")' =>
                /\ request[q] # None /\ SameRequest(request'[q], request[q])
                /\ \/ At(q, "insert_block")
                   \/ q = p /\ DeletePair(p)
  <1>1. CASE q # p
    BY <1>1, Moving DEF At, SameRequest
  <1>2. CASE q = p /\ request'[p] # None /\ Start(p)
    <2>1. Started(request'[p]) /\ request'[p].op \in DOMAIN Handler
      BY <1>2, Starting DEF Started, Placed, Requests
    <2>2. request'[p].at \notin {"accept", "insert_block"}
      BY <2>1, FirstStatement, Operations DEF Started
    <2>3. QED
      BY <1>2, <2>2 DEF At
  <1>3. CASE q = p /\ request'[p] # None /\ ~Start(p)
    BY <1>3, Moving DEF Advanced, At
  <1>4. QED
    BY <1>1, <1>2, <1>3 DEF At

(* An invariant about requests, in terms of the requests before the step.  *)
LEMMA SameUsers ==
    ASSUME NEW q \in Slots, SameRequest(request'[q], request[q])
    PROVE  Actor(q)' = Actor(q) /\ Target(q)' = Target(q) /\ Pair(q)' = Pair(q)
  BY DEF SameRequest, Actor, Target, Pair

(* The UPDATE of an acceptance keeps what is known of the pairs.           *)
LEMMA AcceptKeeps ==
    ASSUME TypeInv, PairInv, NEW p \in Slots, Accept(p)
    PROVE  PairInv'
  <1> DEFINE a == Actor(p)
             t == Target(p)
  <1>1. At(p, "accept") /\ a \in Users /\ t \in Users /\ a # t /\ Pair(p) = {a, t}
    BY TwoUsers DEF Accept, At, Creating, TypeInv, Pair
  <1>2. /\ \A u, v \in Users : type'[u][v] =
              IF {u, v} = Pair(p) /\ type[u][v] # None THEN "friend" ELSE type[u][v]
        /\ asked' = asked \cup {<<a, t>>} /\ overtaken' = overtaken /\ crossed' = crossed
    BY DEF Accept
  <1>3. Pair(p) \notin overtaken =>
            type[a][t] \in Acceptable /\ type[t][a] \in Acceptable /\ <<t, a>> \in asked
    BY <1>1 DEF PairInv, AcceptsAsked
  <1>4. RequestsPlaced /\ Step(p)
    BY DEF TypeInv, Step
  <1>5. None \notin Acceptable /\ "friend" \in Acceptable
    BY ConstantsAssumption DEF Acceptable, Types
  <1> HIDE DEF a, t
  <1>6. RowsMatch'
    <2>1. SUFFICES ASSUME NEW u \in Users, NEW v \in Users
                   PROVE  /\ {u, v} \notin overtaken' =>
                               <<type'[u][v], type'[v][u]>>
                                  \in Matching \cup {<<"blocked", "blocked">>}
                          /\ {u, v} \notin crossed' =>
                               ~(type'[u][v] = "blocked" /\ type'[v][u] = "blocked")
      BY DEF RowsMatch
    <2>2. {v, u} = {u, v}
      OBVIOUS
    <2>3. CASE {u, v} = Pair(p)
      <3>1. {u, v} \notin overtaken => type[u][v] # None /\ type[v][u] # None
        BY <1>1, <1>3, <1>5, <2>3, SamePair
      <3>2. QED
        BY <1>2, <2>2, <2>3, <3>1, ConstantsAssumption DEF Matching, Types
    <2>4. CASE {u, v} # Pair(p)
      BY <1>2, <2>2, <2>4 DEF PairInv, RowsMatch
    <2>5. QED
      BY <2>3, <2>4
  <1>7. OutgoingAsked'
    BY <1>2 DEF PairInv, OutgoingAsked
  <1>8. FriendsConsented'
    <2>1. SUFFICES ASSUME NEW u \in Users, NEW v \in Users,
                          type'[u][v] = "friend", {u, v} \notin overtaken'
                   PROVE  <<u, v>> \in asked' /\ <<v, u>> \in asked'
      BY DEF FriendsConsented
    <2>2. CASE {u, v} = Pair(p)
      <3>1. <<a, t>> \in asked' /\ <<t, a>> \in asked'
        BY <1>2, <1>3, <2>1, <2>2
      <3>2. (u = a /\ v = t) \/ (u = t /\ v = a)
        BY <1>1, <2>2, SamePair
      <3>3. QED
        BY <3>1, <3>2
    <2>3. CASE {u, v} # Pair(p)
      BY <1>2, <2>1, <2>3 DEF PairInv, FriendsConsented
    <2>4. QED
      BY <2>2, <2>3
  <1>9. BlocksAlone'
    <2>1. SUFFICES ASSUME NEW q \in Slots, At(q, "insert_block")', Pair(q)' \notin crossed'
                   PROVE  type'[Target(q)'][Actor(q)'] # "blocked"
      BY DEF BlocksAlone
    <2>2. At(q, "insert_block") /\ SameRequest(request'[q], request[q])
      BY <2>1, <1>4, Arriving DEF Accept, DeletePair, At
    <2>3. Actor(q) \in Users /\ Target(q) \in Users
      BY <2>2, <1>4, TwoUsers DEF At, Creating
    <2>4. QED
      BY <1>2, <2>1, <2>2, <2>3, SameUsers DEF PairInv, BlocksAlone
  <1>10. AcceptsAsked'
    <2>1. SUFFICES ASSUME NEW q \in Slots, At(q, "accept")', Pair(q)' \notin overtaken'
                   PROVE  /\ type'[Actor(q)'][Target(q)'] \in Acceptable
                          /\ type'[Target(q)'][Actor(q)'] \in Acceptable
                          /\ <<Target(q)', Actor(q)'>> \in asked'
      BY DEF AcceptsAsked
    <2>2. At(q, "accept") /\ SameRequest(request'[q], request[q])
      BY <2>1, <1>4, Arriving DEF Accept, Incoming, At
    <2>3. Actor(q) \in Users /\ Target(q) \in Users
      BY <2>2, <1>4, TwoUsers DEF At, Creating
    <2>4. QED
      BY <1>2, <1>5, <2>1, <2>2, <2>3, SameUsers DEF PairInv, AcceptsAsked
  <1>11. QED
    BY <1>6, <1>7, <1>8, <1>9, <1>10 DEF PairInv

(* So does the INSERT of a request's two rows, ...                         *)
LEMMA InsertPairKeeps ==
    ASSUME TypeInv, PairInv, NEW p \in Slots, InsertPair(p), type' # type
    PROVE  PairInv'
  <1> DEFINE a == Actor(p)
             t == Target(p)
  <1>1. At(p, "insert_pair") /\ a \in Users /\ t \in Users /\ a # t /\ Pair(p) = {a, t}
    BY TwoUsers DEF InsertPair, At, Creating, TypeInv, Pair
  <1>2. /\ type[a][t] = None /\ type[t][a] = None
        /\ asked' = asked \cup {<<a, t>>} /\ overtaken' = overtaken /\ crossed' = crossed
    BY DEF InsertPair
  <1>3. RequestsPlaced /\ Step(p) /\ RowsTyped
    BY TypeParts DEF TypeInv, Step
  <1>4. None \notin Acceptable
    BY ConstantsAssumption DEF Acceptable, Types
  <1>5. \A u, v \in Users : type'[u][v] = IF u = a /\ v = t THEN "outgoing"
                                     ELSE IF u = t /\ v = a THEN "incoming" ELSE type[u][v]
    BY <1>3, PairInserted
  <1> HIDE DEF a, t
  <1>6. RowsMatch'
    <2>1. SUFFICES ASSUME NEW u \in Users, NEW v \in Users
                   PROVE  /\ {u, v} \notin overtaken' =>
                               <<type'[u][v], type'[v][u]>>
                                  \in Matching \cup {<<"blocked", "blocked">>}
                          /\ {u, v} \notin crossed' =>
                               ~(type'[u][v] = "blocked" /\ type'[v][u] = "blocked")
      BY DEF RowsMatch
    <2>2. CASE {u, v} = {a, t}
      BY <1>1, <1>5, <2>2, SamePair DEF Matching
    <2>3. CASE {u, v} # {a, t}
      <3>1. type'[u][v] = type[u][v] /\ type'[v][u] = type[v][u]
        BY <1>5, <2>3, SamePair
      <3>2. QED
        BY <1>2, <3>1 DEF PairInv, RowsMatch
    <2>4. QED
      BY <2>2, <2>3
  <1>7. OutgoingAsked'
    BY <1>1, <1>2, <1>5 DEF PairInv, OutgoingAsked
  <1>8. FriendsConsented'
    BY <1>1, <1>2, <1>5 DEF PairInv, FriendsConsented
  <1>9. BlocksAlone'
    <2>1. SUFFICES ASSUME NEW q \in Slots, At(q, "insert_block")', Pair(q)' \notin crossed'
                   PROVE  type'[Target(q)'][Actor(q)'] # "blocked"
      BY DEF BlocksAlone
    <2>2. At(q, "insert_block") /\ SameRequest(request'[q], request[q])
      BY <2>1, <1>3, Arriving DEF InsertPair, DeletePair, At
    <2>3. Actor(q) \in Users /\ Target(q) \in Users
      BY <2>2, <1>3, TwoUsers DEF At, Creating
    <2>4. QED
      BY <1>2, <1>5, <2>1, <2>2, <2>3, SameUsers DEF PairInv, BlocksAlone
  <1>10. AcceptsAsked'
    <2>1. SUFFICES ASSUME NEW q \in Slots, At(q, "accept")', Pair(q)' \notin overtaken'
                   PROVE  /\ type'[Actor(q)'][Target(q)'] \in Acceptable
                          /\ type'[Target(q)'][Actor(q)'] \in Acceptable
                          /\ <<Target(q)', Actor(q)'>> \in asked'
      BY DEF AcceptsAsked
    <2>2. At(q, "accept") /\ SameRequest(request'[q], request[q])
      BY <2>1, <1>3, Arriving DEF InsertPair, Incoming, At
    <2>3. Actor(q) \in Users /\ Target(q) \in Users
      BY <2>2, <1>3, TwoUsers DEF At, Creating
    <2>4. QED
      BY <1>2, <1>4, <1>5, <2>1, <2>2, <2>3, SameUsers DEF PairInv, AcceptsAsked
  <1>11. QED
    BY <1>6, <1>7, <1>8, <1>9, <1>10 DEF PairInv

(* ... the DELETE of both rows of a pair, ...                              *)
LEMMA DeletePairKeeps ==
    ASSUME TypeInv, PairInv, NEW p \in Slots, DeletePair(p)
    PROVE  PairInv'
  <1> DEFINE a == Actor(p)
             t == Target(p)
  <1>1. At(p, "delete_pair") /\ a \in Users /\ t \in Users /\ a # t /\ Pair(p) = {a, t}
    BY TwoUsers DEF DeletePair, At, Creating, TypeInv, Pair
  <1>2. /\ asked' = asked \ {<<a, t>>, <<t, a>>} /\ overtaken \subseteq overtaken'
        /\ crossed' = crossed
        /\ \A q \in Slots : At(q, "accept") /\ Pair(q) = Pair(p) => Pair(p) \in overtaken'
    BY DEF DeletePair, When
  <1>3. RequestsPlaced /\ Step(p) /\ RowsTyped
    BY TypeParts DEF TypeInv, Step
  <1>4. None \notin Acceptable /\ None \notin Types
    BY ConstantsAssumption DEF Acceptable, Types
  <1>5. \A u, v \in Users : type'[u][v] =
            IF (u = a /\ v = t) \/ (u = t /\ v = a) THEN None ELSE type[u][v]
    <2>1. type' = [type EXCEPT ![a][t] = None, ![t][a] = None]
      BY DEF DeletePair, WithoutRows
    <2> HIDE DEF a, t
    <2>2. /\ type'[a][t] = None /\ type'[t][a] = None
          /\ \A u, v \in Users : ~(u = a /\ v = t) /\ ~(u = t /\ v = a)
                => type'[u][v] = type[u][v]
      BY <1>1, <1>3, <2>1, BothRows DEF RowsTyped
    <2>3. QED
      BY <2>2
  <1> HIDE DEF a, t
  <1>6. RowsMatch'
    <2>1. SUFFICES ASSUME NEW u \in Users, NEW v \in Users
                   PROVE  /\ {u, v} \notin overtaken' =>
                               <<type'[u][v], type'[v][u]>>
                                  \in Matching \cup {<<"blocked", "blocked">>}
                          /\ {u, v} \notin crossed' =>
                               ~(type'[u][v] = "blocked" /\ type'[v][u] = "blocked")
      BY DEF RowsMatch
    <2>2. CASE {u, v} = {a, t}
      <3>1. type'[u][v] = None /\ type'[v][u] = None
        BY <1>5, <2>2, SamePair
      <3>2. QED
        BY <3>1, <1>4 DEF Matching, Types
    <2>3. CASE {u, v} # {a, t}
      <3>1. type'[u][v] = type[u][v] /\ type'[v][u] = type[v][u]
        BY <1>5, <2>3, SamePair
      <3>2. QED
        BY <1>2, <3>1 DEF PairInv, RowsMatch
    <2>4. QED
      BY <2>2, <2>3
  <1>7. OutgoingAsked'
    BY <1>1, <1>2, <1>4, <1>5 DEF PairInv, OutgoingAsked, Types
  <1>8. FriendsConsented'
    BY <1>1, <1>2, <1>4, <1>5 DEF PairInv, FriendsConsented, Types
  <1>9. BlocksAlone'
    <2>1. SUFFICES ASSUME NEW q \in Slots, At(q, "insert_block")', Pair(q)' \notin crossed'
                   PROVE  type'[Target(q)'][Actor(q)'] # "blocked"
      BY DEF BlocksAlone
    <2>2. At(q, "insert_block") \/ q = p
      BY <2>1, <1>3, Arriving
    <2>3. request[q] # None /\ SameRequest(request'[q], request[q])
      BY <2>1, <1>3, Arriving
    <2>4. CASE q = p
      BY <1>1, <1>4, <1>5, <2>3, <2>4, SameUsers DEF a, t, Types
    <2>5. CASE At(q, "insert_block")
      <3>1. Actor(q) \in Users /\ Target(q) \in Users
        BY <2>3, <2>5, <1>3, TwoUsers DEF At, Creating
      <3>2. QED
        BY <1>2, <1>4, <1>5, <2>1, <2>3, <2>5, <3>1, SameUsers DEF PairInv, BlocksAlone, Types
    <2>6. QED
      BY <2>2, <2>4, <2>5
  <1>10. AcceptsAsked'
    <2>1. SUFFICES ASSUME NEW q \in Slots, At(q, "accept")', Pair(q)' \notin overtaken'
                   PROVE  /\ type'[Actor(q)'][Target(q)'] \in Acceptable
                          /\ type'[Target(q)'][Actor(q)'] \in Acceptable
                          /\ <<Target(q)', Actor(q)'>> \in asked'
      BY DEF AcceptsAsked
    <2>2. At(q, "accept") /\ SameRequest(request'[q], request[q])
      BY <2>1, <1>3, Arriving DEF DeletePair, Incoming, At
    <2>3. Actor(q) \in Users /\ Target(q) \in Users
      BY <2>2, <1>3, TwoUsers DEF At, Creating
    <2>4. Pair(q) # Pair(p) /\ Pair(q) \notin overtaken /\ Pair(q) = {Actor(q), Target(q)}
      BY <1>2, <2>1, <2>2, SameUsers DEF Pair
    <2>5. /\ type'[Actor(q)][Target(q)] = type[Actor(q)][Target(q)]
          /\ type'[Target(q)][Actor(q)] = type[Target(q)][Actor(q)]
          /\ <<Target(q), Actor(q)>> \notin {<<a, t>>, <<t, a>>}
      BY <1>1, <1>5, <2>3, <2>4, SamePair
    <2>6. QED
      BY <1>2, <2>2, <2>4, <2>5, SameUsers DEF PairInv, AcceptsAsked
  <1>11. QED
    BY <1>6, <1>7, <1>8, <1>9, <1>10 DEF PairInv

(* ... the INSERT of a block, ...                                          *)
LEMMA InsertBlockKeeps ==
    ASSUME TypeInv, PairInv, NEW p \in Slots, InsertBlock(p)
    PROVE  PairInv'
  <1> DEFINE a == Actor(p)
             t == Target(p)
  <1>1. At(p, "insert_block") /\ a \in Users /\ t \in Users /\ a # t /\ Pair(p) = {a, t}
    BY TwoUsers DEF InsertBlock, At, Creating, TypeInv, Pair
  <1>2. /\ asked' = asked /\ overtaken' = overtaken /\ crossed \subseteq crossed'
        /\ \A q \in Slots : At(q, "insert_block") /\ Actor(q) = t /\ Target(q) = a
                             => Pair(p) \in crossed'
    BY DEF InsertBlock, When
  <1>3. RequestsPlaced /\ Step(p) /\ RowsTyped
    BY TypeParts DEF TypeInv, Step
  <1>4. None \notin Acceptable /\ None \notin Types
    BY ConstantsAssumption DEF Acceptable, Types
  <1>5. \/ type' = type
        \/ /\ type[a][t] = None
           /\ \A u, v \in Users : type'[u][v] =
                 IF u = a /\ v = t THEN "blocked" ELSE type[u][v]
    <2>1. CASE type[a][t] = None
      <3>1. type' = [type EXCEPT ![a][t] = "blocked"]
        BY <2>1 DEF InsertBlock
      <3> HIDE DEF a, t
      <3>2. QED
        BY <1>1, <1>3, <2>1, <3>1 DEF RowsTyped
    <2>2. CASE type[a][t] # None
      BY <2>2 DEF InsertBlock
    <2>3. QED
      BY <2>1, <2>2
  <1>6. Pair(p) \notin crossed => type[t][a] # "blocked"
    BY <1>1 DEF PairInv, BlocksAlone
  <1> HIDE DEF a, t
  <1>7. CASE type' = type
    <2>1. RowsMatch' /\ OutgoingAsked' /\ FriendsConsented'
      BY <1>2, <1>7 DEF PairInv, RowsMatch, OutgoingAsked, FriendsConsented
    <2>2. BlocksAlone'
      <3>1. SUFFICES ASSUME NEW q \in Slots, At(q, "insert_block")', Pair(q)' \notin crossed'
                     PROVE  type'[Target(q)'][Actor(q)'] # "blocked"
        BY DEF BlocksAlone
      <3>2. At(q, "insert_block") /\ SameRequest(request'[q], request[q])
        BY <3>1, <1>3, Arriving DEF InsertBlock, DeletePair, At
      <3>3. QED
        BY <1>2, <1>7, <3>1, <3>2, SameUsers DEF PairInv, BlocksAlone
    <2>3. AcceptsAsked'
      <3>1. SUFFICES ASSUME NEW q \in Slots, At(q, "accept")', Pair(q)' \notin overtaken'
                     PROVE  /\ type'[Actor(q)'][Target(q)'] \in Acceptable
                            /\ type'[Target(q)'][Actor(q)'] \in Acceptable
                            /\ <<Target(q)', Actor(q)'>> \in asked'
        BY DEF AcceptsAsked
      <3>2. At(q, "accept") /\ SameRequest(request'[q], request[q])
        BY <3>1, <1>3, Arriving DEF InsertBlock, Incoming, At
      <3>3. QED
        BY <1>2, <1>7, <3>1, <3>2, SameUsers DEF PairInv, AcceptsAsked
    <2>4. QED
      BY <2>1, <2>2, <2>3 DEF PairInv
  <1>8. CASE /\ type[a][t] = None
             /\ \A u, v \in Users : type'[u][v] =
                   IF u = a /\ v = t THEN "blocked" ELSE type[u][v]
    <2>1. RowsMatch'
      <3>1. SUFFICES ASSUME NEW u \in Users, NEW v \in Users
                     PROVE  /\ {u, v} \notin overtaken' =>
                                 <<type'[u][v], type'[v][u]>>
                                    \in Matching \cup {<<"blocked", "blocked">>}
                            /\ {u, v} \notin crossed' =>
                                 ~(type'[u][v] = "blocked" /\ type'[v][u] = "blocked")
        BY DEF RowsMatch
      <3>2. CASE {u, v} = {a, t}
        <4>1. {a, t} \notin overtaken => type[t][a] \in {None, "blocked"}
          BY <1>1, <1>4, <1>8 DEF PairInv, RowsMatch, Matching, Types
        <4>2. type'[a][t] = "blocked" /\ type'[t][a] = type[t][a]
          BY <1>1, <1>8
        <4>3. (u = a /\ v = t) \/ (u = t /\ v = a)
          BY <3>2, SamePair
        <4>4. {u, v} \notin overtaken' =>
                <<type'[u][v], type'[v][u]>> \in Matching \cup {<<"blocked", "blocked">>}
          BY <1>2, <3>2, <4>1, <4>2, <4>3 DEF Matching
        <4>5. {u, v} \notin crossed' => ~(type'[u][v] = "blocked" /\ type'[v][u] = "blocked")
          BY <1>1, <1>2, <1>6, <3>2, <4>2, <4>3
        <4>6. QED
          BY <4>4, <4>5
      <3>3. CASE {u, v} # {a, t}
        <4>1. type'[u][v] = type[u][v] /\ type'[v][u] = type[v][u]
          BY <1>8, <3>3, SamePair
        <4>2. QED
          BY <1>2, <4>1 DEF PairInv, RowsMatch
      <3>4. QED
        BY <3>2, <3>3
    <2>2. OutgoingAsked'
      BY <1>2, <1>8 DEF PairInv, OutgoingAsked
    <2>3. FriendsConsented'
      BY <1>2, <1>8 DEF PairInv, FriendsConsented
    <2>4. BlocksAlone'
      <3>1. SUFFICES ASSUME NEW q \in Slots, At(q, "insert_block")', Pair(q)' \notin crossed'
                     PROVE  type'[Target(q)'][Actor(q)'] # "blocked"
        BY DEF BlocksAlone
      <3>2. At(q, "insert_block") /\ SameRequest(request'[q], request[q])
        BY <3>1, <1>3, Arriving DEF InsertBlock, DeletePair, At
      <3>3. Actor(q) \in Users /\ Target(q) \in Users
        BY <3>2, <1>3, TwoUsers DEF At, Creating
      <3>4. Pair(q) \notin crossed' /\ Pair(q) \notin crossed
        BY <1>2, <3>1, <3>2, SameUsers
      <3>5. ~(Actor(q) = t /\ Target(q) = a)
        BY <1>1, <1>2, <3>2, <3>4 DEF Pair
      <3>6. QED
        BY <1>8, <3>2, <3>3, <3>4, <3>5, SameUsers DEF PairInv, BlocksAlone
    <2>5. AcceptsAsked'
      <3>1. SUFFICES ASSUME NEW q \in Slots, At(q, "accept")', Pair(q)' \notin overtaken'
                     PROVE  /\ type'[Actor(q)'][Target(q)'] \in Acceptable
                            /\ type'[Target(q)'][Actor(q)'] \in Acceptable
                            /\ <<Target(q)', Actor(q)'>> \in asked'
        BY DEF AcceptsAsked
      <3>2. At(q, "accept") /\ SameRequest(request'[q], request[q])
        BY <3>1, <1>3, Arriving DEF InsertBlock, Incoming, At
      <3>3. Actor(q) \in Users /\ Target(q) \in Users
        BY <3>2, <1>3, TwoUsers DEF At, Creating
      <3>4. QED
        BY <1>2, <1>4, <1>8, <3>1, <3>2, <3>3, SameUsers DEF PairInv, AcceptsAsked
    <2>6. QED
      BY <2>1, <2>2, <2>3, <2>4, <2>5 DEF PairInv
  <1>9. QED
    BY <1>5, <1>7, <1>8

(* ... and whatever writes no row.                                         *)
LEMMA OthersKeep ==
    ASSUME TypeInv, PairInv, NEW p \in Slots, Step(p),
           UNCHANGED <<type, asked, overtaken, crossed>>, ~DeletePair(p)
    PROVE  PairInv'
  <1>1. RequestsPlaced
    BY DEF TypeInv
  <1>2. RowsMatch' /\ OutgoingAsked' /\ FriendsConsented'
    BY DEF PairInv, RowsMatch, OutgoingAsked, FriendsConsented
  <1>3. BlocksAlone'
    <2>1. SUFFICES ASSUME NEW q \in Slots, At(q, "insert_block")', Pair(q)' \notin crossed'
                   PROVE  type'[Target(q)'][Actor(q)'] # "blocked"
      BY DEF BlocksAlone
    <2>2. At(q, "insert_block") /\ SameRequest(request'[q], request[q])
      BY <1>1, <2>1, Arriving
    <2>3. QED
      BY <2>1, <2>2, SameUsers DEF PairInv, BlocksAlone
  <1>4. AcceptsAsked'
    <2>1. SUFFICES ASSUME NEW q \in Slots, At(q, "accept")', Pair(q)' \notin overtaken'
                   PROVE  /\ type'[Actor(q)'][Target(q)'] \in Acceptable
                          /\ type'[Target(q)'][Actor(q)'] \in Acceptable
                          /\ <<Target(q)', Actor(q)'>> \in asked'
      BY DEF AcceptsAsked
    <2>2. /\ request[q] # None /\ SameRequest(request'[q], request[q])
          /\ \/ At(q, "accept")
             \/ q = p /\ Incoming(p) /\ type[Actor(p)][Target(p)] = "incoming"
      BY <1>1, <2>1, Arriving
    <2>3. CASE At(q, "accept")
      BY <2>1, <2>2, <2>3, SameUsers DEF PairInv, AcceptsAsked
    <2>4. CASE q = p /\ Incoming(p) /\ type[Actor(p)][Target(p)] = "incoming"
      <3> DEFINE a == Actor(p)
                 t == Target(p)
      <3>1. a \in Users /\ t \in Users /\ a # t /\ Pair(p) = {a, t}
        BY <1>1, <2>2, <2>4, TwoUsers DEF Incoming, At, Creating, Pair
      <3>2. {a, t} \notin overtaken /\ {t, a} \notin overtaken
        BY <2>1, <2>2, <2>4, <3>1, SameUsers
      <3>3. type[a][t] = "incoming"
        BY <2>4
      <3> HIDE DEF a, t
      <3>4. type[t][a] = "outgoing"
        BY <3>1, <3>2, <3>3, ConstantsAssumption DEF PairInv, RowsMatch, Matching, Types
      <3>5. <<t, a>> \in asked
        BY <3>1, <3>2, <3>4 DEF PairInv, OutgoingAsked
      <3>6. QED
        BY <2>2, <2>4, <3>3, <3>4, <3>5, SameUsers DEF a, t, Acceptable
    <2>5. QED
      BY <2>2, <2>3, <2>4
  <1>5. QED
    BY <1>2, <1>3, <1>4 DEF PairInv

(* An INSERT that conflicts leaves nothing asked.                          *)
LEMMA NoRowInserted ==
    ASSUME TypeInv, NEW p \in Slots, InsertPair(p), type' = type
    PROVE  asked' = asked
  <1> DEFINE a == Actor(p)
             t == Target(p)
  <1>1. CASE type[a][t] = None /\ type[t][a] = None
    <2>1. type' = [type EXCEPT ![a][t] = "outgoing", ![t][a] = "incoming"]
      BY <1>1 DEF InsertPair
    <2>2. a \in Users /\ t \in Users /\ a # t
      BY TwoUsers DEF InsertPair, At, Creating, TypeInv
    <2>3. "outgoing" \in Types \cup {None} /\ "incoming" \in Types \cup {None}
      BY DEF Types
    <2>4. RowsTyped
      BY TypeParts
    <2> HIDE DEF a, t
    <2>5. type'[a][t] = "outgoing"
      BY <2>1, <2>2, <2>3, <2>4, BothRows DEF RowsTyped
    <2>6. QED
      BY <1>1, <2>5, ConstantsAssumption DEF Types
  <1>2. CASE ~(type[a][t] = None /\ type[t][a] = None)
    BY <1>2 DEF InsertPair
  <1>3. QED
    BY <1>1, <1>2

(* Every step keeps what is known of the pairs.                            *)
LEMMA PairsStay == TypeInv /\ PairInv /\ [Next]_vars => PairInv'
  <1>1. SUFFICES ASSUME TypeInv, PairInv, [Next]_vars
                 PROVE  PairInv'
    OBVIOUS
  <1>2. CASE Next
    <2>1. PICK p \in Slots : Step(p)
      BY <1>2 DEF Next, Step
    <2>2. CASE Accept(p)
      BY <1>1, <2>2, AcceptKeeps
    <2>3. CASE InsertPair(p) /\ type' # type
      BY <1>1, <2>3, InsertPairKeeps
    <2>4. CASE DeletePair(p)
      BY <1>1, <2>4, DeletePairKeeps
    <2>5. CASE InsertBlock(p)
      BY <1>1, <2>5, InsertBlockKeeps
    <2>6. CASE UNCHANGED <<type, asked, overtaken, crossed>> /\ ~DeletePair(p)
      BY <1>1, <2>1, <2>6, OthersKeep
    <2>7. QED
      <3>1. CASE InsertPair(p) /\ type' = type
        <4>1. At(p, "insert_pair") /\ Placed(request[p])
          BY <1>1, <3>1 DEF InsertPair, At, TypeInv, RequestsPlaced
        <4>2. ~DeletePair(p)
          BY <4>1 DEF DeletePair, At
        <4>3. asked' = asked
          BY <1>1, <3>1, NoRowInserted DEF InsertPair
        <4>4. QED
          BY <2>6, <3>1, <4>2, <4>3 DEF InsertPair
      <3>2. CASE \/ Start(p) \/ Fail(p) \/ Unblocked(p) \/ NotBlocking(p) \/ Incoming(p)
                 \/ Existing(p) \/ DmUnblocked(p) \/ DmExisting(p) \/ InsertChannel(p)
                 \/ AddRecipient(p)
        <4>1. UNCHANGED <<type, asked, overtaken, crossed>>
          BY <3>2 DEF Start, Fail, Unblocked, NotBlocking, Incoming, Existing, DmUnblocked,
                      DmExisting, InsertChannel, AddRecipient, Check, rows, history
        <4>2. CASE DeletePair(p)
          BY <2>4, <4>2
        <4>3. QED
          BY <2>6, <4>1, <4>2
      <3>3. QED
        BY <2>1, <2>2, <2>3, <2>4, <2>5, <3>1, <3>2 DEF Step
  <1>3. CASE UNCHANGED vars
    BY <1>1, <1>3 DEF vars, rows, history, PairInv, RowsMatch, BlocksAlone, AcceptsAsked,
                      OutgoingAsked, FriendsConsented, At, Pair, Actor, Target
  <1>4. QED
    BY <1>1, <1>2, <1>3

(* The rows of a pair match, and nobody is a friend without both having    *)
(* asked, however the statements of any number of requests interleave and  *)
(* fail, unless the pair's rows were deleted under an acceptance (or, for  *)
(* the first, the two blocked one another at once).                        *)
THEOREM PairsHold == Spec => []PairInv
  <1>1. Init => PairInv
    BY ConstantsAssumption
       DEF Init, PairInv, RowsMatch, BlocksAlone, AcceptsAsked, OutgoingAsked,
           FriendsConsented, Matching, At, Types
  <1>2. QED
    BY <1>1, PairsStay, TypeInvHolds, PTL DEF Spec

(* Accepting, removing and blocking leave the two rows of a pair matching: *)
(* what one has for the other is what the other has for the one, turned    *)
(* round, with the exceptions of the theorem above.                        *)
THEOREM RowsAlwaysMatch == Spec => []PairsMatch
  <1>1. PairInv => PairsMatch
    BY DEF PairInv, RowsMatch, PairsMatch, Matching
  <1>2. QED
    BY <1>1, PairsHold, PTL

(* create_relationship makes nobody a friend without his having asked or   *)
(* accepted, unless his answer was overtaken.                              *)
THEOREM FriendsAlwaysConsented == Spec => []FriendsConsented
  <1>1. PairInv => FriendsConsented
    BY DEF PairInv
  <1>2. QED
    BY <1>1, PairsHold, PTL

-----------------------------------------------------------------------------
(* Direct channels after a step.                                           *)

(* A request makes a direct channel after a step when it did before, or    *)
(* has just found none.                                                    *)
LEMMA Opened ==
    ASSUME RequestsPlaced, NEW p \in Slots, Step(p), NEW q \in Slots, Opens(q)'
    PROVE  /\ request[q] # None /\ SameRequest(request'[q], request[q])
           /\ request[q].op = "create_dm_channel"
           /\ \/ Opens(q) /\ (At(q, "add_recipients") => At(q, "add_recipients")')
              \/ q = p /\ DmExisting(p) /\ Direct(Pair(p)) = {}
  <1>1. CASE q # p
    BY <1>1, Moving DEF Opens, AtOneOf, At, SameRequest
  <1>2. CASE q = p /\ Start(p)
    <2>1. Started(request'[p]) /\ request'[p].op \in DOMAIN Handler
      BY <1>2, Starting DEF Started, Placed, Requests
    <2>2. ~Opens(q)'
      BY <1>2, <2>1, FirstStatement, Operations DEF Started, Opens, AtOneOf, Creating
    <2>3. QED
      BY <2>2
  <1>3. CASE q = p /\ ~Start(p)
    <2>1. request[p] # None /\ Advanced(p, request'[p])
      BY <1>3, Moving DEF Opens, AtOneOf
    <2>2. request[p].op = "create_dm_channel" /\ request'[p].at \in Creating
      BY <1>3, <2>1 DEF Advanced, SameRequest, Opens, AtOneOf
    <2>3. CASE request'[p].at = "insert_channel"
      BY <1>3, <2>1, <2>2, <2>3 DEF Advanced
    <2>4. CASE request'[p].at = "add_recipients"
      <3>1. InsertChannel(p) \/ AddRecipient(p)
        BY <2>1, <2>4 DEF Advanced
      <3>2. request[p].at \in Creating
        BY <3>1 DEF InsertChannel, AddRecipient, At, Creating
      <3>3. QED
        BY <1>3, <2>1, <2>2, <2>4, <3>2 DEF Opens, AtOneOf, At, Advanced
    <2>5. QED
      BY <2>2, <2>3, <2>4 DEF Creating
  <1>4. QED
    BY <1>1, <1>2, <1>3

(* The channel and the recipients to add, when neither statement about     *)
(* them is made.                                                           *)
LEMMA SameTodo ==
    ASSUME RequestsPlaced, NEW p \in Slots, Step(p), NEW q \in Slots,
           request'[q] # None, ~Start(p) \/ q # p, ~AddRecipient(p) \/ q # p
    PROVE  /\ request[q] # None /\ SameRequest(request'[q], request[q])
           /\ request'[q].todo = request[q].todo
           /\ ~InsertChannel(p) \/ q # p => request'[q].channel = request[q].channel
           /\ At(q, "add_recipients")' /\ (~InsertChannel(p) \/ q # p)
                 => At(q, "add_recipients")
  <1>1. CASE q # p
    BY <1>1, Moving DEF SameRequest, At
  <1>2. CASE q = p
    BY <1>2, Moving DEF Advanced, At
  <1>3. QED
    BY <1>1, <1>2

(* A request that has just come adds its pair.                             *)
LEMMA StartedAddsPair ==
    ASSUME NEW r, Started(r), r.op = "create_dm_channel"
    PROVE  /\ \A i \in 1 .. Len(r.todo) : r.todo[i] \in {r.actor, Head(r.to)}
           /\ r.at # "add_recipients"
  <1>1. r \in Requests /\ Len(r.to) = 1 /\ r.todo = <<r.actor>> \o r.to
    BY DEF Started, Placed
  <1>2. r.to \in Seq(Users) /\ r.actor \in Users
    BY <1>1 DEF Requests
  <1> DEFINE to == r.to
             a  == r.actor
  <1>3. to \in Seq(Users) /\ Len(to) = 1 /\ a \in Users
    BY <1>1, <1>2
  <1> HIDE DEF to, a
  <1>4. \A i \in 1 .. Len(<<a>> \o to) : (<<a>> \o to)[i] \in {a, Head(to)}
    <2>1. Len(<<a>> \o to) = 2 /\ (<<a>> \o to)[1] = a /\ (<<a>> \o to)[2] = to[1]
      <3> DEFINE first == <<a>>
      <3>1. first \in Seq(Users) /\ Len(first) = 1 /\ first[1] = a
        BY <1>3
      <3> HIDE DEF first
      <3>2. /\ Len(first \o to) = Len(first) + Len(to)
            /\ \A i \in 1 .. Len(first) + Len(to) :
                  (first \o to)[i] = IF i <= Len(first) THEN first[i] ELSE to[i - Len(first)]
        BY <1>3, <3>1, ConcatProperties
      <3>3. Len(first \o to) = 2
        BY <1>3, <3>1, <3>2
      <3>4. (first \o to)[1] = first[1] /\ (first \o to)[2] = to[1]
        BY <1>3, <3>1, <3>2
      <3>5. QED
        BY <3>1, <3>2, <3>3, <3>4 DEF first
    <2>2. to[1] = Head(to)
      BY <1>3
    <2>3. \A i \in 1 .. 2 : i = 1 \/ i = 2
      OBVIOUS
    <2>4. QED
      BY <2>1, <2>2, <2>3
  <1>5. r.at = "dm_unblocked"
    BY FirstStatement DEF Started
  <1>6. QED
    BY <1>1, <1>4, <1>5 DEF to, a

(* Every step keeps recipients those of the request that adds them.        *)
LEMMA AddsItsPairStays ==
    ASSUME TypeInv, AddsItsPair, NEW p \in Slots, Step(p)
    PROVE  AddsItsPair'
  <1>1. RequestsPlaced /\ ChannelsTyped /\ OwnChannels
    BY TypeParts
  <1>2. SUFFICES ASSUME NEW q \in Slots, request'[q] # None,
                        request'[q].op = "create_dm_channel"
                 PROVE  /\ \A i \in 1 .. Len(request'[q].todo) : request'[q].todo[i] \in Pair(q)'
                        /\ At(q, "add_recipients")' =>
                             recipients'[request'[q].channel] \subseteq Pair(q)'
    BY DEF AddsItsPair
  <1>3. CASE Start(p) /\ q = p
    <2>1. Started(request'[p])
      BY <1>1, <1>3, Starting
    <2>2. QED
      BY <1>2, <1>3, <2>1, StartedAddsPair DEF At, Pair, Actor, Target
  <1>4. CASE AddRecipient(p) /\ q = p
    <2> DEFINE c    == request[p].channel
               todo == request[p].todo
    <2>1. At(p, "add_recipients") /\ request[p] # None /\ Placed(request[p])
      BY <1>1, <1>4 DEF AddRecipient, At, RequestsPlaced
    <2>2. todo \in Seq(Users) /\ todo # <<>> /\ c \in Channels
      BY <1>1, <2>1 DEF Placed, Requests, OwnChannels
    <2>3. ~Start(p) /\ ~InsertChannel(p)
      BY <2>1 DEF Start, InsertChannel, At
    <2>4. Advanced(p, request'[p])
      BY <1>1, <1>2, <1>4, <2>3, Moving
    <2>5. SameRequest(request'[p], request[p]) /\ request'[p].channel = c
      BY <2>3, <2>4 DEF Advanced
    <2>6. Pair(p)' = Pair(p) /\ request[p].op = "create_dm_channel"
      BY <1>2, <1>4, <2>5, SameUsers DEF SameRequest
    <2>7. /\ \A i \in 1 .. Len(todo) : todo[i] \in Pair(p)
          /\ recipients[c] \subseteq Pair(p)
      BY <2>1, <2>6 DEF AddsItsPair
    <2>8. request'[p].todo = todo \/ request'[p].todo = Tail(todo)
      <3>1. CASE Proceed(p)
        BY <1>1, <1>2, <1>4, <2>1, <3>1, Proceeding
      <3>2. CASE Refuse(p)
        BY <1>1, <1>2, <1>4, <3>2, Refusing
      <3>3. CASE request' = [request EXCEPT ![p].todo = Tail(@)]
        <4>1. request[p] \in Requests
          BY <2>1 DEF Placed
        <4>2. [request[p] EXCEPT !.todo = Tail(request[p].todo)].todo = Tail(todo)
          BY <4>1 DEF Requests
        <4>3. request' = [request EXCEPT ![p] = [request[p] EXCEPT !.todo = Tail(request[p].todo)]]
          BY <1>1, <3>3 DEF RequestsPlaced
        <4>4. QED
          BY <1>1, <4>2, <4>3 DEF RequestsPlaced
      <3>4. QED
        BY <1>4, <3>1, <3>2, <3>3 DEF AddRecipient
    <2>9. recipients' = [recipients EXCEPT ![c] = @ \cup {Head(todo)}]
      BY <1>4 DEF AddRecipient
    <2> HIDE DEF c, todo
    <2>10. Head(todo) \in Pair(p)
      BY <2>2, <2>7
    <2>11. \A i \in 1 .. Len(Tail(todo)) : Tail(todo)[i] \in Pair(p)
      BY <2>2, <2>7
    <2>12. recipients'[c] \subseteq Pair(p)
      BY <1>1, <2>2, <2>7, <2>9, <2>10 DEF ChannelsTyped
    <2>13. QED
      BY <1>4, <2>5, <2>6, <2>7, <2>8, <2>11, <2>12
  <1>5. CASE (~Start(p) \/ q # p) /\ (~AddRecipient(p) \/ q # p)
    <2>1. /\ request[q] # None /\ SameRequest(request'[q], request[q])
          /\ request'[q].todo = request[q].todo
          /\ ~InsertChannel(p) \/ q # p =>
                /\ request'[q].channel = request[q].channel
                /\ At(q, "add_recipients")' => At(q, "add_recipients")
      BY <1>1, <1>2, <1>5, SameTodo
    <2>2. request[q].op = "create_dm_channel" /\ Pair(q)' = Pair(q)
      BY <1>2, <2>1, SameUsers DEF SameRequest
    <2>3. \A i \in 1 .. Len(request'[q].todo) : request'[q].todo[i] \in Pair(q)'
      BY <2>1, <2>2 DEF AddsItsPair
    <2>4. CASE InsertChannel(p) /\ q = p
      <3>1. PICK c \in Channels : Inserted(p, c)
        BY <1>1, <2>4, Inserting
      <3>2. recipients'[c] = {} /\ request'[p].channel = c
        BY <1>1, <2>4, <3>1 DEF Inserted, ChannelsTyped, InsertChannel
      <3>3. QED
        BY <2>3, <2>4, <3>2
    <2>5. CASE ~InsertChannel(p) \/ q # p
      <3>1. SUFFICES ASSUME At(q, "add_recipients")'
                     PROVE  recipients'[request'[q].channel] \subseteq Pair(q)'
        BY <2>3
      <3>2. /\ At(q, "add_recipients") /\ request'[q].channel = request[q].channel
            /\ recipients[request[q].channel] \subseteq Pair(q)
        BY <2>1, <2>2, <2>5, <3>1 DEF AddsItsPair
      <3>3. recipients'[request[q].channel] = recipients[request[q].channel]
        <4>1. CASE AddRecipient(p)
          <5>1. At(p, "add_recipients") /\ q # p
            BY <1>5, <4>1 DEF AddRecipient
          <5>2. request[q].channel \in Channels /\ request[q].channel # request[p].channel
            BY <1>1, <3>2, <5>1 DEF OwnChannels
          <5>3. QED
            BY <1>1, <4>1, <5>2 DEF AddRecipient, ChannelsTyped
        <4>2. CASE recipients' = recipients
          BY <4>2
        <4>3. QED
          BY <4>1, <4>2
             DEF Step, Start, Fail, Accept, InsertPair, DeletePair, InsertBlock, Unblocked,
                 NotBlocking, Incoming, Existing, DmUnblocked, DmExisting, InsertChannel,
                 Check, rows
      <3>4. QED
        BY <2>2, <3>2, <3>3
    <2>6. QED
      BY <2>4, <2>5
  <1>6. QED
    BY <1>3, <1>4, <1>5

(* A step that leaves the recipients makes no direct channel of a pair.    *)
LEMMA DirectStays ==
    ASSUME TypeInv, NEW p \in Slots, Step(p), ~AddRecipient(p), NEW u, NEW v
    PROVE  Direct({u, v})' = Direct({u, v})
  <1>1. RequestsPlaced /\ ChannelsTyped
    BY TypeParts
  <1>2. CASE InsertChannel(p)
    <2>1. PICK c \in Channels : Inserted(p, c)
      BY <1>1, <1>2, Inserting
    <2>2. recipients' = recipients /\ recipients[c] = {}
      BY <1>1, <1>2, <2>1 DEF Inserted, ChannelsTyped, InsertChannel
    <2>3. \A d \in Channels \ {c} : channels'[d] = channels[d]
      BY <1>1, <2>1 DEF Inserted, ChannelsTyped
    <2>4. QED
      BY <2>2, <2>3 DEF Direct
  <1>3. CASE UNCHANGED <<channels, recipients>>
    BY <1>3 DEF Direct
  <1>4. QED
    BY <1>2, <1>3
       DEF Step, Start, Fail, Accept, InsertPair, DeletePair, InsertBlock, Unblocked,
           NotBlocking, Incoming, Existing, DmUnblocked, DmExisting, Check, rows

(* Pairs are only added to doubled, and are when two look for a channel at *)
(* once.                                                                   *)
LEMMA DoubledGrows ==
    ASSUME NEW p \in Slots, Step(p)
    PROVE  /\ doubled \subseteq doubled'
           /\ DmExisting(p) /\ Direct(Pair(p)) = {} =>
                \A q \in Slots : Opens(q) /\ Pair(q) = Pair(p) => Pair(p) \in doubled'
  <1>1. CASE DmExisting(p)
    BY <1>1 DEF DmExisting, When, Opens, Creating
  <1>2. CASE ~DmExisting(p) /\ doubled' = doubled
    BY <1>2
  <1>3. QED
    BY <1>1, <1>2
       DEF Step, Start, Fail, Accept, InsertPair, DeletePair, InsertBlock, Unblocked,
           NotBlocking, Incoming, Existing, DmUnblocked, InsertChannel, AddRecipient,
           Check, rows, history

(* Every step keeps one request at most opening a channel of a pair.       *)
LEMMA OneOpensStays ==
    ASSUME TypeInv, ChannelInv, NEW p \in Slots, Step(p)
    PROVE  OneOpens'
  <1>1. RequestsPlaced
    BY DEF TypeInv
  <1>2. SUFFICES ASSUME NEW q \in Slots, NEW r \in Slots, Opens(q)', Opens(r)', q # r,
                        Pair(q)' = Pair(r)'
                 PROVE  Pair(q)' \in doubled'
    BY DEF OneOpens
  <1>3. Pair(q)' = Pair(q) /\ Pair(r)' = Pair(r)
    BY <1>1, <1>2, Opened, SameUsers
  <1>4. /\ Opens(q) \/ (q = p /\ DmExisting(p) /\ Direct(Pair(p)) = {})
        /\ Opens(r) \/ (r = p /\ DmExisting(p) /\ Direct(Pair(p)) = {})
    BY <1>1, <1>2, Opened
  <1>5. CASE Opens(q) /\ Opens(r)
    BY <1>2, <1>3, <1>5, DoubledGrows DEF ChannelInv, OneOpens
  <1>6. CASE Opens(q) /\ r = p /\ DmExisting(p) /\ Direct(Pair(p)) = {}
    BY <1>2, <1>3, <1>6, DoubledGrows
  <1>7. CASE Opens(r) /\ q = p /\ DmExisting(p) /\ Direct(Pair(p)) = {}
    BY <1>2, <1>3, <1>7, DoubledGrows
  <1>8. QED
    BY <1>2, <1>4, <1>5, <1>6, <1>7

(* The one step that makes a direct channel of a pair: of the two of the   *)
(* request alone, and in the request's own channel.                        *)
LEMMA DirectMade ==
    ASSUME TypeInv, ChannelInv, NEW p \in Slots, AddRecipient(p),
           NEW u \in Users, NEW v \in Users, u # v,
           NEW c \in Direct({u, v})', c \notin Direct({u, v})
    PROVE  Opens(p) /\ Pair(p) = {u, v} /\ c = request[p].channel
  <1> DEFINE own == request[p].channel
  <1>1. RequestsPlaced /\ ChannelsTyped /\ OwnChannels
    BY TypeParts
  <1>2. At(p, "add_recipients") /\ request[p] # None /\ Placed(request[p])
    BY <1>1 DEF AddRecipient, At, RequestsPlaced
  <1>3. own \in Channels
    BY <1>1, <1>2 DEF OwnChannels
  <1>4. /\ channels' = channels
        /\ recipients' = [recipients EXCEPT ![own] = @ \cup {Head(request[p].todo)}]
    BY DEF AddRecipient
  <1>5. c \in Channels /\ channels[c] = "direct" /\ {u, v} \subseteq recipients'[c]
        /\ c = own
    BY <1>1, <1>3, <1>4 DEF Direct, ChannelsTyped
  <1>6. request[p].op = "create_dm_channel"
    BY <1>1, <1>2, <1>5 DEF OwnChannels
  <1>7. Opens(p)
    BY <1>2, <1>6 DEF Opens, AtOneOf, At, Creating
  <1>8. recipients[own] \subseteq Pair(p) /\ Head(request[p].todo) \in Pair(p)
    <2>1. request[p].todo \in Seq(Users) /\ request[p].todo # <<>>
      BY <1>2 DEF Placed, Requests
    <2>2. \A i \in 1 .. Len(request[p].todo) : request[p].todo[i] \in Pair(p)
      BY <1>2, <1>6 DEF ChannelInv, AddsItsPair
    <2>3. QED
      BY <1>2, <1>6, <2>1, <2>2 DEF ChannelInv, AddsItsPair
  <1>9. u \in Pair(p) /\ v \in Pair(p)
    BY <1>1, <1>3, <1>4, <1>5, <1>8 DEF ChannelsTyped
  <1>10. Pair(p) = {u, v}
    BY <1>9 DEF Pair
  <1>11. QED
    BY <1>5, <1>7, <1>10

(* Every step keeps the pair of a request that opens without a channel.    *)
LEMMA OpensTheOnlyStays ==
    ASSUME TypeInv, ChannelInv, NEW p \in Slots, Step(p)
    PROVE  OpensTheOnly'
  <1>1. RequestsPlaced /\ OwnChannels
    BY DEF TypeInv
  <1>2. SUFFICES ASSUME NEW q \in Slots, Opens(q)', Pair(q)' \notin doubled',
                        NEW c \in Direct(Pair(q))'
                 PROVE  At(q, "add_recipients")' /\ c = request'[q].channel
    BY DEF OpensTheOnly
  <1>3. /\ request[q] # None /\ SameRequest(request'[q], request[q])
        /\ request[q].op = "create_dm_channel"
        /\ \/ Opens(q) /\ (At(q, "add_recipients") => At(q, "add_recipients")')
           \/ q = p /\ DmExisting(p) /\ Direct(Pair(p)) = {}
    BY <1>1, <1>2, Opened
  <1>4. PICK u \in Users, v \in Users :
            Pair(q)' = Pair(q) /\ Pair(q) = {u, v} /\ u # v /\ Pair(q) \notin doubled
    BY <1>1, <1>2, <1>3, TwoUsers, SameUsers, DoubledGrows DEF Pair
  <1>5. c \in Direct({u, v})'
    BY <1>2, <1>4 DEF Direct
  <1>6. CASE c \in Direct({u, v})
    <2>1. Opens(q) /\ At(q, "add_recipients")' /\ At(q, "add_recipients")
          /\ c = request[q].channel
      <3>1. CASE Opens(q)
        BY <1>3, <1>4, <1>6, <3>1 DEF ChannelInv, OpensTheOnly
      <3>2. CASE q = p /\ DmExisting(p) /\ Direct(Pair(p)) = {}
        BY <1>4, <1>6, <3>2
      <3>3. QED
        BY <1>3, <3>1, <3>2
    <2>2. ~InsertChannel(p) \/ q # p
      BY <2>1 DEF InsertChannel, At
    <2>3. request'[q].channel = request[q].channel
      <3>1. CASE q # p
        BY <1>1, <3>1, Moving
      <3>2. CASE q = p
        <4>1. ~Start(p)
          BY <1>3, <3>2 DEF Start
        <4>2. QED
          BY <1>1, <1>2, <2>2, <3>2, <4>1, Moving DEF Advanced, Opens, AtOneOf
      <3>3. QED
        BY <3>1, <3>2
    <2>4. QED
      BY <2>1, <2>3
  <1>7. CASE c \notin Direct({u, v})
    <2>1. AddRecipient(p)
      BY <1>5, <1>7, DirectStays
    <2>2. Opens(p) /\ Pair(p) = {u, v} /\ c = request[p].channel
      BY <1>4, <1>5, <1>7, <2>1, DirectMade
    <2>3. ~DmExisting(p) /\ ~InsertChannel(p) /\ ~Start(p) /\ At(p, "add_recipients")
      BY <2>1 DEF AddRecipient, DmExisting, InsertChannel, Start, At
    <2>4. Opens(q) /\ (At(q, "add_recipients") => At(q, "add_recipients")')
      BY <1>3, <2>3
    <2>5. q = p
      BY <1>4, <2>2, <2>4 DEF ChannelInv, OneOpens
    <2>6. request'[p].channel = request[p].channel
      BY <1>1, <1>2, <2>3, <2>5, Moving DEF Advanced, Opens, AtOneOf
    <2>7. QED
      BY <2>2, <2>3, <2>4, <2>5, <2>6
  <1>8. QED
    BY <1>6, <1>7

(* Every step keeps one channel at most for each pair.                     *)
LEMMA OnlyOneStays ==
    ASSUME TypeInv, ChannelInv, NEW p \in Slots, Step(p)
    PROVE  OnlyOne'
  <1>1. SUFFICES ASSUME NEW u \in Users, NEW v \in Users, u # v, {u, v} \notin doubled',
                        NEW c \in Direct({u, v})', NEW d \in Direct({u, v})'
                 PROVE  c = d
    BY DEF OnlyOne
  <1>2. {u, v} \notin doubled
    BY <1>1, DoubledGrows
  <1>3. CASE c \in Direct({u, v}) /\ d \in Direct({u, v})
    BY <1>1, <1>2, <1>3 DEF ChannelInv, OnlyOne
  <1>4. CASE ~(c \in Direct({u, v}) /\ d \in Direct({u, v}))
    <2>1. AddRecipient(p)
      BY <1>1, <1>4, DirectStays
    <2>2. Opens(p) /\ Pair(p) = {u, v}
      BY <1>1, <1>4, <2>1, DirectMade
    <2>3. \A e \in Direct({u, v}) : e = request[p].channel
      BY <1>2, <2>2 DEF ChannelInv, OpensTheOnly
    <2>4. c = request[p].channel
      BY <1>1, <2>1, <2>3, DirectMade
    <2>5. d = request[p].channel
      BY <1>1, <2>1, <2>3, DirectMade
    <2>6. QED
      BY <2>4, <2>5
  <1>5. QED
    BY <1>3, <1>4

(* The parts about channels together are kept by every step.               *)
LEMMA ChannelsStay == TypeInv /\ ChannelInv /\ [Next]_vars => ChannelInv'
  <1>1. SUFFICES ASSUME TypeInv, ChannelInv, [Next]_vars
                 PROVE  ChannelInv'
    OBVIOUS
  <1>2. CASE Next
    <2>1. PICK p \in Slots : Step(p)
      BY <1>2 DEF Next, Step
    <2>2. QED
      BY <1>1, <2>1, AddsItsPairStays, OneOpensStays, OpensTheOnlyStays, OnlyOneStays
         DEF ChannelInv
  <1>3. CASE UNCHANGED vars
    <2>1. UNCHANGED <<channels, recipients, request, doubled>>
      BY <1>3 DEF vars, rows, history
    <2>2. AddsItsPair'
      BY <1>1, <2>1 DEF ChannelInv, AddsItsPair, At, Pair, Actor, Target
    <2>3. OneOpens'
      BY <1>1, <2>1 DEF ChannelInv, OneOpens, Opens, AtOneOf, Pair, Actor, Target
    <2>4. OpensTheOnly'
      BY <1>1, <2>1 DEF ChannelInv, OpensTheOnly, Opens, AtOneOf, At, Pair, Actor, Target, Direct
    <2>5. OnlyOne'
      BY <1>1, <2>1 DEF ChannelInv, OnlyOne, Direct
    <2>6. QED
      BY <2>2, <2>3, <2>4, <2>5 DEF ChannelInv
  <1>4. QED
    BY <1>1, <1>2, <1>3

(* Two users have at most one direct channel, however many requests for it *)
(* there are and wherever they fail, unless two of them were both past the *)
(* look for one: the look finds any that is whole, and one that is half    *)
(* made belongs to the only request that still adds to it.                 *)
THEOREM OneChannelPerPair == Spec => []OneDirectChannel
  <1>1. Init => ChannelInv
    BY ConstantsAssumption
       DEF Init, ChannelInv, AddsItsPair, OneOpens, OpensTheOnly, OnlyOne, Opens, AtOneOf,
           At, Direct, Kinds
  <1>2. ChannelInv => OneDirectChannel
    <2>1. SUFFICES ASSUME ChannelInv, NEW u \in Users, NEW v \in Users, u # v,
                          {u, v} \notin doubled
                   PROVE  Cardinality(Direct({u, v})) <= 1
      BY DEF OneDirectChannel
    <2>2. CASE Direct({u, v}) = {}
      BY <2>2, FS_EmptySet
    <2>3. CASE Direct({u, v}) # {}
      <3>1. PICK c : c \in Direct({u, v})
        BY <2>3
      <3>2. Direct({u, v}) = {c}
        BY <2>1, <3>1 DEF ChannelInv, OnlyOne
      <3>3. Cardinality({c}) = 1
        BY FS_Singleton
      <3>4. QED
        BY <3>2, <3>3
    <2>4. QED
      BY <2>2, <2>3
  <1>3. QED
    BY <1>1, <1>2, ChannelsStay, TypeInvHolds, PTL DEF Spec
=============================================================================
