----------------------- MODULE GatewayDispatchProofs -----------------------
(***************************************************************************)
(* What a client receives over the connections of a session, for any       *)
(* number of subjects, events, heartbeats, resumes and failures, whatever  *)
(* numbers it resumes with and whatever former sessions its connections    *)
(* had, and for any depth of the channel and of the replay list.           *)
(***************************************************************************)
EXTENDS GatewayDispatch, SequenceTheorems, TLAPS

-----------------------------------------------------------------------------
(* The inductive invariants.                                               *)

Handshakes == Indices({"READY", "RESUMED"})
Live       == Indices({"event"})
Replayed   == Indices({"replayed"})
Told       == Indices({"event", "replayed"})

(* Before the handshake the channel holds what others offered, and what    *)
(* has been replayed so far.                                               *)
Room ==
    /\ phase \in {"open", "other"} => Len(channel) <= ahead
    /\ phase = "replay" => Len(channel) + Len(replay) <= ahead + BufferLimit
    /\ phase = "closed" => channel = <<>> /\ received = <<>>
    /\ phase # "replay" => replay = <<>>

(* The session has had its handshake: its listeners run, or would if the   *)
(* queries after RESUMED had not failed.                                   *)
Started == phase \in {"live", "lost"} \/ \E l \in Listeners : listener[l] # "none"

(* At most one handshake on a connection, after what is replayed and       *)
(* before what is live, and one if others left room for it.                *)
Places ==
    /\ phase \in {"open", "other", "closed"} => Replayed = {}
    /\ phase \in {"open", "other", "closed", "replay"} => Handshakes = {} /\ Live = {}
    /\ \A i \in Live, k \in Replayed : k < i
    /\ \A j \in Handshakes :
          /\ \A i \in Handshakes : i = j
          /\ \A i \in Live : j < i
          /\ \A i \in Replayed : i < j
    /\ RoomAhead /\ (Started \/ Live # {}) => Handshakes # {}

(* Numbers that listeners hold are like those delivered: above that of the *)
(* handshake, and nobody else's.                                           *)
Numbers ==
    /\ \A i \in Handshakes \cup Live : Delivered[i].seq <= sequence
    /\ \A i \in Live, j \in Handshakes : Delivered[j].seq < Delivered[i].seq
    /\ \A i, j \in Live : i # j => Delivered[i].seq # Delivered[j].seq
    /\ \A l \in Listeners : holding[l] # None =>
          /\ holding[l].seq <= sequence
          /\ \A j \in Handshakes : Delivered[j].seq < holding[l].seq
          /\ \A i \in Live : Delivered[i].seq # holding[l].seq
          /\ \A k \in Listeners \ {l} : holding[k] # None => holding[k].seq # holding[l].seq

(* The events of a subject pass from NATS to a listener, from there to     *)
(* Redis and to the channel, and from Redis into a replay, in their order: *)
(* at each place they are older than at the place before.                  *)
Ascending(s) ==
    \A i, j \in DOMAIN s : i < j /\ s[i].src = s[j].src => s[i].ev < s[j].ev

(* e is older than what NATS has queued for l, than what l is to buffer,   *)
(* than what l is to send.                                                 *)
Queueing(l, e)  == \A k \in DOMAIN inbox[l] : e < inbox[l][k]
Buffering(l, e) == Queueing(l, e) /\ (listener[l] = "buffer" => e < holding[l].ev)
Sending(l, e)   == Queueing(l, e) /\ (holding[l] # None => e < holding[l].ev)

Queued ==
    \A l \in Listeners :
        /\ \A j, k \in DOMAIN inbox[l] : j < k => inbox[l][j] < inbox[l][k]
        /\ holding[l] # None =>
              /\ holding[l].src = l /\ holding[l].ev <= published
              /\ Queueing(l, holding[l].ev)

Buffered ==
    /\ Ascending(buffer)
    /\ \A i \in DOMAIN buffer :
          buffer[i].ev <= published /\ Buffering(buffer[i].src, buffer[i].ev)

Ordered ==
    /\ SubjectOrder
    /\ Ascending(replay)
    /\ \A j \in DOMAIN replay : replay[j].ev <= published
    /\ \A i \in Told :
          LET m == Delivered[i]
          IN  /\ m.ev <= published /\ Sending(m.src, m.ev)
              /\ \A j \in DOMAIN replay : replay[j].src = m.src => m.ev < replay[j].ev

(* During a replay, what the client has missed above its number is among   *)
(* what is still to be offered, or on the connection.                      *)
Replaying ==
    phase = "replay" /\ RoomAhead =>
        \A m \in missed : m.seq > sequence =>
            \/ \E j \in DOMAIN replay : replay[j] = m
            \/ \E i \in Replayed : Delivered[i].ev = m.ev

-----------------------------------------------------------------------------
(* Lists and messages.                                                     *)

(* A message is an event, live or replayed, or a signal of the gateway.    *)
LEMMA MessageKinds ==
    /\ \A m \in Messages :
          /\ m.kind \in {"READY", "RESUMED", "ack", "other", "event", "replayed", "stray"}
          /\ m.seq \in Nat
          /\ m.kind \in {"event", "replayed"} => m.src \in Listeners /\ m.ev \in Nat
          /\ m.ev # None => m.ev \in Nat
    /\ Events("event") \subseteq Messages
    /\ \A m \in Events("event") :
          /\ m # None /\ m.kind = "event" /\ m.seq \in Nat
          /\ m.src \in Listeners /\ m.ev \in Nat
    /\ \A kind \in {"READY", "RESUMED", "ack", "other"}, n \in Nat :
          /\ Msg(kind, n, None, None) \in Messages
          /\ Msg(kind, n, None, None).kind = kind /\ Msg(kind, n, None, None).seq = n
  BY NoneAssumption DEF Messages, Events, Signals, Msg

(* What is replayed is the event, of another kind.                         *)
LEMMA ReplayedCopy ==
    ASSUME NEW m \in Events("event")
    PROVE  LET c == [m EXCEPT !.kind = "replayed"]
           IN  /\ c \in Messages /\ c.kind = "replayed"
               /\ c.seq = m.seq /\ c.src = m.src /\ c.ev = m.ev
  BY DEF Messages, Events

(* A stray is a message of its own kind.                                   *)
LEMMA StrayMessage ==
    ASSUME NEW l \in Listeners, NEW e \in Nat
    PROVE  Msg("stray", 0, l, e) \in Messages /\ Msg("stray", 0, l, e).kind = "stray"
  BY DEF Messages, Events, Msg

(* Take numbers the event of a subject.                                    *)
LEMMA EventCopy ==
    ASSUME NEW l \in Listeners, NEW n \in Nat, NEW e \in Nat
    PROVE  /\ Msg("event", n, l, e) \in Events("event")
           /\ Msg("event", n, l, e).seq = n /\ Msg("event", n, l, e).src = l
           /\ Msg("event", n, l, e).ev = e
  BY DEF Events, Msg

(* A push keeps the list within its limit, and in order: the oldest event  *)
(* may go.                                                                 *)
LEMMA PushedList ==
    ASSUME NEW list \in Seq(Events("event")), NEW m \in Events("event"),
           Len(list) <= BufferLimit
    PROVE  /\ Pushed(list, m) \in Seq(Events("event"))
           /\ Len(Pushed(list, m)) <= BufferLimit
           /\ \E d \in {0, 1} :
                 /\ Len(Pushed(list, m)) = Len(list) + 1 - d
                 /\ \A i \in 1 .. Len(Pushed(list, m)) :
                       Pushed(list, m)[i] = IF i + d <= Len(list) THEN list[i + d] ELSE m
  <1> DEFINE S == Events("event")
             all == Append(list, m)
  <1>1. /\ all \in Seq(S) /\ all # <<>> /\ Len(all) = Len(list) + 1 /\ Len(list) \in Nat
        /\ \A i \in 1 .. Len(list) : all[i] = list[i]
        /\ all[Len(list) + 1] = m
    BY AppendProperties, LenProperties
  <1>2. /\ Tail(all) \in Seq(S) /\ Len(Tail(all)) = Len(all) - 1
        /\ \A i \in 1 .. Len(Tail(all)) : Tail(all)[i] = all[i + 1]
    BY <1>1, HeadTailProperties
  <1>3. BufferLimit \in Nat
    BY ConstantsAssumption
  <1>4. Pushed(list, m) = IF Len(all) > BufferLimit THEN Tail(all) ELSE all
    BY DEF Pushed
  <1> HIDE DEF all, S
  <1>5. CASE Len(all) > BufferLimit
    <2>1. \A i \in 1 .. Len(Tail(all)) :
             Tail(all)[i] = IF i + 1 <= Len(list) THEN list[i + 1] ELSE m
      BY <1>1, <1>2
    <2>2. QED
      BY <1>1, <1>2, <1>3, <1>4, <1>5, <2>1 DEF S
  <1>6. CASE ~(Len(all) > BufferLimit)
    <2>1. \A i \in 1 .. Len(all) : all[i] = IF i + 0 <= Len(list) THEN list[i + 0] ELSE m
      BY <1>1
    <2>2. QED
      BY <1>1, <1>3, <1>4, <1>6, <2>1 DEF S
  <1>7. QED
    BY <1>5, <1>6

(* An event newer than those of its subject in a list.                     *)
LEMMA AscendingPushed ==
    ASSUME NEW list \in Seq(Events("event")), NEW m \in Events("event"),
           Len(list) <= BufferLimit, Ascending(list),
           \A i \in DOMAIN list : list[i].src = m.src => list[i].ev < m.ev
    PROVE  /\ Ascending(Pushed(list, m))
           /\ \A i \in DOMAIN Pushed(list, m) :
                 Pushed(list, m)[i] = m \/ \E j \in DOMAIN list : Pushed(list, m)[i] = list[j]
  <1> DEFINE new == Pushed(list, m)
  <1>1. PICK d \in {0, 1} :
           /\ Len(new) = Len(list) + 1 - d
           /\ \A i \in 1 .. Len(new) : new[i] = IF i + d <= Len(list) THEN list[i + d] ELSE m
    BY PushedList
  <1>2. new \in Seq(Events("event"))
    BY PushedList
  <1>3. DOMAIN new = 1 .. Len(new) /\ DOMAIN list = 1 .. Len(list) /\ Len(list) \in Nat
        /\ Len(new) \in Nat
    BY <1>2, LenProperties
  <1> HIDE DEF new
  <1>4. ASSUME NEW i \in DOMAIN new, NEW j \in DOMAIN new, i < j, new[i].src = new[j].src
        PROVE  new[i].ev < new[j].ev
    <2>1. i + d <= Len(list) /\ i + d \in DOMAIN list /\ new[i] = list[i + d]
      <3>1. i \in 1 .. Len(new) /\ j \in 1 .. Len(new) /\ i < j /\ d \in {0, 1}
        BY <1>3, <1>4
      <3>2. i + d <= Len(list) /\ i + d \in 1 .. Len(list)
        BY <1>1, <1>3, <3>1
      <3>3. QED
        BY <1>1, <1>3, <3>1, <3>2
    <2>2. CASE j + d <= Len(list)
      <3>1. j + d \in DOMAIN list /\ i + d < j + d /\ new[j] = list[j + d]
        BY <1>1, <1>3, <1>4, <2>2
      <3>2. list[i + d].src = list[j + d].src
        BY <1>4, <2>1, <3>1
      <3>3. list[i + d].ev < list[j + d].ev
        BY <2>1, <3>1, <3>2 DEF Ascending
      <3>4. QED
        BY <2>1, <3>1, <3>3
    <2>3. CASE ~(j + d <= Len(list))
      BY <1>1, <1>3, <1>4, <2>1, <2>3
    <2>4. QED
      BY <2>2, <2>3
  <1>5. Ascending(new)
    BY <1>4 DEF Ascending
  <1>6. \A i \in DOMAIN new : new[i] = m \/ \E j \in DOMAIN list : new[i] = list[j]
    BY <1>1, <1>3
  <1>7. QED
    BY <1>5, <1>6 DEF new

(* Offering appends, or drops for want of room.                            *)
LEMMA OfferedList ==
    ASSUME NEW ch \in Seq(Messages), NEW m \in Messages, Len(ch) <= ChannelCapacity
    PROVE  /\ Offered(ch, m) \in Seq(Messages) /\ Len(Offered(ch, m)) <= ChannelCapacity
           /\ Offered(ch, m) = IF Len(ch) < ChannelCapacity THEN Append(ch, m) ELSE ch
           /\ Len(Offered(ch, m)) <= Len(ch) + 1
  BY AppendProperties, LenProperties, ConstantsAssumption DEF Offered

-----------------------------------------------------------------------------
(* Types.                                                                  *)

(* Every step keeps the types, and the listeners to their connection.      *)
LEMMA TypeStep ==
    ASSUME TypeOK, [Next]_vars
    PROVE  TypeOK'
  <1> USE DEF Phases, ListenerStates, FormerStates
  <1>a. /\ Len(channel) \in Nat /\ Len(buffer) \in Nat
        /\ MaxEvents \in Nat /\ MaxResumes \in Nat /\ MaxHeartbeats \in Nat /\ MaxFailures \in Nat
        /\ BufferLimit \in Nat \ {0}
    BY ConstantsAssumption, LenProperties DEF TypeOK
  <1>b. <<>> \in Seq(Messages) /\ <<>> \in Seq(Events("event")) /\ <<>> \in Seq(1 .. published)
        /\ <<>> \in Seq(Nat) /\ Len(<<>>) = 0
    BY EmptySeq
  <1>c. ASSUME NEW kind \in {"READY", "RESUMED", "ack", "other"}, NEW n \in Nat,
               channel' = Offered(channel, Msg(kind, n, None, None))
        PROVE  channel' \in Seq(Messages) /\ Len(channel') <= ChannelCapacity
    <2>1. Msg(kind, n, None, None) \in Messages
      BY <1>c, MessageKinds
    <2>2. QED
      BY <1>c, <2>1, OfferedList DEF TypeOK
  <1>d. MayFail => failures' \in 0 .. MaxFailures
    BY <1>a DEF MayFail, TypeOK
  <1>e. SpawnListeners =>
           /\ listener' \in [Listeners -> ListenerStates]
           /\ holding' \in [Listeners -> Events("event") \cup {None}]
           /\ inbox' \in [Listeners -> Seq(1 .. published)]
           /\ \A l \in Listeners :
                 holding'[l] = None /\ listener'[l] = "spawned" /\ inbox'[l] = <<>>
    BY <1>b DEF SpawnListeners
  <1>f. CountAhead => ahead' \in Nat
    BY DEF CountAhead, TypeOK
  <1>1. ASSUME Identify PROVE TypeOK'
    BY <1>1, <1>c, <1>e DEF Identify, TypeOK, client, others, counters
  <1>2. ASSUME Heartbeat PROVE TypeOK'
    <2>1. heartbeats' \in 0 .. MaxHeartbeats
      BY <1>2, <1>a DEF Heartbeat, TypeOK
    <2>2. QED
      BY <1>2, <1>c, <1>f, <2>1 DEF Heartbeat, TypeOK, client, tasks, others
  <1>3. ASSUME NEW l \in Listeners, Subscribe(l) PROVE TypeOK'
    <2>1. failures' \in 0 .. MaxFailures
      BY <1>3, <1>d DEF Subscribe, TypeOK
    <2>2. \/ listener' = [listener EXCEPT ![l] = "idle"]
          \/ listener' = [listener EXCEPT ![l] = "dead"]
      BY <1>3 DEF Subscribe
    <2>3. QED
      BY <1>3, <2>1, <2>2 DEF Subscribe, TypeOK, client, others
  <1>4. ASSUME NEW l \in Listeners, Take(l) PROVE TypeOK'
    <2> DEFINE e == Head(inbox[l])
               m == Msg("event", sequence + 1, l, e)
    <2>1. inbox[l] \in Seq(1 .. published) /\ inbox[l] # <<>> /\ published \in Nat
      BY <1>4, <1>a DEF Take, TypeOK
    <2>2. e \in 1 .. published /\ Tail(inbox[l]) \in Seq(1 .. published)
      BY <2>1, HeadTailProperties
    <2>3. m \in Events("event") /\ m # None
      <3>1. sequence + 1 \in Nat /\ e \in Nat
        BY <2>1, <2>2 DEF TypeOK
      <3>2. QED
        BY <3>1, EventCopy, MessageKinds
    <2>4. /\ holding' = [holding EXCEPT ![l] = m] /\ sequence' = sequence + 1
          /\ inbox' = [inbox EXCEPT ![l] = Tail(inbox[l])]
          /\ listener' = [listener EXCEPT ![l] = "buffer"] /\ listener[l] = "idle"
      BY <1>4 DEF Take
    <2> HIDE DEF m, e
    <2>5. sequence' \in Nat /\ UNCHANGED <<phase, others, ahead, channel, buffer, replay,
                                           client, published, missed, counters>>
      BY <1>4, <2>4 DEF Take, TypeOK
    <2>6. /\ holding' \in [Listeners -> Events("event") \cup {None}]
          /\ inbox' \in [Listeners -> Seq(1 .. published)]
          /\ listener' \in [Listeners -> ListenerStates]
      BY <2>2, <2>3, <2>4 DEF TypeOK
    <2>7. \A k \in Listeners :
             /\ holding'[k] # None <=> listener'[k] \in {"buffer", "send"}
             /\ inbox'[k] # <<>> => listener'[k] \notin {"none", "spawned"}
      BY <2>2, <2>3, <2>4 DEF TypeOK
    <2>8. phase \notin {"open", "other", "closed", "replay", "lost"}
      BY <2>4 DEF TypeOK
    <2>9. QED
      BY <2>5, <2>6, <2>7, <2>8 DEF TypeOK, client, others, counters
  <1>5. ASSUME NEW l \in Listeners, BufferEvent(l) PROVE TypeOK'
    <2>1. holding[l] \in Events("event")
      BY <1>5 DEF BufferEvent, TypeOK
    <2>2. Pushed(buffer, holding[l]) \in Seq(Events("event"))
          /\ Len(Pushed(buffer, holding[l])) <= BufferLimit
      BY <2>1, PushedList DEF TypeOK
    <2>3. QED
      BY <1>5, <1>a, <2>2 DEF BufferEvent, MayFail, TypeOK, client, others
  <1>6. ASSUME NEW l \in Listeners, TrySend(l) PROVE TypeOK'
    <2>1. holding[l] \in Messages
      BY <1>6, MessageKinds DEF TrySend, TypeOK
    <2>2. QED
      BY <1>6, <2>1, OfferedList, NoneAssumption
         DEF TrySend, TypeOK, client, others, counters
  <1>7. ASSUME NEW l \in Listeners, Abort(l) PROVE TypeOK'
    <2>1. listener[l] = "buffer" =>
             /\ Pushed(buffer, holding[l]) \in Seq(Events("event"))
             /\ Len(Pushed(buffer, holding[l])) <= BufferLimit
      BY PushedList DEF TypeOK
    <2>2. QED
      BY <1>7, <1>b, <2>1 DEF Abort, TypeOK, client, others, counters
  <1>8. ASSUME Deliver PROVE TypeOK'
    <2> DEFINE m == Head(channel)
    <2>1. /\ m \in Messages /\ Tail(channel) \in Seq(Messages)
          /\ Len(Tail(channel)) <= ChannelCapacity
      BY <1>8, <1>a, HeadTailProperties, ConstantsAssumption DEF Deliver, TypeOK
    <2>2. /\ m.ev # None => m.ev \in Nat
          /\ Append(received, m) \in Seq(Messages)
      BY <2>1, MessageKinds, AppendProperties DEF TypeOK
    <2>3. QED
      BY <1>8, <2>1, <2>2 DEF Deliver, TypeOK, tasks, others, counters
  <1>9. ASSUME Disconnect PROVE TypeOK'
    BY <1>9 DEF Disconnect, TypeOK, tasks, client, others, counters
  <1>10. ASSUME Close PROVE TypeOK'
    <2>1. /\ phase' = "closed" /\ ahead' = 0 /\ channel' = <<>>
          /\ received' = <<>> /\ missed' = {}
          /\ UNCHANGED <<sequence, tasks, others, buffer, replay, seen,
                         published, counters>>
          /\ \A l \in Listeners : listener[l] = "none" /\ former[l] = "none"
      BY <1>10 DEF Close
    <2>2. channel' \in Seq(Messages) /\ Len(channel') <= ChannelCapacity
      BY <2>1, ConstantsAssumption
    <2>3. received' \in Seq(Messages) /\ missed' \subseteq Events("event")
      BY <2>1
    <2>4. ahead' \in Nat
      BY <2>1
    <2>5. QED
      BY <2>1, <2>2, <2>3, <2>4 DEF TypeOK, tasks, others, counters
  <1>11. ASSUME Reconnect PROVE TypeOK'
    BY <1>11, <1>a DEF Reconnect, TypeOK, tasks, client, others
  <1>12. ASSUME Resume PROVE TypeOK'
    <2>1. ToSet(buffer) \subseteq Events("event")
      BY ElementOfSeq, LenProperties DEF ToSet, TypeOK
    <2>2. /\ replay' \in Seq(Events("event")) /\ missed' \subseteq Events("event")
          /\ failures' \in 0 .. MaxFailures /\ sequence' \in Nat
      BY <1>12, <1>b, <1>d, <2>1, ConstantsAssumption DEF Resume, TypeOK
    <2>3. QED
      BY <1>12, <2>2 DEF Resume, TypeOK, tasks, client, others
  <1>13. ASSUME ReplayNext PROVE TypeOK'
    <2>1. Head(replay) \in Events("event") /\ Tail(replay) \in Seq(Events("event"))
      BY <1>13, HeadTailProperties DEF ReplayNext, TypeOK
    <2>2. [Head(replay) EXCEPT !.kind = "replayed"] \in Messages
      BY <2>1, ReplayedCopy
    <2>3. QED
      BY <1>13, <2>1, <2>2, OfferedList
         DEF ReplayNext, TypeOK, tasks, client, others, counters
  <1>14. ASSUME Resumed PROVE TypeOK'
    <2>1. /\ channel' \in Seq(Messages) /\ Len(channel') <= ChannelCapacity
          /\ sequence' \in Nat
      BY <1>14, <1>c DEF Resumed, TypeOK
    <2>2. buffer' \in Seq(Events("event")) /\ Len(buffer') <= BufferLimit
      <3>1. buffer' = buffer \/ buffer' = <<>>
        BY <1>14 DEF Resumed
      <3>2. buffer \in Seq(Events("event")) /\ Len(buffer) <= BufferLimit
        BY DEF TypeOK
      <3>3. 0 <= BufferLimit
        BY <1>a
      <3>4. buffer' = <<>> => buffer' \in Seq(Events("event")) /\ Len(buffer') = 0
        BY <1>b, Zenon
      <3>5. QED
        BY <3>1, <3>2, <3>3, <3>4
    <2>3. failures' \in 0 .. MaxFailures
      BY <1>14, <1>d DEF Resumed, TypeOK
    <2>4. CASE SpawnListeners /\ phase' = "live"
      BY <1>14, <1>e, <2>1, <2>2, <2>3, <2>4 DEF Resumed, TypeOK, client, others
    <2>5. CASE UNCHANGED tasks /\ phase' = "lost"
      BY <1>14, <2>1, <2>2, <2>3, <2>5 DEF Resumed, TypeOK, client, others, tasks
    <2>6. QED
      BY <1>14, <2>4, <2>5 DEF Resumed
  <1>15. ASSUME NEW l \in Listeners, Publish(l) PROVE TypeOK'
    <2> DEFINE e == published + 1
    <2>1. \A k \in Listeners : inbox[k] \in Seq(1 .. e)
      BY SeqMonotonic DEF TypeOK
    <2>2. Append(inbox[l], e) \in Seq(1 .. e)
      BY <2>1, AppendProperties DEF TypeOK
    <2>3. inbox' \in [Listeners -> Seq(1 .. e)]
      BY <1>15, <2>1, <2>2 DEF Publish, TypeOK
    <2>4. \A k \in Listeners : inbox'[k] # <<>> => listener[k] \notin {"none", "spawned"}
      BY <1>15 DEF Publish, Subscribed, TypeOK
    <2>5. strays' \in [Listeners -> Seq(Nat)]
      <3>1. published + 1 \in Nat /\ \A k \in Listeners : strays[k] \in Seq(Nat)
        BY <1>a DEF TypeOK
      <3>2. Append(strays[l], e) \in Seq(Nat)
        BY <3>1, AppendProperties
      <3>3. QED
        BY <1>15, <3>2 DEF Publish, TypeOK
    <2>6. \A k \in Listeners : strays'[k] # <<>> => former[k] = "idle"
      <3>1. strays \in [Listeners -> Seq(Nat)]
            /\ \A k \in Listeners : strays[k] # <<>> => former[k] = "idle"
        BY DEF TypeOK
      <3>2. \/ strays' = strays
            \/ former[l] = "idle" /\ strays' = [strays EXCEPT ![l] = Append(strays[l], e)]
        BY <1>15 DEF Publish
      <3> HIDE DEF e
      <3>3. QED
        BY <3>1, <3>2
    <2>7. /\ published' = e /\ e \in 0 .. MaxEvents
          /\ UNCHANGED <<phase, sequence, listener, holding, former, ahead, channel, buffer,
                         replay, client, missed, counters>>
      BY <1>15, <1>a DEF Publish, TypeOK
    <2> HIDE DEF e
    <2>8. QED
      BY <2>3, <2>4, <2>5, <2>6, <2>7 DEF TypeOK, client, counters
  <1>16. ASSUME ExpireBuffer PROVE TypeOK'
    BY <1>16, <1>a, <1>b DEF ExpireBuffer, TypeOK, tasks, client, others, counters
  <1>17. CASE UNCHANGED vars
    BY <1>17 DEF vars, TypeOK, tasks, client, others, counters
  <1>18. ASSUME IdentifyOther PROVE TypeOK'
    <2>1. former' \in [Listeners -> FormerStates]
      BY <1>18 DEF IdentifyOther
    <2>2. /\ channel' \in Seq(Messages) /\ Len(channel') <= ChannelCapacity /\ ahead' \in Nat
          /\ phase = "open" /\ phase' = "other"
      BY <1>18, <1>c, <1>f DEF IdentifyOther
    <2>3. \A l \in Listeners : strays[l] = <<>>
      BY <2>2 DEF TypeOK
    <2>4. UNCHANGED <<sequence, tasks, strays, buffer, replay, client, published, missed,
                      counters>>
      BY <1>18 DEF IdentifyOther
    <2>5. QED
      BY <2>1, <2>2, <2>3, <2>4 DEF TypeOK, tasks, client, counters
  <1>19. ASSUME NEW l \in Listeners, FormerSubscribe(l) PROVE TypeOK'
    BY <1>19 DEF FormerSubscribe, TypeOK, tasks, client, counters
  <1>20. ASSUME NEW l \in Listeners, FormerSend(l) PROVE TypeOK'
    <2>1. strays[l] \in Seq(Nat) /\ strays[l] # <<>> /\ former[l] = "idle"
      BY <1>20 DEF FormerSend, TypeOK
    <2>2. Head(strays[l]) \in Nat /\ Tail(strays[l]) \in Seq(Nat)
      BY <2>1, HeadTailProperties
    <2>3. channel' \in Seq(Messages) /\ Len(channel') <= ChannelCapacity /\ ahead' \in Nat
      <3>1. Msg("stray", 0, l, Head(strays[l])) \in Messages
        BY <2>2, StrayMessage
      <3>2. QED
        BY <1>20, <1>f, <3>1, OfferedList DEF FormerSend, TypeOK
    <2>4. \/ strays' = [strays EXCEPT ![l] = Tail(@)] /\ former' = former
          \/ strays' = [strays EXCEPT ![l] = <<>>] /\ former' = [former EXCEPT ![l] = "none"]
      BY <1>20 DEF FormerSend
    <2>5. /\ strays' \in [Listeners -> Seq(Nat)] /\ former' \in [Listeners -> FormerStates]
          /\ \A k \in Listeners :
                /\ strays'[k] # <<>> => former'[k] = "idle"
                /\ former[k] = "none" => former'[k] = "none"
      <3>1. /\ strays \in [Listeners -> Seq(Nat)] /\ former \in [Listeners -> FormerStates]
            /\ \A k \in Listeners : strays[k] # <<>> => former[k] = "idle"
        BY DEF TypeOK
      <3>2. CASE strays' = [strays EXCEPT ![l] = Tail(strays[l])] /\ former' = former
        BY <2>1, <2>2, <3>1, <3>2
      <3>3. CASE /\ strays' = [strays EXCEPT ![l] = <<>>]
                 /\ former' = [former EXCEPT ![l] = "none"]
        BY <1>b, <3>1, <3>3
      <3>4. QED
        BY <2>4, <3>2, <3>3
    <2>6. UNCHANGED <<phase, sequence, tasks, buffer, replay, client, published, missed,
                      counters>>
      BY <1>20 DEF FormerSend
    <2>7. QED
      BY <2>3, <2>5, <2>6 DEF TypeOK, tasks, client, counters
  <1>21. ASSUME NEW l \in Listeners, FormerAbort(l) PROVE TypeOK'
    BY <1>21, <1>b DEF FormerAbort, TypeOK, tasks, client, counters
  <1>22. QED
    BY <1>1, <1>2, <1>3, <1>4, <1>5, <1>6, <1>7, <1>8, <1>9, <1>10, <1>11, <1>12, <1>13,
       <1>14, <1>15, <1>16, <1>17, <1>18, <1>19, <1>20, <1>21 DEF Next, Forward

(* The counters count.                                                     *)
LEMMA Counting ==
    ASSUME TypeOK
    PROVE  /\ sequence \in Nat /\ sequence + 1 \in Nat /\ ahead \in Nat
           /\ published \in Nat
  <1>1. sequence \in Nat /\ ahead \in Nat /\ published \in 0 .. MaxEvents
    BY DEF TypeOK
  <1>2. QED
    BY <1>1, ConstantsAssumption

-----------------------------------------------------------------------------
(* The room in the channel.                                                *)

(* What is queued before the handshake is bounded by what others offered   *)
(* and by the list.                                                        *)
LEMMA RoomStep ==
    ASSUME TypeOK, Room, [Next]_vars
    PROVE  Room'
  <1> USE DEF Room
  <1>a. /\ Len(channel) \in Nat /\ Len(buffer) \in Nat /\ Len(replay) \in Nat
        /\ ahead \in Nat /\ Len(buffer) <= BufferLimit /\ BufferLimit \in Nat
    BY LenProperties, ConstantsAssumption DEF TypeOK
  <1>b. Len(<<>>) = 0
    BY EmptySeq
  <1>c. ASSUME NEW m \in Messages, channel' = Offered(channel, m)
        PROVE  Len(channel') <= Len(channel) + 1 /\ Len(channel') \in Nat
    BY <1>c, OfferedList, LenProperties DEF TypeOK
  <1>d. ASSUME CountAhead, UNCHANGED <<replay, received>>,
               Len(channel') <= Len(channel) + 1, Len(channel') \in Nat,
               phase' = phase \/ (phase = "open" /\ phase' = "other"),
               phase # "closed"
        PROVE  Room'
    <2>1. CASE phase \in {"open", "other", "replay"}
      <3>1. ahead' = ahead + 1
        BY <1>d, <2>1 DEF CountAhead
      <3>2. phase = "replay" => phase' = "replay"
        BY <1>d
      <3>3. phase \in {"open", "other"} => phase' \in {"open", "other"}
        BY <1>d
      <3>4. QED
        BY <1>a, <1>d, <2>1, <3>1, <3>2, <3>3
    <2>2. CASE phase \notin {"open", "other", "replay"}
      BY <1>d, <2>2
    <2>3. QED
      BY <2>1, <2>2
  <1>1. CASE Identify \/ Resumed
    BY <1>1 DEF Identify, Resumed
  <1>2. CASE Heartbeat \/ IdentifyOther
    <2>1. /\ Msg("ack", 0, None, None) \in Messages
          /\ Msg("other", 0, None, None) \in Messages
      BY MessageKinds
    <2>2. Len(channel') <= Len(channel) + 1 /\ Len(channel') \in Nat
      BY <1>2, <1>c, <2>1 DEF Heartbeat, IdentifyOther
    <2>3. /\ CountAhead /\ UNCHANGED <<replay, received>> /\ phase # "closed"
          /\ phase' = phase \/ (phase = "open" /\ phase' = "other")
      BY <1>2 DEF Heartbeat, IdentifyOther, client
    <2>4. QED
      BY <1>d, <2>2, <2>3
  <1>3. CASE \E l \in Listeners :
                \/ Subscribe(l) \/ Take(l) \/ BufferEvent(l) \/ Abort(l) \/ Publish(l)
                \/ FormerSubscribe(l) \/ FormerAbort(l)
    BY <1>3 DEF Subscribe, Take, BufferEvent, Abort, Publish, FormerSubscribe, FormerAbort,
       client
  <1>4. ASSUME NEW l \in Listeners, TrySend(l) PROVE Room'
    <2>1. phase \notin {"open", "other", "closed", "replay"} /\ phase' = phase /\ replay' = replay
      BY <1>4 DEF TrySend, TypeOK
    <2>2. QED
      BY <2>1
  <1>5. ASSUME NEW l \in Listeners, FormerSend(l) PROVE Room'
    <2>1. Msg("stray", 0, l, Head(strays[l])) \in Messages
      <3>1. strays[l] \in Seq(Nat) /\ strays[l] # <<>>
        BY <1>5 DEF FormerSend, TypeOK
      <3>2. QED
        BY <3>1, HeadTailProperties, StrayMessage
    <2>2. Len(channel') <= Len(channel) + 1 /\ Len(channel') \in Nat
      BY <1>5, <1>c, <2>1 DEF FormerSend
    <2>3. phase # "closed"
      BY <1>5 DEF FormerSend, TypeOK
    <2>4. QED
      BY <1>5, <1>d, <2>2, <2>3 DEF FormerSend, client
  <1>6. CASE Deliver
    <2>1. Len(channel') = Len(channel) - 1 /\ channel # <<>>
      BY <1>6, HeadTailProperties DEF Deliver, TypeOK
    <2>2. UNCHANGED <<phase, replay, ahead>>
      BY <1>6 DEF Deliver
    <2>3. QED
      BY <1>a, <2>1, <2>2
  <1>7. CASE Disconnect \/ Close \/ ExpireBuffer
    BY <1>7 DEF Disconnect, Close, ExpireBuffer, client
  <1>8. CASE Reconnect
    BY <1>8, <1>a, <1>b DEF Reconnect
  <1>9. CASE Resume
    <2>1. Len(replay') <= BufferLimit /\ Len(replay') \in Nat
      BY <1>9, <1>a, <1>b DEF Resume
    <2>2. QED
      BY <1>9, <1>a, <2>1 DEF Resume
  <1>10. CASE ReplayNext
    <2>1. Head(replay) \in Events("event") /\ Len(replay') = Len(replay) - 1
      BY <1>10, HeadTailProperties DEF ReplayNext, TypeOK
    <2>2. [Head(replay) EXCEPT !.kind = "replayed"] \in Messages
      BY <2>1, ReplayedCopy
    <2>3. Len(channel') <= Len(channel) + 1 /\ Len(channel') \in Nat
      <3>1. \/ channel' = Offered(channel, [Head(replay) EXCEPT !.kind = "replayed"])
            \/ channel' = channel
        BY <1>10 DEF ReplayNext
      <3>2. QED
        BY <1>a, <1>c, <2>2, <3>1
    <2>4. UNCHANGED <<phase, ahead>> /\ phase = "replay"
      BY <1>10 DEF ReplayNext
    <2>5. QED
      BY <1>a, <2>1, <2>3, <2>4
  <1>11. CASE UNCHANGED vars
    BY <1>11 DEF vars, client
  <1>12. QED
    BY <1>1, <1>2, <1>3, <1>4, <1>5, <1>6, <1>7, <1>8, <1>9, <1>10, <1>11 DEF Next, Forward

-----------------------------------------------------------------------------
(* What each step makes of the messages of the connection.                 *)

(* What the client has, followed by what it is to get, is a list of        *)
(* messages.                                                               *)
LEMMA DeliveredList ==
    ASSUME TypeOK
    PROVE  /\ Delivered \in Seq(Messages)
           /\ Len(Delivered) \in Nat /\ DOMAIN Delivered = 1 .. Len(Delivered)
           /\ \A i \in DOMAIN Delivered : Delivered[i] \in Messages
  <1>1. Delivered \in Seq(Messages)
    BY ConcatProperties DEF TypeOK, Delivered
  <1>2. QED
    BY <1>1, LenProperties, ElementOfSeq

(* One message more.                                                       *)
Grows(m) ==
    LET n == Len(Delivered) + 1
    IN  /\ m \in Messages
        /\ DOMAIN Delivered' = 1 .. n
        /\ Delivered'[n] = m
        /\ \A i \in DOMAIN Delivered : Delivered'[i] = Delivered[i]

(* A message appended to the channel comes last of all.                    *)
LEMMA Appending ==
    ASSUME TypeOK, NEW m \in Messages, channel' = Append(channel, m), received' = received
    PROVE  Grows(m)
  <1>1. channel \in Seq(Messages) /\ received \in Seq(Messages)
    BY DEF TypeOK
  <1>2. <<m>> \in Seq(Messages) /\ channel' = channel \o <<m>>
    BY <1>1, AppendIsConcat
  <1>3. Delivered' = Delivered \o <<m>>
    BY <1>1, <1>2, ConcatAssociative DEF Delivered
  <1>4. Delivered' = Append(Delivered, m)
    BY <1>3, DeliveredList, AppendIsConcat
  <1>5. Append(Delivered, m) \in Seq(Messages) /\ Len(Append(Delivered, m)) = Len(Delivered) + 1
    BY DeliveredList, AppendProperties
  <1>6. DOMAIN Append(Delivered, m) = 1 .. Len(Delivered) + 1
    BY <1>5, LenProperties
  <1>7. QED
    BY <1>4, <1>6, DeliveredList, AppendProperties DEF Grows

(* An offer appends, and does so when there is room.                       *)
LEMMA Offering ==
    ASSUME TypeOK, NEW m \in Messages, channel' = Offered(channel, m), received' = received
    PROVE  /\ Grows(m) \/ Delivered' = Delivered
           /\ Len(channel) < ChannelCapacity => Grows(m)
  BY Appending DEF Offered, Delivered

(* READY finds room in the channel, if others left it.                     *)
LEMMA IdentifyEffect ==
    ASSUME TypeOK, Room, Identify
    PROVE  LET m == Msg("READY", 1, None, None)
           IN  (Grows(m) \/ Delivered' = Delivered) /\ (RoomAhead => Grows(m))
  <1>1. Msg("READY", 1, None, None) \in Messages
    BY MessageKinds
  <1>2. RoomAhead => Len(channel) < ChannelCapacity
    BY ConstantsAssumption, LenProperties DEF Identify, Room, RoomAhead, TypeOK
  <1>3. QED
    BY <1>1, <1>2, Offering DEF Identify, client

(* So does RESUMED, after a replay as well.                                *)
LEMMA ResumedEffect ==
    ASSUME TypeOK, Room, Resumed
    PROVE  LET m == Msg("RESUMED", sequence + 1, None, None)
           IN  (Grows(m) \/ Delivered' = Delivered) /\ (RoomAhead => Grows(m))
  <1>1. Msg("RESUMED", sequence + 1, None, None) \in Messages
    BY MessageKinds, Counting
  <1>2. RoomAhead => Len(channel) < ChannelCapacity
    <2>1. Len(channel) <= ahead + BufferLimit
      BY EmptySeq, LenProperties DEF Resumed, Room, TypeOK
    <2>2. QED
      BY <2>1, ConstantsAssumption, LenProperties DEF RoomAhead, TypeOK
  <1>3. QED
    BY <1>1, <1>2, Offering DEF Resumed, client

(* A listener offers what it holds, and holds it no longer.                *)
LEMMA TrySendEffect ==
    ASSUME TypeOK, NEW l \in Listeners, TrySend(l)
    PROVE  /\ holding[l] \in Events("event") /\ holding'[l] = None
           /\ \A k \in Listeners \ {l} : holding'[k] = holding[k]
           /\ Grows(holding[l]) \/ Delivered' = Delivered
  <1>1. holding[l] \in Events("event")
    BY DEF TrySend, TypeOK
  <1>2. Grows(holding[l]) \/ Delivered' = Delivered
    BY <1>1, MessageKinds, Offering DEF TrySend, client
  <1>3. QED
    BY <1>1, <1>2 DEF TrySend, TypeOK

(* The first of the replay is offered unless it is filtered out, and finds *)
(* room if others left it.                                                 *)
LEMMA ReplayNextEffect ==
    ASSUME TypeOK, Room, ReplayNext
    PROVE  LET m == Head(replay)
               c == [m EXCEPT !.kind = "replayed"]
           IN  /\ m \in Events("event")
               /\ Grows(c) \/ Delivered' = Delivered
               /\ RoomAhead /\ IsUnseen(m) => Grows(c)
               /\ 1 \in DOMAIN replay /\ replay[1] = m
               /\ DOMAIN replay' = 1 .. Len(replay) - 1 /\ DOMAIN replay = 1 .. Len(replay)
               /\ \A i \in DOMAIN replay' : replay'[i] = replay[i + 1]
  <1> DEFINE m == Head(replay)
             c == [m EXCEPT !.kind = "replayed"]
  <1>1. /\ m \in Events("event") /\ replay' \in Seq(Events("event"))
        /\ Len(replay') = Len(replay) - 1
        /\ \A i \in 1 .. Len(replay') : replay'[i] = replay[i + 1]
    BY HeadTailProperties DEF ReplayNext, TypeOK
  <1>2. c \in Messages
    BY <1>1, ReplayedCopy
  <1>3. Len(replay) \in Nat /\ Len(replay) # 0 /\ DOMAIN replay = 1 .. Len(replay)
        /\ DOMAIN replay' = 1 .. Len(replay')
    BY <1>1, LenProperties, EmptySeq DEF ReplayNext, TypeOK
  <1>4. RoomAhead => Len(channel) < ChannelCapacity
    <2>1. Len(channel) + Len(replay) <= ahead + BufferLimit
      BY DEF ReplayNext, Room
    <2>2. Len(channel) \in Nat /\ ahead \in Nat
      BY LenProperties DEF TypeOK
    <2>3. QED
      BY <1>3, <2>1, <2>2, ConstantsAssumption DEF RoomAhead
  <1>5. replay[1] = m
    BY DEF ReplayNext
  <1>6. /\ Grows(c) \/ Delivered' = Delivered
        /\ RoomAhead /\ IsUnseen(m) => Grows(c)
    <2>1. received' = received
      BY DEF ReplayNext, client
    <2>2. CASE IsUnseen(m)
      <3>1. channel' = Offered(channel, c)
        BY <2>2 DEF ReplayNext
      <3> HIDE DEF c
      <3>2. QED
        BY <1>2, <1>4, <2>1, <3>1, Offering
    <2>3. CASE ~IsUnseen(m)
      BY <2>1, <2>3 DEF ReplayNext, Delivered
    <2>4. QED
      BY <2>2, <2>3
  <1>7. QED
    BY <1>1, <1>3, <1>5, <1>6

(* The sender task moves a message from the channel to the client.         *)
LEMMA DeliverEffect ==
    ASSUME TypeOK, Deliver
    PROVE  Delivered' = Delivered
  <1> DEFINE m == Head(channel)
  <1>1. /\ m \in Messages /\ Tail(channel) \in Seq(Messages) /\ <<m>> \in Seq(Messages)
        /\ received \in Seq(Messages)
    BY HeadTailProperties DEF Deliver, TypeOK
  <1>2. Append(received, m) = received \o <<m>>
    BY <1>1, AppendIsConcat
  <1>3. <<m>> \o Tail(channel) = channel
    BY HeadTailProperties, LenProperties, ConcatProperties, SeqEqual DEF Deliver, TypeOK
  <1> HIDE DEF m
  <1>4. (received \o <<m>>) \o Tail(channel) = received \o (<<m>> \o Tail(channel))
    BY <1>1, ConcatAssociative
  <1>5. QED
    BY <1>2, <1>3, <1>4 DEF Deliver, Delivered, m

(* Heartbeats and the former session offer messages of other kinds.        *)
LEMMA AsideEffect ==
    ASSUME TypeOK, Heartbeat \/ IdentifyOther \/ \E l \in Listeners : FormerSend(l)
    PROVE  \/ Delivered' = Delivered
           \/ \E m : m.kind \in {"ack", "other", "stray"} /\ Grows(m)
  <1>1. CASE Heartbeat
    BY <1>1, MessageKinds, Offering DEF Heartbeat, client
  <1>2. CASE IdentifyOther
    BY <1>2, MessageKinds, Offering DEF IdentifyOther, client
  <1>3. ASSUME NEW l \in Listeners, FormerSend(l)
        PROVE  \/ Delivered' = Delivered
               \/ \E m : m.kind \in {"ack", "other", "stray"} /\ Grows(m)
    <2> DEFINE m == Msg("stray", 0, l, Head(strays[l]))
    <2>1. strays[l] \in Seq(Nat) /\ strays[l] # <<>>
      BY <1>3 DEF FormerSend, TypeOK
    <2>2. m \in Messages /\ m.kind = "stray"
      BY <2>1, HeadTailProperties, StrayMessage
    <2>3. channel' = Offered(channel, m) /\ received' = received
      BY <1>3 DEF FormerSend, client
    <2> HIDE DEF m
    <2>4. QED
      BY <2>2, <2>3, Offering
  <1>4. QED
    BY <1>1, <1>2, <1>3

(* A connection that is gone has no messages.                              *)
LEMMA CloseEffect ==
    ASSUME Close
    PROVE  DOMAIN Delivered' = {}
  <1>1. Delivered' = <<>>
    BY ConcatEmptySeq, EmptySeq DEF Close, Delivered
  <1>2. QED
    BY <1>1, EmptySeq, LenProperties

(* Where the kinds of messages are, after each of these.                   *)
LEMMA WhenKept ==
    ASSUME Delivered' = Delivered
    PROVE  /\ Handshakes' = Handshakes /\ Live' = Live /\ Replayed' = Replayed /\ Told' = Told
           /\ Indices({"RESUMED"})' = Indices({"RESUMED"})
  BY DEF Handshakes, Live, Replayed, Told, Indices

(* One more index for the kind of the message that came.                   *)
LEMMA WhenGrown ==
    ASSUME TypeOK, NEW m, Grows(m)
    PROVE  LET n == Len(Delivered) + 1
           IN  /\ \A i \in DOMAIN Delivered : i < n /\ Delivered'[i] = Delivered[i]
               /\ Delivered'[n] = m
               /\ Handshakes' = IF m.kind \in {"READY", "RESUMED"}
                                THEN Handshakes \cup {n} ELSE Handshakes
               /\ Live' = IF m.kind = "event" THEN Live \cup {n} ELSE Live
               /\ Replayed' = IF m.kind = "replayed" THEN Replayed \cup {n} ELSE Replayed
               /\ Told' = IF m.kind \in {"event", "replayed"} THEN Told \cup {n} ELSE Told
               /\ Indices({"RESUMED"})' = IF m.kind = "RESUMED"
                     THEN Indices({"RESUMED"}) \cup {n} ELSE Indices({"RESUMED"})
  <1> DEFINE n == Len(Delivered) + 1
             D == DOMAIN Delivered
  <1>1. /\ \A i \in D : i < n /\ Delivered'[i] = Delivered[i]
        /\ Delivered'[n] = m /\ DOMAIN Delivered' = D \cup {n} /\ n \notin D
    BY DeliveredList DEF Grows
  <1>2. ASSUME NEW kinds
        PROVE  {i \in DOMAIN Delivered' : Delivered'[i].kind \in kinds}
                  = IF m.kind \in kinds THEN {i \in D : Delivered[i].kind \in kinds} \cup {n}
                                        ELSE {i \in D : Delivered[i].kind \in kinds}
    BY <1>1
  <1> HIDE DEF n
  <1>3. QED
    BY <1>1, <1>2 DEF Handshakes, Live, Replayed, Told, Indices, n

(* The steps that leave the handshake, live and replayed events alone.     *)
Quiet ==
    \/ \E l \in Listeners :
          \/ Subscribe(l) \/ Take(l) \/ BufferEvent(l) \/ Abort(l) \/ Publish(l)
          \/ FormerSubscribe(l) \/ FormerSend(l) \/ FormerAbort(l)
    \/ Heartbeat \/ IdentifyOther \/ Deliver \/ Disconnect \/ Reconnect \/ Resume
    \/ ExpireBuffer \/ UNCHANGED vars

(* Quiet steps leave each of them in its place.                            *)
LEMMA QuietEffect ==
    ASSUME TypeOK, Quiet
    PROVE  /\ Handshakes' = Handshakes /\ Live' = Live /\ Replayed' = Replayed /\ Told' = Told
           /\ Indices({"RESUMED"})' = Indices({"RESUMED"})
           /\ \A i \in DOMAIN Delivered : Delivered'[i] = Delivered[i]
  <1>1. \/ Delivered' = Delivered
        \/ \E m : m.kind \in {"ack", "other", "stray"} /\ Grows(m)
    <2>1. CASE Heartbeat \/ IdentifyOther \/ \E l \in Listeners : FormerSend(l)
      BY <2>1, AsideEffect
    <2>2. CASE Deliver
      BY <2>2, DeliverEffect
    <2>3. CASE \/ \E l \in Listeners :
                     \/ Subscribe(l) \/ Take(l) \/ BufferEvent(l) \/ Abort(l) \/ Publish(l)
                     \/ FormerSubscribe(l) \/ FormerAbort(l)
               \/ Disconnect \/ Reconnect \/ Resume \/ ExpireBuffer \/ UNCHANGED vars
      BY <2>3 DEF Subscribe, Take, BufferEvent, Abort, Publish, FormerSubscribe, FormerAbort,
         Disconnect, Reconnect, Resume, ExpireBuffer, vars, client, Delivered
    <2>4. QED
      BY <2>1, <2>2, <2>3 DEF Quiet
  <1>2. CASE Delivered' = Delivered
    BY <1>2, WhenKept
  <1>3. ASSUME NEW m, m.kind \in {"ack", "other", "stray"}, Grows(m)
        PROVE  /\ Handshakes' = Handshakes /\ Live' = Live /\ Replayed' = Replayed
               /\ Told' = Told /\ Indices({"RESUMED"})' = Indices({"RESUMED"})
               /\ \A i \in DOMAIN Delivered : Delivered'[i] = Delivered[i]
    BY <1>3, WhenGrown
  <1>4. QED
    BY <1>1, <1>2, <1>3

(* What others offer is only counted up, until the connection is gone.     *)
LEMMA AheadGrows ==
    ASSUME TypeOK, [Next]_vars, ~Close
    PROVE  RoomAhead' => RoomAhead
  <1>1. ahead' = ahead \/ ahead' = ahead + 1
    <2>1. CASE \/ Heartbeat \/ IdentifyOther
               \/ \E l \in Listeners : FormerSend(l)
      BY <2>1 DEF Heartbeat, IdentifyOther, FormerSend, CountAhead
    <2>2. CASE \E l \in Listeners :
                  \/ Subscribe(l) \/ Take(l) \/ BufferEvent(l) \/ TrySend(l) \/ Abort(l)
                  \/ FormerSubscribe(l) \/ FormerAbort(l) \/ Publish(l)
      BY <2>2 DEF Subscribe, Take, BufferEvent, TrySend, Abort, FormerSubscribe, FormerAbort,
         Publish
    <2>3. CASE \/ Identify \/ Deliver \/ Disconnect \/ Reconnect \/ Resume \/ ReplayNext
               \/ Resumed \/ ExpireBuffer \/ UNCHANGED vars
      BY <2>3 DEF Identify, Deliver, Disconnect, Reconnect, Resume, ReplayNext, Resumed,
         ExpireBuffer, vars
    <2>4. QED
      BY <2>1, <2>2, <2>3 DEF Next, Forward
  <1>2. ahead \in Nat /\ BufferLimit \in Nat /\ ChannelCapacity \in Nat
    BY Counting, ConstantsAssumption
  <1>3. QED
    BY <1>1, <1>2 DEF RoomAhead

(* Indices are numbers, and the kinds exclude each other.                  *)
LEMMA Kinds ==
    ASSUME TypeOK
    PROVE  /\ Handshakes \subseteq DOMAIN Delivered /\ Told \subseteq DOMAIN Delivered
           /\ Told = Live \cup Replayed
           /\ Indices({"RESUMED"}) \subseteq Handshakes
           /\ \A i \in DOMAIN Delivered :
                 /\ i \in Nat /\ Delivered[i].seq \in Nat
                 /\ i \in Told => Delivered[i].src \in Listeners /\ Delivered[i].ev \in Nat
  <1>1. \A i \in DOMAIN Delivered : i \in Nat /\ Delivered[i] \in Messages
    BY DeliveredList
  <1>2. QED
    BY <1>1, MessageKinds DEF Handshakes, Live, Replayed, Told, Indices

-----------------------------------------------------------------------------
(* The handshake comes first.                                              *)

(* Nothing live is offered before the handshake, nothing is replayed after *)
(* it.                                                                     *)
LEMMA PlacesStep ==
    ASSUME TypeOK, Room, Places, [Next]_vars
    PROVE  Places'
  <1> USE DEF Places
  <1>a. ~Close => (RoomAhead' => RoomAhead)
    BY AheadGrows
  <1>1. CASE Identify
    <2> DEFINE m == Msg("READY", 1, None, None)
    <2>1. /\ Grows(m) \/ Delivered' = Delivered
          /\ RoomAhead' => Grows(m)
          /\ m.kind = "READY"
      <3>1. ~Close
        BY <1>1 DEF Identify, Close
      <3>2. QED
        BY <1>1, <1>a, <3>1, IdentifyEffect, MessageKinds
    <2>2. Handshakes = {} /\ Live = {} /\ Replayed = {} /\ phase' = "live"
      BY <1>1 DEF Identify
    <2> HIDE DEF m
    <2>3. CASE Grows(m)
      BY <2>1, <2>2, <2>3, WhenGrown, Kinds
    <2>4. QED
      BY <2>1, <2>2, <2>3, WhenKept
  <1>2. ASSUME NEW l \in Listeners, TrySend(l) PROVE Places'
    <2> DEFINE m == holding[l]
    <2>1. (Grows(m) \/ Delivered' = Delivered) /\ m.kind = "event"
      BY <1>2, TrySendEffect, MessageKinds
    <2>2. /\ phase \in {"live", "aborting"} /\ phase' = phase /\ Started
          /\ RoomAhead' => RoomAhead
      BY <1>2, <1>a DEF TrySend, TypeOK, Phases, Close, Started
    <2> HIDE DEF m
    <2>3. CASE Grows(m)
      BY <2>1, <2>2, <2>3, WhenGrown, Kinds
    <2>4. QED
      BY <2>1, <2>2, <2>3, WhenKept
  <1>3. CASE ReplayNext
    <2> DEFINE m == [Head(replay) EXCEPT !.kind = "replayed"]
    <2>1. (Grows(m) \/ Delivered' = Delivered) /\ m.kind = "replayed"
      BY <1>3, ReplayNextEffect, ReplayedCopy
    <2>2. /\ phase = "replay" /\ phase' = "replay" /\ listener' = listener
          /\ \A l \in Listeners : listener[l] = "none"
          /\ Handshakes = {} /\ Live = {}
      BY <1>3 DEF ReplayNext, TypeOK, tasks
    <2> HIDE DEF m
    <2>3. ~Started'
      BY <2>2 DEF Started
    <2>4. CASE Grows(m)
      BY <2>1, <2>2, <2>3, <2>4, WhenGrown
    <2>5. QED
      BY <2>1, <2>2, <2>3, <2>4, WhenKept
  <1>4. CASE Resumed
    <2> DEFINE m == Msg("RESUMED", sequence + 1, None, None)
    <2>1. /\ Grows(m) \/ Delivered' = Delivered
          /\ RoomAhead' => Grows(m)
          /\ m.kind = "RESUMED"
      <3>1. ~Close
        BY <1>4 DEF Resumed, Close
      <3>2. QED
        BY <1>4, <1>a, <3>1, ResumedEffect, MessageKinds, Counting
    <2>2. Handshakes = {} /\ Live = {} /\ phase' \in {"live", "lost"}
      BY <1>4 DEF Resumed
    <2> HIDE DEF m
    <2>3. CASE Grows(m)
      BY <2>1, <2>2, <2>3, WhenGrown, Kinds
    <2>4. QED
      BY <2>1, <2>2, <2>3, WhenKept
  <1>5. CASE Close
    <2>1. Handshakes' = {} /\ Live' = {} /\ Replayed' = {}
      BY <1>5, CloseEffect DEF Handshakes, Live, Replayed, Indices
    <2>2. ~Started'
      BY <1>5 DEF Close, Started, tasks
    <2>3. QED
      BY <2>1, <2>2
  <1>6. CASE Quiet
    <2>1. /\ Handshakes' = Handshakes /\ Live' = Live /\ Replayed' = Replayed
          /\ \A i \in DOMAIN Delivered : Delivered'[i] = Delivered[i]
      BY <1>6, QuietEffect
    <2>2. /\ \/ phase' = phase
             \/ phase = "open" /\ phase' = "other"
             \/ phase \in {"other", "live"} /\ phase' = "aborting"
             \/ phase = "closed" /\ phase' = "open"
             \/ phase \in {"open", "other"} /\ phase' = "replay"
          /\ \A l \in Listeners : listener'[l] # "none" => listener[l] # "none"
      BY <1>6 DEF Quiet, Subscribe, Take, BufferEvent, Abort, Publish, FormerSubscribe,
         FormerSend, FormerAbort, Heartbeat, IdentifyOther, Deliver, Disconnect, Reconnect,
         Resume, ExpireBuffer, vars, tasks, TypeOK
    <2>3. Started' => Started
      BY <2>2 DEF Started
    <2>4. RoomAhead' => RoomAhead
      <3>1. ~Close \/ UNCHANGED vars
        BY <1>6 DEF Quiet, Subscribe, Take, BufferEvent, Abort, Publish, FormerSubscribe,
           FormerSend, FormerAbort, Heartbeat, IdentifyOther, Deliver, Disconnect, Reconnect,
           Resume, ExpireBuffer, Close
      <3>2. QED
        BY <1>a, <3>1 DEF vars, RoomAhead
    <2>5. QED
      BY <2>1, <2>2, <2>3, <2>4
  <1>7. QED
    BY <1>1, <1>2, <1>3, <1>4, <1>5, <1>6 DEF Next, Forward, Quiet

(* A number is taken above all others.                                     *)
LEMMA NumbersStep ==
    ASSUME TypeOK, Room, Places, Numbers, [Next]_vars
    PROVE  Numbers'
  <1> USE DEF Numbers
  <1>1. CASE Identify
    <2> DEFINE m == Msg("READY", 1, None, None)
    <2>1. /\ Grows(m) \/ Delivered' = Delivered
          /\ m.kind = "READY" /\ m.seq = 1 /\ sequence' = 1
      BY <1>1, IdentifyEffect, MessageKinds DEF Identify
    <2>2. \A l \in Listeners : holding'[l] = None
      BY <1>1 DEF Identify, SpawnListeners
    <2>3. Handshakes = {} /\ Live = {}
      BY <1>1 DEF Identify, Places
    <2> HIDE DEF m
    <2>4. CASE Grows(m)
      BY <2>1, <2>2, <2>3, <2>4, WhenGrown
    <2>5. QED
      BY <2>1, <2>2, <2>3, <2>4, WhenKept
  <1>2. ASSUME NEW l \in Listeners, TrySend(l) PROVE Numbers'
    <2> DEFINE m == holding[l]
    <2>1. (Grows(m) \/ Delivered' = Delivered) /\ m.kind = "event" /\ m # None /\ m.seq \in Nat
      BY <1>2, TrySendEffect, MessageKinds
    <2>2. /\ holding'[l] = None /\ \A k \in Listeners \ {l} : holding'[k] = holding[k]
          /\ sequence' = sequence
      BY <1>2, TrySendEffect DEF TrySend
    <2>3. /\ m.seq <= sequence
          /\ \A j \in Handshakes : Delivered[j].seq < m.seq
          /\ \A i \in Live : Delivered[i].seq # m.seq
          /\ \A k \in Listeners \ {l} : holding[k] # None => holding[k].seq # m.seq
      BY <1>2, <2>1
    <2> HIDE DEF m
    <2>4. CASE Grows(m)
      BY <2>1, <2>2, <2>3, <2>4, WhenGrown, Kinds
    <2>5. QED
      BY <2>1, <2>2, <2>4, WhenKept
  <1>3. CASE ReplayNext
    <2> DEFINE m == [Head(replay) EXCEPT !.kind = "replayed"]
    <2>1. (Grows(m) \/ Delivered' = Delivered) /\ m.kind = "replayed"
      BY <1>3, ReplayNextEffect, ReplayedCopy
    <2>2. UNCHANGED <<sequence, holding>>
      BY <1>3 DEF ReplayNext, tasks
    <2> HIDE DEF m
    <2>3. CASE Grows(m)
      BY <2>1, <2>2, <2>3, WhenGrown, Kinds
    <2>4. QED
      BY <2>1, <2>2, <2>3, WhenKept
  <1>4. CASE Resumed
    <2> DEFINE m == Msg("RESUMED", sequence + 1, None, None)
    <2>1. /\ Grows(m) \/ Delivered' = Delivered
          /\ m.kind = "RESUMED" /\ m.seq = sequence + 1 /\ sequence' = sequence + 1
      BY <1>4, ResumedEffect, MessageKinds, Counting DEF Resumed
    <2>2. \A l \in Listeners : holding'[l] = None
      <3>1. \A l \in Listeners : holding[l] = None
        BY <1>4 DEF Resumed, TypeOK
      <3>2. QED
        BY <1>4, <3>1 DEF Resumed, SpawnListeners, tasks
    <2>3. Handshakes = {} /\ Live = {} /\ sequence \in Nat
      BY <1>4, Counting DEF Resumed, Places
    <2> HIDE DEF m
    <2>4. CASE Grows(m)
      BY <2>1, <2>2, <2>3, <2>4, WhenGrown
    <2>5. QED
      BY <2>1, <2>2, <2>3, <2>4, WhenKept
  <1>5. CASE Close
    <2>1. Handshakes' = {} /\ Live' = {}
      BY <1>5, CloseEffect DEF Handshakes, Live, Indices
    <2>2. \A l \in Listeners : holding'[l] = None
      BY <1>5 DEF Close, tasks, TypeOK
    <2>3. QED
      BY <2>1, <2>2
  <1>6. ASSUME NEW l \in Listeners, Take(l) PROVE Numbers'
    <2>1. /\ Handshakes' = Handshakes /\ Live' = Live
          /\ \A i \in DOMAIN Delivered : Delivered'[i] = Delivered[i]
      BY <1>6, QuietEffect DEF Quiet
    <2>2. /\ sequence' = sequence + 1 /\ holding'[l].seq = sequence + 1
          /\ \A k \in Listeners \ {l} : holding'[k] = holding[k]
      BY <1>6 DEF Take, Msg, TypeOK
    <2>3. /\ sequence \in Nat
          /\ \A i \in Handshakes \cup Live : i \in DOMAIN Delivered /\ Delivered[i].seq \in Nat
      BY Kinds DEF TypeOK
    <2>4. \A k \in Listeners : holding[k] # None => holding[k].seq \in Nat
      BY MessageKinds DEF TypeOK
    <2>5. QED
      BY <2>1, <2>2, <2>3, <2>4
  <1>7. CASE Resume
    <2>1. Handshakes' = {} /\ Live' = {}
      BY <1>7, QuietEffect DEF Quiet, Resume, Places
    <2>2. \A l \in Listeners : holding'[l] = None
      BY <1>7 DEF Resume, TypeOK, tasks
    <2>3. QED
      BY <2>1, <2>2
  <1>8. CASE Quiet /\ ~Resume /\ ~\E l \in Listeners : Take(l)
    <2>1. sequence' = sequence /\ \A l \in Listeners : holding'[l] \in {holding[l], None}
      BY <1>8 DEF Quiet, Subscribe, BufferEvent, Abort, Publish, FormerSubscribe, FormerSend,
         FormerAbort, Heartbeat, IdentifyOther, Deliver, Disconnect, Reconnect, ExpireBuffer,
         vars, tasks, TypeOK
    <2>2. /\ Handshakes' = Handshakes /\ Live' = Live
          /\ \A i \in DOMAIN Delivered : Delivered'[i] = Delivered[i]
      BY <1>8, QuietEffect
    <2>3. \A i \in Handshakes \cup Live : i \in DOMAIN Delivered
      BY Kinds
    <2>4. QED
      BY <2>1, <2>2, <2>3
  <1>9. QED
    BY <1>1, <1>2, <1>3, <1>4, <1>5, <1>6, <1>7, <1>8 DEF Next, Forward, Quiet

-----------------------------------------------------------------------------
(* Order.                                                                  *)

(* Where events are on their way, they are numbered as they were published.*)
LEMMA Tasks ==
    ASSUME TypeOK, NEW l \in Listeners
    PROVE  /\ inbox[l] \in Seq(1 .. published)
           /\ Len(inbox[l]) \in Nat /\ DOMAIN inbox[l] = 1 .. Len(inbox[l])
           /\ \A k \in DOMAIN inbox[l] : inbox[l][k] \in Nat /\ inbox[l][k] <= published
           /\ published \in Nat
           /\ listener[l] = "buffer" => holding[l] # None
           /\ holding[l] # None => holding[l].ev \in Nat /\ holding[l].seq \in Nat
  <1>1. /\ inbox[l] \in Seq(1 .. published) /\ published \in Nat
        /\ listener[l] = "buffer" => holding[l] # None
        /\ holding[l] # None => holding[l] \in Events("event")
    BY Counting DEF TypeOK
  <1>2. /\ Len(inbox[l]) \in Nat /\ DOMAIN inbox[l] = 1 .. Len(inbox[l])
        /\ \A k \in DOMAIN inbox[l] : inbox[l][k] \in 1 .. published
    BY <1>1, LenProperties, ElementOfSeq
  <1>3. QED
    BY <1>1, <1>2, MessageKinds

(* A new or a lost connection has no listeners.                            *)
LEMMA NoTasks ==
    ASSUME TypeOK, phase \in {"open", "other", "closed", "replay", "lost"}, NEW l \in Listeners
    PROVE  listener[l] = "none" /\ holding[l] = None /\ DOMAIN inbox[l] = {}
  <1>1. listener[l] = "none" /\ holding[l] = None /\ inbox[l] = <<>>
    BY DEF TypeOK
  <1>2. QED
    BY <1>1, EmptySeq, LenProperties

(* New listeners hold nothing and have nothing queued.                     *)
LEMMA Spawning ==
    ASSUME SpawnListeners, NEW l \in Listeners
    PROVE  listener'[l] = "spawned" /\ holding'[l] = None /\ DOMAIN inbox'[l] = {}
  <1>1. listener'[l] = "spawned" /\ holding'[l] = None /\ inbox'[l] = <<>>
    BY DEF SpawnListeners
  <1>2. QED
    BY <1>1, EmptySeq, LenProperties

(* Take moves the oldest queued event into the hands of its listener.      *)
LEMMA TakeEffect ==
    ASSUME TypeOK, NEW l \in Listeners, Take(l)
    PROVE  /\ 1 \in DOMAIN inbox[l]
           /\ holding'[l].src = l /\ holding'[l].ev = inbox[l][1] /\ holding'[l] # None
           /\ listener'[l] = "buffer"
           /\ DOMAIN inbox'[l] = 1 .. Len(inbox[l]) - 1
           /\ \A k \in DOMAIN inbox'[l] : inbox'[l][k] = inbox[l][k + 1]
           /\ \A k \in Listeners \ {l} :
                 /\ inbox'[k] = inbox[k] /\ holding'[k] = holding[k]
                 /\ listener'[k] = listener[k]
           /\ published' = published
  <1> DEFINE m == Msg("event", sequence + 1, l, Head(inbox[l]))
  <1>1. inbox[l] # <<>> /\ Head(inbox[l]) = inbox[l][1]
    BY DEF Take
  <1>2. /\ Tail(inbox[l]) \in Seq(1 .. published) /\ Len(Tail(inbox[l])) = Len(inbox[l]) - 1
        /\ \A k \in 1 .. Len(inbox[l]) - 1 : Tail(inbox[l])[k] = inbox[l][k + 1]
        /\ Head(inbox[l]) \in 1 .. published
    BY <1>1, Tasks, HeadTailProperties
  <1>3. DOMAIN Tail(inbox[l]) = 1 .. Len(inbox[l]) - 1
    BY <1>2, LenProperties
  <1>4. 1 \in DOMAIN inbox[l]
    BY <1>1, Tasks, EmptySeq
  <1>5. m.src = l /\ m.ev = inbox[l][1] /\ m # None
    <2>1. Head(inbox[l]) \in Nat /\ sequence + 1 \in Nat
      BY <1>2, Tasks DEF TypeOK
    <2>2. QED
      BY <1>1, <2>1, EventCopy, MessageKinds
  <1> HIDE DEF m
  <1>6. /\ holding' = [holding EXCEPT ![l] = m]
        /\ inbox' = [inbox EXCEPT ![l] = Tail(inbox[l])]
        /\ listener' = [listener EXCEPT ![l] = "buffer"]
        /\ published' = published
    BY DEF Take, m
  <1>7. holding'[l] = m /\ inbox'[l] = Tail(inbox[l]) /\ listener'[l] = "buffer"
    BY <1>6 DEF TypeOK
  <1>8. \A k \in Listeners \ {l} :
           inbox'[k] = inbox[k] /\ holding'[k] = holding[k] /\ listener'[k] = listener[k]
    BY <1>6 DEF TypeOK
  <1>9. QED
    BY <1>2, <1>3, <1>4, <1>5, <1>6, <1>7, <1>8

(* A publish queues the newest event of all, or none.                      *)
LEMMA PublishEffect ==
    ASSUME TypeOK, NEW l \in Listeners, Publish(l)
    PROVE  /\ published' = published + 1 /\ UNCHANGED <<listener, holding>>
           /\ \/ inbox' = inbox
              \/ /\ DOMAIN inbox'[l] = 1 .. Len(inbox[l]) + 1
                 /\ inbox'[l][Len(inbox[l]) + 1] = published + 1
                 /\ \A k \in DOMAIN inbox[l] : inbox'[l][k] = inbox[l][k]
                 /\ \A k \in Listeners \ {l} : inbox'[k] = inbox[k]
  <1> DEFINE all == Append(inbox[l], published + 1)
  <1>1. inbox[l] \in Seq(Nat) /\ published + 1 \in Nat
    BY Tasks, SeqMonotonic
  <1>2. /\ all \in Seq(Nat) /\ Len(all) = Len(inbox[l]) + 1
        /\ \A k \in 1 .. Len(inbox[l]) : all[k] = inbox[l][k]
        /\ all[Len(inbox[l]) + 1] = published + 1
    BY <1>1, AppendProperties
  <1>3. DOMAIN all = 1 .. Len(inbox[l]) + 1
    BY <1>2, LenProperties
  <1>4. published' = published + 1 /\ UNCHANGED <<listener, holding>>
    BY DEF Publish
  <1>5. inbox' = inbox \/ inbox' = [inbox EXCEPT ![l] = all]
    BY DEF Publish
  <1> HIDE DEF all
  <1>6. inbox' = [inbox EXCEPT ![l] = all] =>
           inbox'[l] = all /\ \A k \in Listeners \ {l} : inbox'[k] = inbox[k]
    BY DEF TypeOK
  <1>7. QED
    BY <1>2, <1>3, <1>4, <1>5, <1>6, Tasks

(* The other steps take events from the tasks, or leave them.              *)
LEMMA OtherTasks ==
    ASSUME TypeOK, [Next]_vars,
           ~\E l \in Listeners : Take(l) \/ Publish(l)
    PROVE  /\ published' = published
           /\ \A l \in Listeners :
                 /\ inbox'[l] = inbox[l] \/ DOMAIN inbox'[l] = {}
                 /\ holding'[l] = holding[l] \/ holding'[l] = None
                 /\ listener'[l] = "buffer" =>
                       listener[l] = "buffer" /\ holding'[l] = holding[l]
  <1>1. CASE Identify \/ Resumed
    BY <1>1, Spawning DEF Identify, Resumed, tasks
  <1>2. ASSUME NEW l \in Listeners, Abort(l)
        PROVE  /\ published' = published
               /\ inbox'[l] = <<>> /\ holding'[l] = None /\ listener'[l] = "none"
               /\ \A k \in Listeners \ {l} :
                     /\ inbox'[k] = inbox[k] /\ holding'[k] = holding[k]
                     /\ listener'[k] = listener[k]
    BY <1>2 DEF Abort, TypeOK
  <1>3. ASSUME NEW l \in Listeners, TrySend(l)
        PROVE  /\ published' = published /\ inbox' = inbox
               /\ holding'[l] = None /\ listener'[l] \in {"idle", "dead"}
               /\ \A k \in Listeners \ {l} : holding'[k] = holding[k] /\ listener'[k] = listener[k]
    BY <1>3 DEF TrySend, TypeOK
  <1>4. ASSUME NEW l \in Listeners, Subscribe(l) \/ BufferEvent(l)
        PROVE  /\ published' = published /\ inbox' = inbox /\ holding' = holding
               /\ listener'[l] # "buffer"
               /\ \A k \in Listeners \ {l} : listener'[k] = listener[k]
    BY <1>4 DEF Subscribe, BufferEvent, TypeOK
  <1>5. CASE \/ Heartbeat \/ IdentifyOther \/ Disconnect \/ Close \/ Reconnect \/ Resume
             \/ ReplayNext \/ Deliver \/ ExpireBuffer \/ UNCHANGED vars
             \/ \E l \in Listeners : FormerSubscribe(l) \/ FormerSend(l) \/ FormerAbort(l)
    BY <1>5 DEF Heartbeat, IdentifyOther, FormerSubscribe, FormerSend, FormerAbort,
       Disconnect, Close, Reconnect, Resume, ReplayNext, Deliver, ExpireBuffer, vars, tasks
  <1>6. DOMAIN <<>> = {}
    BY EmptySeq, LenProperties
  <1>7. QED
    BY <1>1, <1>2, <1>3, <1>4, <1>5, <1>6 DEF Next, Forward

(* What is older stays older: events come out of the tasks as they came in.*)
LEMMA StaysOlder ==
    ASSUME TypeOK, [Next]_vars, NEW l \in Listeners, NEW e \in Nat, e <= published
    PROVE  /\ Queueing(l, e) => Queueing(l, e)'
           /\ Buffering(l, e) => Buffering(l, e)'
           /\ Sending(l, e) => Sending(l, e)'
           /\ e <= published'
  <1> USE DEF Queueing, Buffering, Sending
  <1> DEFINE Goal == /\ Queueing(l, e) => Queueing(l, e)'
                     /\ Buffering(l, e) => Buffering(l, e)'
                     /\ Sending(l, e) => Sending(l, e)'
                     /\ e <= published'
  <1>1. ASSUME NEW k \in Listeners, Take(k) PROVE Goal
    <2>1. CASE k = l
      <3>1. /\ 1 \in DOMAIN inbox[l] /\ holding'[l].ev = inbox[l][1]
            /\ DOMAIN inbox'[l] = 1 .. Len(inbox[l]) - 1
            /\ \A j \in DOMAIN inbox'[l] : inbox'[l][j] = inbox[l][j + 1]
            /\ published' = published
        BY <1>1, <2>1, TakeEffect
      <3>2. \A j \in DOMAIN inbox'[l] : j + 1 \in DOMAIN inbox[l]
        BY <3>1, Tasks
      <3>3. Queueing(l, e) => Queueing(l, e)' /\ e < holding'[l].ev
        BY <3>1, <3>2
      <3>4. QED
        BY <3>1, <3>3
    <2>2. CASE k # l
      <3>1. /\ inbox'[l] = inbox[l] /\ holding'[l] = holding[l] /\ listener'[l] = listener[l]
            /\ published' = published
        BY <1>1, <2>2, TakeEffect
      <3>2. QED
        BY <3>1
    <2>3. QED
      BY <2>1, <2>2
  <1>2. ASSUME NEW k \in Listeners, Publish(k) PROVE Goal
    <2>1. published' = published + 1 /\ UNCHANGED <<listener, holding>> /\ published \in Nat
      BY <1>2, PublishEffect, Tasks
    <2>2. CASE inbox'[l] = inbox[l]
      BY <2>1, <2>2
    <2>3. CASE /\ DOMAIN inbox'[l] = 1 .. Len(inbox[l]) + 1
               /\ inbox'[l][Len(inbox[l]) + 1] = published + 1
               /\ \A j \in DOMAIN inbox[l] : inbox'[l][j] = inbox[l][j]
      <3>1. \A j \in DOMAIN inbox'[l] : j \in DOMAIN inbox[l] \/ j = Len(inbox[l]) + 1
        BY <2>3, Tasks
      <3>2. Queueing(l, e) => Queueing(l, e)'
        <4>1. SUFFICES ASSUME Queueing(l, e), NEW j \in DOMAIN inbox'[l]
                       PROVE  e < inbox'[l][j]
          OBVIOUS
        <4>2. CASE j \in DOMAIN inbox[l]
          BY <2>3, <4>1, <4>2
        <4>3. CASE j = Len(inbox[l]) + 1
          BY <2>1, <2>3, <4>3
        <4>4. QED
          BY <3>1, <4>2, <4>3
      <3>3. QED
        BY <2>1, <3>2
    <2>4. QED
      BY <1>2, <2>2, <2>3, PublishEffect
  <1>3. CASE ~\E k \in Listeners : Take(k) \/ Publish(k)
    <2>1. /\ published' = published
          /\ inbox'[l] = inbox[l] \/ DOMAIN inbox'[l] = {}
          /\ holding'[l] = holding[l] \/ holding'[l] = None
          /\ listener'[l] = "buffer" => listener[l] = "buffer" /\ holding'[l] = holding[l]
      BY <1>3, OtherTasks
    <2>2. QED
      BY <2>1
  <1>4. QED
    BY <1>1, <1>2, <1>3

(* The queue of a subscription, and what its listener took from it, stay   *)
(* in order.                                                               *)
LEMMA QueuedStep ==
    ASSUME TypeOK, Queued, [Next]_vars
    PROVE  Queued'
  <1> SUFFICES ASSUME NEW l \in Listeners
               PROVE  /\ \A i, j \in DOMAIN inbox'[l] : i < j => inbox'[l][i] < inbox'[l][j]
                      /\ holding'[l] # None =>
                            /\ holding'[l].src = l /\ holding'[l].ev <= published'
                            /\ \A i \in DOMAIN inbox'[l] : holding'[l].ev < inbox'[l][i]
    BY DEF Queued, Queueing
  <1>a. /\ \A i, j \in DOMAIN inbox[l] : i < j => inbox[l][i] < inbox[l][j]
        /\ holding[l] # None =>
              /\ holding[l].src = l /\ holding[l].ev <= published
              /\ \A i \in DOMAIN inbox[l] : holding[l].ev < inbox[l][i]
    BY DEF Queued, Queueing
  <1>b. /\ Len(inbox[l]) \in Nat /\ DOMAIN inbox[l] = 1 .. Len(inbox[l])
        /\ \A i \in DOMAIN inbox[l] : inbox[l][i] \in Nat /\ inbox[l][i] <= published
        /\ published \in Nat
        /\ holding[l] # None => holding[l].ev \in Nat
    BY Tasks
  <1>1. ASSUME NEW k \in Listeners, Take(k), k # l
        PROVE  inbox'[l] = inbox[l] /\ holding'[l] = holding[l] /\ published' = published
    BY <1>1, TakeEffect
  <1>2. CASE Take(l)
    <2>1. /\ 1 \in DOMAIN inbox[l] /\ holding'[l].src = l /\ holding'[l].ev = inbox[l][1]
          /\ DOMAIN inbox'[l] = 1 .. Len(inbox[l]) - 1
          /\ \A i \in DOMAIN inbox'[l] : inbox'[l][i] = inbox[l][i + 1]
          /\ published' = published
      BY <1>2, TakeEffect
    <2>2. \A i \in DOMAIN inbox'[l] : i + 1 \in DOMAIN inbox[l] /\ i \in Nat /\ 1 < i + 1
      BY <1>b, <2>1
    <2>3. \A i, j \in DOMAIN inbox'[l] : i < j => inbox'[l][i] < inbox'[l][j]
      BY <1>a, <2>1, <2>2
    <2>4. \A i \in DOMAIN inbox'[l] : holding'[l].ev < inbox'[l][i]
      BY <1>a, <2>1, <2>2
    <2>5. QED
      BY <1>b, <2>1, <2>3, <2>4
  <1>3. ASSUME NEW k \in Listeners, Publish(k), inbox'[l] = inbox[l]
        PROVE  holding'[l] = holding[l] /\ published' = published + 1
    BY <1>3, PublishEffect
  <1>4. CASE Publish(l) /\ inbox'[l] # inbox[l]
    <2>1. /\ DOMAIN inbox'[l] = 1 .. Len(inbox[l]) + 1
          /\ inbox'[l][Len(inbox[l]) + 1] = published + 1
          /\ \A j \in DOMAIN inbox[l] : inbox'[l][j] = inbox[l][j]
          /\ holding'[l] = holding[l] /\ published' = published + 1
      BY <1>4, PublishEffect
    <2>2. \A j \in DOMAIN inbox'[l] :
             \/ j \in DOMAIN inbox[l] /\ j < Len(inbox[l]) + 1
             \/ j = Len(inbox[l]) + 1
      BY <1>b, <2>1
    <2>3. ASSUME NEW i \in DOMAIN inbox'[l], NEW j \in DOMAIN inbox'[l], i < j
          PROVE  inbox'[l][i] < inbox'[l][j]
      <3>1. i \in DOMAIN inbox[l] /\ inbox'[l][i] = inbox[l][i]
        BY <1>b, <2>1, <2>2, <2>3
      <3>2. QED
        BY <1>a, <1>b, <2>1, <2>2, <2>3, <3>1
    <2>4. holding[l] # None => \A i \in DOMAIN inbox'[l] : holding[l].ev < inbox'[l][i]
      BY <1>a, <1>b, <2>1, <2>2
    <2>5. QED
      BY <1>a, <1>b, <2>1, <2>3, <2>4
  <1>5. CASE ~\E k \in Listeners : Take(k) \/ Publish(k)
    <2>1. /\ published' = published
          /\ inbox'[l] = inbox[l] \/ DOMAIN inbox'[l] = {}
          /\ holding'[l] = holding[l] \/ holding'[l] = None
      BY <1>5, OtherTasks
    <2>2. QED
      BY <1>a, <2>1
  <1>6. ASSUME NEW k \in Listeners, Publish(k), k # l
        PROVE  inbox'[l] = inbox[l]
    BY <1>6, PublishEffect
  <1>7. CASE inbox'[l] = inbox[l] /\ holding'[l] = holding[l]
             /\ published' \in {published, published + 1}
    <2>1. holding[l] # None => holding[l].ev <= published'
      BY <1>a, <1>b, <1>7
    <2>2. QED
      BY <1>a, <1>7, <2>1
  <1>8. QED
    BY <1>1, <1>2, <1>3, <1>4, <1>5, <1>6, <1>7

(* An event is pushed when its listener holds it, and is then on its way   *)
(* to the channel only.                                                    *)
LEMMA BufferedStep ==
    ASSUME TypeOK, Queued, Buffered, [Next]_vars
    PROVE  Buffered'
  <1>a. /\ buffer \in Seq(Events("event")) /\ Len(buffer) <= BufferLimit
        /\ \A i \in DOMAIN buffer :
              buffer[i].src \in Listeners /\ buffer[i].ev \in Nat
    BY ElementOfSeq, LenProperties, MessageKinds DEF TypeOK
  <1>b. ASSUME NEW l \in Listeners, NEW e \in Nat,
               \E i \in DOMAIN buffer : buffer[i].src = l /\ buffer[i].ev = e
        PROVE  e <= published' /\ Buffering(l, e)'
    <2>1. e <= published /\ Buffering(l, e)
      BY <1>b DEF Buffered
    <2>2. QED
      BY <2>1, StaysOlder
  <1>c. SUFFICES
           /\ Ascending(buffer')
           /\ \A l \in Listeners, e \in Nat :
                 (\E i \in DOMAIN buffer' : buffer'[i].src = l /\ buffer'[i].ev = e)
                    => e <= published' /\ Buffering(l, e)'
    <2>1. buffer' \in Seq(Events("event"))
      BY TypeStep DEF TypeOK
    <2>2. \A i \in DOMAIN buffer' : buffer'[i] \in Events("event")
      BY <2>1, ElementOfSeq, LenProperties
    <2>3. \A i \in DOMAIN buffer' : buffer'[i].src \in Listeners /\ buffer'[i].ev \in Nat
      BY <2>2, MessageKinds
    <2>4. QED
      BY <1>c, <2>3 DEF Buffered, Buffering, Queueing, Ascending
  <1>1. CASE buffer' = buffer
    BY <1>1, <1>b DEF Buffered, Ascending
  <1>2. CASE buffer' = <<>>
    <2>1. DOMAIN buffer' = {}
      BY <1>2, EmptySeq, LenProperties
    <2>2. QED
      BY <2>1 DEF Ascending
  <1>3. ASSUME NEW l \in Listeners, BufferEvent(l) \/ Abort(l),
               listener[l] = "buffer", buffer' = Pushed(buffer, holding[l])
        PROVE  /\ Ascending(buffer')
               /\ \A k \in Listeners, e \in Nat :
                     (\E i \in DOMAIN buffer' : buffer'[i].src = k /\ buffer'[i].ev = e)
                        => e <= published' /\ Buffering(k, e)'
    <2>1. PICK m \in Events("event") :
             m = holding[l] /\ m.src = l /\ m.ev <= published /\ m.ev \in Nat
      BY <1>3, Tasks, MessageKinds DEF Queued, TypeOK
    <2>2. \A i \in DOMAIN buffer : buffer[i].src = m.src => buffer[i].ev < m.ev
      BY <1>3, <2>1 DEF Buffered, Buffering
    <2>3. /\ Ascending(buffer')
          /\ \A i \in DOMAIN buffer' : buffer'[i] = m \/ \E j \in DOMAIN buffer : buffer'[i] = buffer[j]
      BY <1>3, <1>a, <2>1, <2>2, AscendingPushed DEF Buffered
    <2>4. Queueing(l, m.ev)
      BY <1>3, <2>1, Tasks DEF Queued
    <2>5. listener'[l] # "buffer"
      BY <1>3 DEF BufferEvent, Abort, TypeOK
    <2>6. ASSUME NEW e \in Nat, e = m.ev
          PROVE  e <= published' /\ Buffering(l, e)'
      <3>1. e <= published /\ Queueing(l, e)
        BY <2>1, <2>4, <2>6
      <3>2. e <= published' /\ Queueing(l, e)'
        BY <3>1, StaysOlder
      <3>3. QED
        BY <2>5, <3>2 DEF Buffering, Queueing
    <2>7. QED
      BY <1>b, <2>1, <2>3, <2>6
  <1>4. \/ buffer' = buffer \/ buffer' = <<>>
        \/ \E l \in Listeners :
              /\ BufferEvent(l) \/ Abort(l)
              /\ listener[l] = "buffer" /\ buffer' = Pushed(buffer, holding[l])
    BY DEF Next, Forward, Identify, IdentifyOther, Heartbeat, Subscribe, Take, BufferEvent,
       TrySend, Abort, FormerSubscribe, FormerSend, FormerAbort, Deliver, Disconnect, Close,
       Reconnect, Resume, ReplayNext, Resumed, Publish, ExpireBuffer, vars
  <1>5. QED
    BY <1>1, <1>2, <1>3, <1>4

(* The events of a subject stay in their order, from NATS to the client:   *)
(* a listener sends what it holds before it takes another event, and a     *)
(* replay of the list is over before there are listeners again.            *)
LEMMA OrderedStep ==
    ASSUME TypeOK, Room, Places, Queued, Buffered, Ordered, [Next]_vars
    PROVE  Ordered'
  <1> DEFINE InOrder ==
                 \A i, j \in Told' : i < j /\ Delivered'[i].src = Delivered'[j].src
                     => Delivered'[i].ev < Delivered'[j].ev
             Older(l, e) ==
                 /\ e <= published' /\ Sending(l, e)'
                 /\ \A j \in DOMAIN replay' : replay'[j].src = l => e < replay'[j].ev
             Coming ==
                 /\ Ascending(replay')
                 /\ \A j \in DOMAIN replay' : replay'[j].ev <= published'
  <1>a. /\ \A i \in Told : Delivered[i].src \in Listeners /\ Delivered[i].ev \in Nat
        /\ \A i \in Told : i \in DOMAIN Delivered /\ i \in Nat
        /\ Len(Delivered) \in Nat /\ DOMAIN Delivered = 1 .. Len(Delivered)
    BY Kinds, DeliveredList
  <1>b. \A i \in Told' : Delivered'[i].src \in Listeners /\ Delivered'[i].ev \in Nat
    <2>1. received' \in Seq(Messages) /\ channel' \in Seq(Messages)
      BY TypeStep DEF TypeOK
    <2>2. Delivered' \in Seq(Messages)
      BY <2>1, ConcatProperties DEF Delivered
    <2>3. \A i \in DOMAIN Delivered' : Delivered'[i] \in Messages
      BY <2>2, ElementOfSeq, LenProperties
    <2>4. QED
      BY <2>3, MessageKinds DEF Told, Indices
  <1>c. SUFFICES
           /\ InOrder /\ Coming
           /\ \A l \in Listeners, e \in Nat :
                 (\E i \in Told' : Delivered'[i].src = l /\ Delivered'[i].ev = e) => Older(l, e)
    BY <1>b, <1>c DEF Ordered, SubjectOrder, Told, Sending, Queueing, Ascending
  <1>d. ASSUME NEW l \in Listeners, NEW e \in Nat,
               \E i \in Told : Delivered[i].src = l /\ Delivered[i].ev = e
        PROVE  /\ e <= published' /\ Sending(l, e)'
               /\ \A j \in DOMAIN replay : replay[j].src = l => e < replay[j].ev
               /\ holding[l] # None => e < holding[l].ev
    <2>1. /\ e <= published /\ Sending(l, e)
          /\ \A j \in DOMAIN replay : replay[j].src = l => e < replay[j].ev
      BY <1>d DEF Ordered
    <2>2. holding[l] # None => e < holding[l].ev
      BY <2>1 DEF Sending
    <2>3. QED
      BY <2>1, <2>2, StaysOlder
  <1>e. \A i, j \in Told : i < j /\ Delivered[i].src = Delivered[j].src
            => Delivered[i].ev < Delivered[j].ev
    BY DEF Ordered, SubjectOrder, Told
  <1>f. published' \in {published, published + 1} /\ published \in Nat
    <2>1. ASSUME NEW l \in Listeners, Take(l) PROVE published' = published
      BY <2>1, TakeEffect
    <2>2. ASSUME NEW l \in Listeners, Publish(l) PROVE published' = published + 1
      BY <2>2, PublishEffect
    <2>3. published \in Nat
      BY ConstantsAssumption DEF TypeOK
    <2>4. QED
      BY <2>1, <2>2, <2>3, OtherTasks
  <1>g. \A j \in DOMAIN replay : replay[j].src \in Listeners /\ replay[j].ev \in Nat
    BY ElementOfSeq, LenProperties, MessageKinds DEF TypeOK
  <1>h. replay' = replay => Coming
    BY <1>f, <1>g DEF Ordered, Ascending
  <1>1. ASSUME Told' \subseteq Told, \A i \in Told' : Delivered'[i] = Delivered[i],
               replay' = replay
        PROVE  /\ InOrder /\ Coming
               /\ \A l \in Listeners, e \in Nat :
                     (\E i \in Told' : Delivered'[i].src = l /\ Delivered'[i].ev = e) => Older(l, e)
    BY <1>1, <1>d, <1>e, <1>h
  <1>2. CASE Identify
    <2> DEFINE m == Msg("READY", 1, None, None)
    <2>1. /\ Grows(m) \/ Delivered' = Delivered
          /\ m.kind = "READY" /\ replay' = replay
      BY <1>2, IdentifyEffect, MessageKinds DEF Identify
    <2> HIDE DEF m
    <2>2. Told' = Told /\ \A i \in Told : Delivered'[i] = Delivered[i]
      BY <1>a, <2>1, WhenGrown, WhenKept
    <2>3. QED
      BY <1>1, <2>1, <2>2
  <1>3. CASE Resumed
    <2> DEFINE m == Msg("RESUMED", sequence + 1, None, None)
    <2>1. /\ Grows(m) \/ Delivered' = Delivered
          /\ m.kind = "RESUMED" /\ replay' = replay
      BY <1>3, ResumedEffect, MessageKinds, Counting DEF Resumed
    <2> HIDE DEF m
    <2>2. Told' = Told /\ \A i \in Told : Delivered'[i] = Delivered[i]
      BY <1>a, <2>1, WhenGrown, WhenKept
    <2>3. QED
      BY <1>1, <2>1, <2>2
  <1>4. CASE Close
    <2>1. Told' = {}
      BY <1>4, CloseEffect DEF Told, Indices
    <2>2. replay' = replay
      BY <1>4 DEF Close
    <2>3. QED
      BY <1>1, <2>1, <2>2
  <1>5. CASE Quiet /\ ~Resume
    <2>1. Told' = Told /\ \A i \in DOMAIN Delivered : Delivered'[i] = Delivered[i]
      BY <1>5, QuietEffect
    <2>2. replay' = replay
      BY <1>5 DEF Quiet, Subscribe, Take, BufferEvent, Abort, Publish, FormerSubscribe,
         FormerSend, FormerAbort, Heartbeat, IdentifyOther, Deliver, Disconnect, Reconnect,
         ExpireBuffer, vars
    <2>3. QED
      BY <1>1, <1>a, <2>1, <2>2
  <1>7. CASE Resume
    <2>1. Told' = {}
      BY <1>7, QuietEffect, Kinds DEF Quiet, Resume, Places
    <2>3. replay' = buffer \/ replay' = <<>>
      BY <1>7 DEF Resume
    <2>4. CASE replay' = buffer
      <3>1. \A j \in DOMAIN buffer : buffer[j].ev \in Nat
        BY ElementOfSeq, LenProperties, MessageKinds DEF TypeOK
      <3>2. Coming
        BY <1>f, <2>4, <3>1 DEF Buffered, Ascending
      <3>3. QED
        BY <2>1, <3>2
    <2>5. CASE replay' = <<>>
      <3>1. DOMAIN replay' = {}
        BY <2>5, EmptySeq, LenProperties
      <3>2. QED
        BY <2>1, <3>1 DEF Ascending
    <2>6. QED
      BY <2>3, <2>4, <2>5
  <1>8. ASSUME NEW l \in Listeners, TrySend(l)
        PROVE  /\ InOrder /\ Coming
               /\ \A k \in Listeners, e \in Nat :
                     (\E i \in Told' : Delivered'[i].src = k /\ Delivered'[i].ev = e) => Older(k, e)
    <2>1. PICK m \in Events("event") : m = holding[l]
      BY <1>8, TrySendEffect
    <2>2. /\ m # None /\ m.kind = "event" /\ m.src = l /\ m.ev \in Nat /\ m.ev <= published
          /\ Queueing(l, m.ev)
      BY <2>1, MessageKinds DEF Queued
    <2>3. replay' = replay /\ replay = <<>>
      BY <1>8 DEF TrySend, TypeOK, Room
    <2>4. (Grows(m) \/ Delivered' = Delivered) /\ holding'[l] = None
      BY <1>8, <2>1, TrySendEffect
    <2>5. CASE Delivered' = Delivered
      <3>1. Told' = Told
        BY <2>5, WhenKept
      <3>2. QED
        BY <1>1, <2>3, <2>5, <3>1
    <2>6. CASE Grows(m)
      <3> DEFINE n == Len(Delivered) + 1
      <3>1. /\ Told' = Told \cup {n} /\ Delivered'[n] = m
            /\ \A i \in Told : i < n /\ Delivered'[i] = Delivered[i]
        BY <1>a, <2>2, <2>6, WhenGrown
      <3> HIDE DEF n
      <3>2. InOrder
        <4>1. \A i \in Told : Delivered[i].src = l => Delivered[i].ev < m.ev
          BY <1>a, <1>d, <2>1, <2>2
        <4>2. \A i \in Told \cup {n} : ~(n < i)
          BY <1>a, <3>1 DEF n
        <4>3. ASSUME NEW i \in Told', NEW j \in Told', i < j,
                     Delivered'[i].src = Delivered'[j].src
              PROVE  Delivered'[i].ev < Delivered'[j].ev
          <5>1. i \in Told /\ Delivered'[i] = Delivered[i]
            BY <3>1, <4>2, <4>3
          <5>2. CASE j \in Told
            BY <1>e, <3>1, <4>3, <5>1, <5>2
          <5>3. CASE j = n
            BY <2>2, <3>1, <4>1, <4>3, <5>1, <5>3
          <5>4. QED
            BY <3>1, <5>2, <5>3
        <4>4. QED
          BY <4>3
      <3>3. \A e \in Nat : e = m.ev => e <= published' /\ Sending(l, e)'
        <4>1. ASSUME NEW e \in Nat, e = m.ev PROVE e <= published' /\ Queueing(l, e)'
          <5>1. e <= published /\ Queueing(l, e)
            BY <2>2, <4>1
          <5>2. QED
            BY <5>1, StaysOlder
        <4>2. QED
          BY <2>4, <4>1 DEF Sending, Queueing
      <3>4. DOMAIN replay' = {}
        BY <2>3, EmptySeq, LenProperties
      <3>5. QED
        BY <1>d, <1>h, <2>2, <2>3, <3>1, <3>2, <3>3, <3>4
    <2>7. QED
      BY <2>4, <2>5, <2>6
  <1>9. CASE ReplayNext
    <2> DEFINE h == Head(replay)
               m == [h EXCEPT !.kind = "replayed"]
    <2>1. /\ h \in Events("event") /\ h = replay[1] /\ 1 \in DOMAIN replay
          /\ DOMAIN replay' = 1 .. Len(replay) - 1 /\ DOMAIN replay = 1 .. Len(replay)
          /\ \A i \in DOMAIN replay' : replay'[i] = replay[i + 1]
          /\ Grows(m) \/ Delivered' = Delivered
      BY <1>9, ReplayNextEffect
    <2>2. m.kind = "replayed" /\ m.src = h.src /\ m.ev = h.ev
          /\ h.src \in Listeners /\ h.ev \in Nat
      BY <2>1, ReplayedCopy, MessageKinds
    <2> HIDE DEF m, h
    <2>3. \A i \in DOMAIN replay' : i + 1 \in DOMAIN replay /\ i \in Nat /\ 1 < i + 1
      BY <2>1, LenProperties DEF TypeOK
    <2>4. Coming
      <3>1. \A j \in DOMAIN replay' : replay'[j].ev <= published'
        BY <1>f, <1>g, <2>1, <2>3 DEF Ordered
      <3>2. ASSUME NEW i \in DOMAIN replay', NEW j \in DOMAIN replay', i < j
            PROVE  replay'[i].src = replay'[j].src => replay'[i].ev < replay'[j].ev
        <4>1. i + 1 < j + 1
          BY <2>3, <3>2
        <4>2. QED
          BY <2>1, <2>3, <3>2, <4>1 DEF Ordered, Ascending
      <3>3. QED
        BY <3>1, <3>2 DEF Ascending
    <2>5. \A k \in Listeners, e \in Nat :
             (\E i \in Told : Delivered[i].src = k /\ Delivered[i].ev = e) => Older(k, e)
      BY <1>d, <2>1, <2>3
    <2>6. CASE Delivered' = Delivered
      <3>1. Told' = Told
        BY <2>6, WhenKept
      <3>2. QED
        BY <1>e, <2>4, <2>5, <2>6, <3>1
    <2>7. CASE Grows(m)
      <3> DEFINE n == Len(Delivered) + 1
      <3>1. /\ Told' = Told \cup {n} /\ Delivered'[n] = m
            /\ \A i \in Told : i < n /\ Delivered'[i] = Delivered[i]
        BY <1>a, <2>2, <2>7, WhenGrown
      <3> HIDE DEF n
      <3>2. InOrder
        <4>1. \A i \in Told : Delivered[i].src = m.src => Delivered[i].ev < m.ev
          BY <1>a, <1>d, <2>1, <2>2
        <4>2. \A i \in Told \cup {n} : ~(n < i)
          BY <1>a, <3>1 DEF n
        <4>3. ASSUME NEW i \in Told', NEW j \in Told', i < j,
                     Delivered'[i].src = Delivered'[j].src
              PROVE  Delivered'[i].ev < Delivered'[j].ev
          <5>1. i \in Told /\ Delivered'[i] = Delivered[i]
            BY <3>1, <4>2, <4>3
          <5>2. CASE j \in Told
            BY <1>e, <3>1, <4>3, <5>1, <5>2
          <5>3. CASE j = n
            BY <3>1, <4>1, <4>3, <5>1, <5>3
          <5>4. QED
            BY <3>1, <5>2, <5>3
        <4>4. QED
          BY <4>3
      <3>3. ASSUME NEW e \in Nat, e = h.ev, NEW l \in Listeners, l = h.src PROVE Older(l, e)
        <4>1. holding'[l] = None /\ inbox'[l] = inbox[l] /\ DOMAIN inbox[l] = {}
          BY <1>9, NoTasks DEF ReplayNext, tasks
        <4>2. Sending(l, e)'
          BY <4>1 DEF Sending, Queueing
        <4>3. e <= published'
          BY <1>f, <1>g, <2>1, <3>3 DEF Ordered
        <4>4. \A j \in DOMAIN replay' : replay'[j].src = l => e < replay'[j].ev
          BY <2>1, <2>3, <3>3 DEF Ordered, Ascending
        <4>5. QED
          BY <4>2, <4>3, <4>4
      <3>4. QED
        BY <2>2, <2>4, <2>5, <3>1, <3>2, <3>3
    <2>8. QED
      BY <2>1, <2>6, <2>7
  <1>10. QED
    BY <1>2, <1>3, <1>4, <1>5, <1>7, <1>8, <1>9 DEF Next, Forward, Quiet

-----------------------------------------------------------------------------
(* Complete replays.                                                       *)

(* Nothing of what LRANGE returned above the client's number is passed     *)
(* over, and no number is taken before the replay is over.                 *)
LEMMA ReplayingStep ==
    ASSUME TypeOK, Room, Places, Replaying, [Next]_vars
    PROVE  Replaying'
  <1> USE DEF Replaying
  <1>a. phase' = "replay" => (RoomAhead' => RoomAhead)
    BY AheadGrows DEF Close
  <1>1. CASE phase' # "replay" \/ ~RoomAhead'
    BY <1>1
  <1>2. CASE Resume
    <2>2. missed' = {} \/ (replay' = buffer /\ missed' \subseteq ToSet(buffer))
      BY <1>2 DEF Resume
    <2>3. \A m \in ToSet(buffer) : \E j \in DOMAIN buffer : buffer[j] = m
      BY DEF ToSet
    <2>4. QED
      BY <2>2, <2>3
  <1>3. CASE ReplayNext
    <2> DEFINE h == Head(replay)
               c == [h EXCEPT !.kind = "replayed"]
    <2>1. /\ h \in Events("event") /\ h = replay[1]
          /\ DOMAIN replay' = 1 .. Len(replay) - 1 /\ DOMAIN replay = 1 .. Len(replay)
          /\ \A i \in DOMAIN replay' : replay'[i] = replay[i + 1]
          /\ Grows(c) \/ Delivered' = Delivered
          /\ RoomAhead /\ IsUnseen(h) => Grows(c)
      BY <1>3, ReplayNextEffect
    <2>2. c.kind = "replayed" /\ c.ev = h.ev
      BY <2>1, ReplayedCopy
    <2>3. UNCHANGED <<phase, sequence, missed>> /\ phase = "replay"
      BY <1>3 DEF ReplayNext
    <2> HIDE DEF h, c
    <2>4. \A i \in Replayed : i \in Replayed' /\ Delivered'[i] = Delivered[i]
      <3>1. CASE Grows(c)
        BY <2>2, <3>1, WhenGrown, Kinds
      <3>2. QED
        BY <2>1, <3>1, WhenKept
    <2>5. RoomAhead /\ h.seq > sequence => \E i \in Replayed' : Delivered'[i].ev = h.ev
      <3>1. CASE RoomAhead /\ h.seq > sequence
        <4>1. Grows(c)
          BY <2>1, <3>1 DEF IsUnseen
        <4>2. QED
          BY <2>2, <4>1, WhenGrown
      <3>2. QED
        BY <3>1
    <2>6. ASSUME NEW m \in missed, m.seq > sequence, RoomAhead
          PROVE  \/ \E j \in DOMAIN replay' : replay'[j] = m
                 \/ \E i \in Replayed' : Delivered'[i].ev = m.ev
      <3>1. CASE \E i \in Replayed : Delivered[i].ev = m.ev
        BY <2>4, <3>1
      <3>2. ASSUME NEW j \in DOMAIN replay, replay[j] = m, j # 1
            PROVE  \E k \in DOMAIN replay' : replay'[k] = m
        <4>1. j - 1 \in DOMAIN replay' /\ (j - 1) + 1 = j
          BY <2>1, <3>2, LenProperties DEF TypeOK
        <4>2. replay'[j - 1] = m
          BY <2>1, <3>2, <4>1
        <4>3. QED
          BY <4>1, <4>2
      <3>3. CASE m = h
        BY <2>5, <2>6, <3>3
      <3>4. QED
        BY <2>1, <2>3, <2>6, <3>1, <3>2, <3>3
    <2>7. QED
      BY <1>a, <2>3, <2>6
  <1>4. CASE phase = "replay" /\ phase' = "replay" /\ ~ReplayNext
    <2>1. \A l \in Listeners : listener[l] = "none"
      BY <1>4 DEF TypeOK
    <2>2. \/ \E l \in Listeners : Publish(l) \/ FormerSubscribe(l) \/ FormerSend(l)
          \/ Deliver \/ ExpireBuffer \/ UNCHANGED vars
      BY <1>4, <2>1 DEF Next, Forward, Identify, IdentifyOther, Heartbeat, Subscribe, Take,
         BufferEvent, TrySend, Abort, FormerAbort, Disconnect, Close, Reconnect, Resume,
         Resumed
    <2>3. Replayed' = Replayed /\ \A i \in DOMAIN Delivered : Delivered'[i] = Delivered[i]
      BY <2>2, QuietEffect DEF Quiet
    <2>4. UNCHANGED <<sequence, missed, replay>>
      BY <2>2 DEF Publish, FormerSubscribe, FormerSend, Deliver, ExpireBuffer, vars
    <2>5. \A i \in Replayed : i \in DOMAIN Delivered
      BY Kinds
    <2>6. QED
      BY <1>4, <1>a, <2>3, <2>4, <2>5
  <1>5. phase' = "replay" => phase = "replay" \/ Resume
    BY DEF Next, Forward, Identify, IdentifyOther, Heartbeat, Subscribe, Take, BufferEvent,
       TrySend, Abort, FormerSubscribe, FormerSend, FormerAbort, Deliver, Disconnect, Close,
       Reconnect, ReplayNext, Resumed, Publish, ExpireBuffer, vars
  <1>6. QED
    BY <1>1, <1>2, <1>3, <1>4, <1>5

(* RESUMED is numbered above the client, once nothing is left to offer.    *)
LEMMA AboveLastReplayedStep ==
    ASSUME TypeOK, Room, Places, Replaying, AboveLastReplayed, [Next]_vars
    PROVE  AboveLastReplayed'
  <1> DEFINE R == Indices({"RESUMED"})
             Before(m, j) == \E i \in Replayed : i < j /\ Delivered[i].ev = m.ev
             Goal == \A m \in missed', j \in R' : m.seq >= Delivered'[j].seq =>
                        \E i \in Replayed' : i < j /\ Delivered'[i].ev = m.ev
  <1>a. RoomAhead => \A m \in missed, j \in R : m.seq >= Delivered[j].seq => Before(m, j)
    BY DEF AboveLastReplayed, ReplaysAll, Replayed
  <1>b. /\ R \subseteq Handshakes
        /\ \A i \in R \cup Replayed : i \in DOMAIN Delivered
    BY Kinds
  <1>c. SUFFICES ASSUME RoomAhead' PROVE Goal
    BY <1>c DEF AboveLastReplayed, ReplaysAll, Replayed
  <1>d. ~Close => RoomAhead
    BY <1>c, AheadGrows
  <1>1. CASE Resumed
    <2> DEFINE m == Msg("RESUMED", sequence + 1, None, None)
               n == Len(Delivered) + 1
    <2>1. Grows(m) /\ m.kind = "RESUMED" /\ m.seq = sequence + 1 /\ RoomAhead
      <3>1. RoomAhead
        BY <1>1, <1>d DEF Resumed, Close
      <3>2. QED
        BY <1>1, <3>1, ResumedEffect, MessageKinds, Counting
    <2>2. /\ phase = "replay" /\ replay = <<>> /\ missed' = missed /\ sequence \in Nat
          /\ DOMAIN replay = {}
      BY <1>1, EmptySeq, LenProperties DEF Resumed, TypeOK
    <2>3. Handshakes = {}
      BY <2>2 DEF Places
    <2> HIDE DEF m
    <2>4. /\ R' = {n} /\ Replayed' = Replayed /\ Delivered'[n].seq = sequence + 1
          /\ \A i \in Replayed : i < n /\ Delivered'[i] = Delivered[i]
      BY <1>b, <2>1, <2>3, WhenGrown
    <2> HIDE DEF n
    <2>5. \A k \in missed : k.seq \in Nat
      BY MessageKinds DEF TypeOK
    <2>6. QED
      BY <2>1, <2>2, <2>4, <2>5 DEF Replaying
  <1>2. CASE Resume
    <2>1. R' = {}
      BY <1>2, <1>b, QuietEffect DEF Quiet, Resume, Places
    <2>2. QED
      BY <2>1
  <1>3. CASE Close
    <2>1. R' = {}
      BY <1>3, CloseEffect DEF Indices
    <2>2. QED
      BY <2>1
  <1>4. ASSUME NEW m, Grows(m), m.kind # "RESUMED", missed' = missed, ~Close
        PROVE  Goal
    <2>1. /\ R' = R /\ Replayed \subseteq Replayed'
          /\ \A i \in R \cup Replayed : Delivered'[i] = Delivered[i]
      BY <1>4, <1>b, WhenGrown
    <2>2. QED
      BY <1>4, <1>a, <1>d, <2>1
  <1>5. ASSUME Delivered' = Delivered, missed' = missed, ~Close
        PROVE  Goal
    <2>1. R' = R /\ Replayed' = Replayed
      BY <1>5, WhenKept
    <2>2. QED
      BY <1>5, <1>a, <1>d, <2>1
  <1>6. CASE Identify
    <2>1. ~Close /\ missed' = missed
      BY <1>6 DEF Identify, Close
    <2>2. QED
      BY <1>4, <1>5, <1>6, <2>1, IdentifyEffect, MessageKinds
  <1>7. ASSUME NEW l \in Listeners, TrySend(l) PROVE Goal
    <2>1. /\ holding[l].kind = "event" /\ missed' = missed /\ ~Close
          /\ Grows(holding[l]) \/ Delivered' = Delivered
      BY <1>7, TrySendEffect, MessageKinds DEF TrySend, Close
    <2>2. QED
      BY <1>4, <1>5, <2>1
  <1>8. CASE ReplayNext
    <2> DEFINE c == [Head(replay) EXCEPT !.kind = "replayed"]
    <2>1. /\ c.kind = "replayed" /\ missed' = missed /\ ~Close
          /\ Grows(c) \/ Delivered' = Delivered
      BY <1>8, ReplayNextEffect, ReplayedCopy DEF ReplayNext, Close
    <2> HIDE DEF c
    <2>2. QED
      BY <1>4, <1>5, <2>1
  <1>9. CASE Quiet /\ ~Resume /\ ~Close
    <2>1. missed' = missed
      BY <1>9 DEF Quiet, Subscribe, Take, BufferEvent, Abort, Publish, FormerSubscribe,
         FormerSend, FormerAbort, Heartbeat, IdentifyOther, Deliver, Disconnect, Reconnect,
         ExpireBuffer, vars
    <2>2. /\ R' = R /\ Replayed' = Replayed
          /\ \A i \in DOMAIN Delivered : Delivered'[i] = Delivered[i]
      BY <1>9, QuietEffect
    <2>3. QED
      BY <1>9, <1>a, <1>b, <1>d, <2>1, <2>2
  <1>10. QED
    BY <1>1, <1>2, <1>3, <1>6, <1>7, <1>8, <1>9 DEF Next, Forward, Quiet

-----------------------------------------------------------------------------
(* The theorems.                                                           *)

(* The inductive invariant of a session.                                    *)
DispatchInv ==
    TypeOK /\ Room /\ Places /\ Numbers /\ Queued /\ Buffered /\ Ordered
    /\ Replaying /\ AboveLastReplayed

(* A session that has just connected.                                      *)
LEMMA DispatchInit ==
    ASSUME Init
    PROVE  DispatchInv
  <1>1. TypeOK
    <2>1. <<>> \in Seq(Messages) /\ <<>> \in Seq(Events("event"))
          /\ <<>> \in Seq(1 .. published) /\ <<>> \in Seq(Nat) /\ Len(<<>>) = 0
      BY EmptySeq
    <2>2. QED
      BY <2>1, ConstantsAssumption DEF Init, TypeOK, Phases, ListenerStates, FormerStates
  <1>2. Delivered = <<>> /\ DOMAIN <<>> = {}
    BY EmptySeq, LenProperties, ConcatEmptySeq DEF Init, Delivered
  <1>3. Handshakes = {} /\ Live = {} /\ Replayed = {} /\ Told = {} /\ Indices({"RESUMED"}) = {}
    BY <1>2 DEF Handshakes, Live, Replayed, Told, Indices
  <1>4. Room
    BY EmptySeq DEF Init, Room
  <1>5. Places
    BY <1>3 DEF Init, Places, Started
  <1>6. Numbers
    BY <1>3 DEF Init, Numbers
  <1>7. Queued /\ Buffered /\ Replaying
    BY <1>2 DEF Init, Queued, Buffered, Replaying, Ascending
  <1>8. Ordered
    BY <1>2, <1>3 DEF Init, Ordered, SubjectOrder, Told, Ascending
  <1>9. AboveLastReplayed
    BY <1>3 DEF AboveLastReplayed, ReplaysAll
  <1>10. QED
    BY <1>1, <1>4, <1>5, <1>6, <1>7, <1>8, <1>9 DEF DispatchInv

(* The invariant is inductive.                                             *)
LEMMA DispatchStep ==
    ASSUME DispatchInv, [Next]_vars
    PROVE  DispatchInv'
  BY TypeStep, RoomStep, PlacesStep, NumbersStep, QueuedStep, BufferedStep, OrderedStep,
     ReplayingStep, AboveLastReplayedStep DEF DispatchInv

(* And so holds throughout.                                                *)
LEMMA DispatchHolds == Spec => []DispatchInv
  BY DispatchInit, DispatchStep, PTL DEF Spec

(* What the session holds of its listeners, channel, list and counters,    *)
(* whatever is published, lost and resumed, and that no listener runs      *)
(* before READY or RESUMED and after a connection has gone.                *)
THEOREM TypeCorrect == Spec => []TypeOK
  <1>1. DispatchInv => TypeOK
    BY DEF DispatchInv
  <1>2. QED
    BY <1>1, DispatchHolds, PTL

(* READY, or the replayed events and RESUMED, come before the live events  *)
(* of the session, whatever a former session sends among them, find room   *)
(* in the channel when others left it, and are below every number of a     *)
(* live event; listeners never share a number.                             *)
THEOREM HandshakeComesFirst == Spec => []HandshakeFirst
  <1>1. DispatchInv => HandshakeFirst
    <2> SUFFICES ASSUME DispatchInv PROVE HandshakeFirst
      OBVIOUS
    <2>1. /\ \A i \in Live, k \in Replayed : k < i
          /\ \A j \in Handshakes :
                (\A i \in Live : j < i) /\ (\A i \in Replayed : i < j)
          /\ RoomAhead /\ (phase \in {"live", "lost"} \/ Live # {}) => Handshakes # {}
      BY DEF DispatchInv, Places, Started
    <2>2. \A i \in Live, j \in Indices({"READY", "RESUMED", "replayed"}) : j < i
      BY <2>1 DEF Indices, Handshakes, Replayed
    <2>3. ASSUME NEW i \in Live, NEW j \in Indices({"event", "READY", "RESUMED"}), i # j
          PROVE  /\ Delivered[i].seq # Delivered[j].seq
                 /\ Delivered[j].kind # "event" => Delivered[j].seq < Delivered[i].seq
      <3>1. /\ j \in Live \/ j \in Handshakes
            /\ Delivered[j].kind # "event" => j \in Handshakes
        BY DEF Indices, Live, Handshakes
      <3>2. /\ \A h \in Handshakes : Delivered[h].seq < Delivered[i].seq
            /\ \A k \in Live : i # k => Delivered[i].seq # Delivered[k].seq
        BY DEF DispatchInv, Numbers
      <3>3. \A h \in Handshakes : Delivered[h].seq \in Nat
        BY Kinds DEF DispatchInv
      <3>4. Delivered[i].seq \in Nat
        BY Kinds DEF DispatchInv
      <3>5. QED
        BY <2>3, <3>1, <3>2, <3>3, <3>4
    <2>4. QED
      BY <2>1, <2>2, <2>3 DEF HandshakeFirst, Handshakes, Live, Replayed
  <1>2. QED
    BY <1>1, DispatchHolds, PTL

(* The events of one subject arrive in the order of their publication, and *)
(* each once on a connection, replayed or live, however the listeners      *)
(* overtake each other between their numbers and the channel, however full *)
(* the channel and whatever number the client names.                       *)
THEOREM SubjectsOrdered == Spec => []SubjectOrder
  <1>1. DispatchInv => SubjectOrder
    BY DEF DispatchInv, Ordered
  <1>2. QED
    BY <1>1, DispatchHolds, PTL

(* No event of the list above the client's number is passed over before    *)
(* RESUMED, for every depth of the channel, as long as what others offered *)
(* before RESUMED and the limit of the list leave a place in it.           *)
THEOREM ReplayComplete == Spec => []AboveLastReplayed
  <1>1. DispatchInv => AboveLastReplayed
    BY DEF DispatchInv
  <1>2. QED
    BY <1>1, DispatchHolds, PTL
=============================================================================
