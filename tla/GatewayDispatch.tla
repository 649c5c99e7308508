-------------------------- MODULE GatewayDispatch --------------------------
(***************************************************************************)
(* How the events of one gateway session reach its client: the listener    *)
(* tasks that handle_identify and handle_resume spawn, one per NATS        *)
(* subject, number each event, keep a copy in the Redis list               *)
(* gateway_events:<id> and offer it to the bounded outbound channel of the *)
(* connection; the sender task drains that channel into the WebSocket; a   *)
(* Resume on a later connection replays from the list what the client says *)
(* it has not seen.                                                        *)
(*                                                                         *)
(* One session, over the successive connections of one client.  Who may    *)
(* resume, and the registry, are the subject of GatewaySession.  A         *)
(* listener awaits Redis between taking a number and offering the event,   *)
(* so the listeners overtake each other there; that is why each of its     *)
(* steps is an action.                                                     *)
(*                                                                         *)
(* A client may also identify another session on a new connection, and     *)
(* resume this one afterwards: the match on OpCode::Resume does not ask    *)
(* whether the connection has a session.  The tasks of that former session *)
(* share the channel of the connection with the replay, and are aborted    *)
(* only when handle_resume has returned and the listeners of this session  *)
(* run.                                                                    *)
(***************************************************************************)
EXTENDS Naturals, Sequences, SequencesExt

CONSTANTS
    Listeners,        \* the subjects the session subscribes to, one task each
    None,             \* no message held
    ChannelCapacity,  \* OUTBOUND_CHANNEL_CAPACITY
    BufferLimit,      \* events LTRIM leaves in gateway_events:<id>
    Claims,           \* numbers a client may resume with, payload.sequence
    MaxEvents,        \* bound on the events published
    MaxResumes,       \* bound on the resumes of the session
    MaxHeartbeats,    \* bound on the heartbeats
    MaxFormer,        \* bound on the tasks of a former session
    MaxFailures       \* bound on failed Redis and NATS calls

ASSUME ConstantsAssumption ==
    /\ Listeners # {}
    /\ BufferLimit \in Nat \ {0}
    /\ Claims \subseteq Nat
    /\ {MaxEvents, MaxResumes, MaxHeartbeats, MaxFormer, MaxFailures} \subseteq Nat
    /\ ChannelCapacity \in Nat \ {0}

VARIABLES
    phase,      \* where the connection of the client stands, see Phases
    sequence,   \* GatewaySession.sequence, the last number taken
    listener,   \* listener[l]: the state of the task, see ListenerStates
    holding,    \* holding[l]: the dispatch between next_sequence and try_send
    inbox,      \* inbox[l]: events NATS has queued for the subscription
    channel,    \* the mpsc channel of the connection
    buffer,     \* Redis gateway_events:<id>
    replay,     \* what LRANGE returned and is still to be offered
    received,   \* the messages the client got on this connection
    former,     \* former[l]: the task of the session identified before a Resume
    strays,     \* strays[l]: events NATS has queued for that task
    ahead,      \* history: acks and messages of the former session offered to
                \* the channel before the READY or RESUMED of this one
    published,  \* events published so far, also the id of the last one
    seen,       \* history: events the client has received on any connection
    missed,     \* history: what LRANGE returned that the client had not seen
    resumes, heartbeats, failures  \* how much of each bound is used

tasks    == <<listener, holding, inbox>>
others   == <<former, strays>>
client   == <<received, seen>>
counters == <<resumes, heartbeats, failures>>
vars == <<phase, sequence, tasks, others, ahead, channel, buffer, replay, client,
          published, missed, counters>>

(* "open": connected, before Identify or Resume; "other": the connection   *)
(* has another session; "aborting": the loop has been left, the sender     *)
(* task still flushes; "closed": no connection; "lost": handle_resume has  *)
(* failed after it consumed the stored session, which nobody can resume.   *)
Phases == {"open", "other", "live", "replay", "aborting", "closed", "lost"}

(* "spawned": before client.subscribe completes; "buffer": about to push   *)
(* to Redis; "send": about to try_send; "dead": the task has returned.     *)
ListenerStates == {"none", "spawned", "idle", "buffer", "send", "dead"}

FormerStates == {"none", "spawned", "idle"}

Subscribed(l) == listener[l] \in {"idle", "buffer", "send"}

(* GatewayMessage; kind tells the events of this session, live and         *)
(* replayed, from the strays of the former one and from its READY          *)
(* ("other"), a distinction only the properties make.  What numbers the    *)
(* former session gives its messages is of no account: they carry 0.       *)
Msg(kind, seq, l, ev) == [kind |-> kind, seq |-> seq, src |-> l, ev |-> ev]

Events(kind) == [kind : {kind}, seq : Nat, src : Listeners, ev : Nat]
Signals      == [kind : {"READY", "RESUMED", "ack", "other"}, seq : Nat,
                 src : {None}, ev : {None}]
Messages     == Events("event") \cup Events("replayed") \cup Events("stray") \cup Signals

ASSUME NoneAssumption == None \notin Messages

-----------------------------------------------------------------------------
(* Helpers.                                                                *)

MayFail == failures < MaxFailures /\ failures' = failures + 1

(* tx.try_send(m) with the result ignored: a full channel drops m.         *)
Offered(ch, m) == IF Len(ch) < ChannelCapacity THEN Append(ch, m) ELSE ch

(* Before the handshake of this session, what others offer is in its way.  *)
CountAhead == ahead' = IF phase \in {"open", "other", "replay"} THEN ahead + 1 ELSE ahead

SpawnListeners ==
    /\ listener' = [l \in Listeners |-> "spawned"]
    /\ holding' = [l \in Listeners |-> None]
    /\ inbox' = [l \in Listeners |-> <<>>]

Init ==
    /\ phase = "open"
    /\ sequence = 0
    /\ listener = [l \in Listeners |-> "none"]
    /\ holding = [l \in Listeners |-> None]
    /\ inbox = [l \in Listeners |-> <<>>]
    /\ channel = <<>> /\ buffer = <<>> /\ replay = <<>>
    /\ former = [l \in Listeners |-> "none"]
    /\ strays = [l \in Listeners |-> <<>>]
    /\ received = <<>> /\ ahead = 0
    /\ published = 0
    /\ seen = {} /\ missed = {}
    /\ resumes = 0 /\ heartbeats = 0 /\ failures = 0

-----------------------------------------------------------------------------
(* Deviations: what a plausible slip in the code would make of the         *)
(* definition each is named after.  Nothing below uses them; they show     *)
(* that the properties depend on what the code does.                       *)

(* LTRIM 0 -1 in place of -1000 -1: the list is never cut.                 *)
Pushed_Untrimmed(list, m) == Append(list, m)

(* The listeners started before READY is numbered and queued.              *)
Identify_SpawnsFirst ==
    /\ phase = "open" /\ sequence = 0
    /\ \/ /\ listener = [l \in Listeners |-> "none"]
          /\ SpawnListeners
          /\ UNCHANGED <<phase, sequence, channel>>
       \/ /\ listener # [l \in Listeners |-> "none"]
          /\ sequence' = sequence + 1
          /\ channel' = Offered(channel, Msg("READY", sequence + 1, None, None))
          /\ phase' = "live"
          /\ UNCHANGED tasks
    /\ UNCHANGED <<others, ahead, buffer, replay, client, published, missed, counters>>

(* LPUSH in place of RPUSH, LTRIM keeping the other end.                   *)
Pushed_Left(list, m) ==
    LET all == <<m>> \o list
    IN  IF Len(all) > BufferLimit THEN Front(all) ELSE all

(* The filter of replay_events with an off-by-one.                         *)
IsUnseen_OffByOne(m) == m.seq > sequence + 1

-----------------------------------------------------------------------------
(* RPUSH, LTRIM -1000 -1: the newest BufferLimit events stay.              *)
Pushed(list, m) ==
    LET all == Append(list, m)
    IN  IF Len(all) > BufferLimit THEN Tail(all) ELSE all

(* handle_identify: READY takes number 1, then the listeners start.        *)
Identify ==
    /\ phase = "open" /\ sequence = 0
    /\ sequence' = 1
    /\ channel' = Offered(channel, Msg("READY", 1, None, None))
    /\ SpawnListeners
    /\ phase' = "live"
    /\ UNCHANGED <<others, ahead, buffer, replay, client, published, missed, counters>>

(* OpCode::Heartbeat: the ack carries no number and is not buffered.       *)
Heartbeat ==
    /\ phase \in {"open", "other", "live"}
    /\ heartbeats < MaxHeartbeats
    /\ heartbeats' = heartbeats + 1
    /\ channel' = Offered(channel, Msg("ack", 0, None, None))
    /\ CountAhead
    /\ UNCHANGED <<phase, sequence, tasks, others, buffer, replay, client, published,
                   missed, resumes, failures>>

(* handle_identify of another session, on a connection that could resume   *)
(* this one, with the servers and channels the user has by then; a second  *)
(* Identify would end the connection.                                      *)
IdentifyOther ==
    /\ phase = "open" /\ sequence # 0
    /\ phase' = "other"
    /\ channel' = Offered(channel, Msg("other", 0, None, None))
    /\ CountAhead
    /\ \E S \in SUBSET Listeners :
          /\ Cardinality(S) <= MaxFormer
          /\ former' = [l \in Listeners |-> IF l \in S THEN "spawned" ELSE "none"]
    /\ UNCHANGED <<sequence, tasks, strays, buffer, replay, client, published, missed,
                   counters>>

-----------------------------------------------------------------------------
(* subscribe_and_forward, one task per subject.                            *)

(* client.subscribe(subject).await                                         *)
Subscribe(l) ==
    /\ listener[l] = "spawned"
    /\ \/ listener' = [listener EXCEPT ![l] = "idle"] /\ UNCHANGED failures
       \/ MayFail /\ listener' = [listener EXCEPT ![l] = "dead"]
    /\ UNCHANGED <<phase, sequence, holding, inbox, others, ahead, channel, buffer,
                   replay, client, published, missed, resumes, heartbeats>>

(* subscriber.next() yields an event, and next_sequence numbers it.        *)
Take(l) ==
    /\ listener[l] = "idle"
    /\ inbox[l] # <<>>
    /\ sequence' = sequence + 1
    /\ holding' = [holding EXCEPT ![l] = Msg("event", sequence + 1, l, Head(inbox[l]))]
    /\ inbox' = [inbox EXCEPT ![l] = Tail(@)]
    /\ listener' = [listener EXCEPT ![l] = "buffer"]
    /\ UNCHANGED <<phase, others, ahead, channel, buffer, replay, client, published,
                   missed, counters>>

(* buffer_event().await, its result ignored.                               *)
BufferEvent(l) ==
    /\ listener[l] = "buffer"
    /\ phase # "aborting"
    /\ \/ buffer' = Pushed(buffer, holding[l]) /\ UNCHANGED failures
       \/ MayFail /\ UNCHANGED buffer
    /\ listener' = [listener EXCEPT ![l] = "send"]
    /\ UNCHANGED <<phase, sequence, holding, inbox, others, ahead, channel, replay,
                   client, published, missed, resumes, heartbeats>>

(* try_send: on a full channel the listener breaks out of its loop.        *)
TrySend(l) ==
    /\ listener[l] = "send"
    /\ channel' = Offered(channel, holding[l])
    /\ listener' = [listener EXCEPT ![l] =
                       IF Len(channel) < ChannelCapacity THEN "idle" ELSE "dead"]
    /\ holding' = [holding EXCEPT ![l] = None]
    /\ UNCHANGED <<phase, sequence, inbox, others, ahead, buffer, replay, client,
                   published, missed, counters>>

(* abort() lands at the next await.  A push already handed to the Redis    *)
(* connection may still be executed.                                       *)
Abort(l) ==
    /\ phase = "aborting"
    /\ listener[l] \in {"spawned", "idle", "buffer", "dead"}
    /\ listener' = [listener EXCEPT ![l] = "none"]
    /\ holding' = [holding EXCEPT ![l] = None]
    /\ inbox' = [inbox EXCEPT ![l] = <<>>]
    /\ \/ UNCHANGED buffer
       \/ listener[l] = "buffer" /\ buffer' = Pushed(buffer, holding[l])
    /\ UNCHANGED <<phase, sequence, others, ahead, channel, replay, client, published,
                   missed, counters>>

-----------------------------------------------------------------------------
(* subscribe_and_forward for the former session.  Numbers and the list     *)
(* gateway_events of that session aside, an iteration of its loop only     *)
(* offers the event, or returns on a full channel; what abort() cuts off   *)
(* before the offer is as if it had not been taken, and a subscription     *)
(* that fails as if there were no task.                                    *)

FormerSubscribe(l) ==
    /\ former[l] = "spawned"
    /\ former' = [former EXCEPT ![l] = "idle"]
    /\ UNCHANGED <<phase, sequence, tasks, strays, ahead, channel, buffer, replay,
                   client, published, missed, counters>>

FormerSend(l) ==
    /\ strays[l] # <<>>
    /\ channel' = Offered(channel, Msg("stray", 0, l, Head(strays[l])))
    /\ CountAhead
    /\ IF Len(channel) < ChannelCapacity
       THEN strays' = [strays EXCEPT ![l] = Tail(@)] /\ UNCHANGED former
       ELSE strays' = [strays EXCEPT ![l] = <<>>] /\ former' = [former EXCEPT ![l] = "none"]
    /\ UNCHANGED <<phase, sequence, tasks, buffer, replay, client, published, missed,
                   counters>>

(* Aborted when handle_resume has returned, or the loop has been left; the *)
(* abort lands at the next await.                                          *)
FormerAbort(l) ==
    /\ phase \in {"live", "aborting", "lost"}
    /\ former[l] # "none"
    /\ former' = [former EXCEPT ![l] = "none"]
    /\ strays' = [strays EXCEPT ![l] = <<>>]
    /\ UNCHANGED <<phase, sequence, tasks, ahead, channel, buffer, replay, client,
                   published, missed, counters>>

-----------------------------------------------------------------------------
(* The sender task, and the client at the other end of the socket.         *)

Deliver ==
    /\ phase # "closed"
    /\ channel # <<>>
    /\ LET m == Head(channel)
       IN  /\ received' = Append(received, m)
           /\ seen' = IF m.ev # None THEN seen \cup {m.ev} ELSE seen
    /\ channel' = Tail(channel)
    /\ UNCHANGED <<phase, sequence, tasks, others, ahead, buffer, replay, published,
                   missed, counters>>

-----------------------------------------------------------------------------
(* Losing the connection, and resuming on a new one.                       *)

(* The loop breaks: the listeners are aborted first, and the sender task   *)
(* has 200 ms to flush.                                                    *)
Disconnect ==
    /\ phase \in {"other", "live"}
    /\ phase' = "aborting"
    /\ UNCHANGED <<sequence, tasks, others, ahead, channel, buffer, replay, client,
                   published, missed, counters>>

(* sender_task.abort(): what is left in the channel is lost.               *)
Close ==
    /\ phase = "aborting"
    /\ \A l \in Listeners : listener[l] = "none" /\ former[l] = "none"
    /\ phase' = "closed"
    /\ channel' = <<>> /\ received' = <<>> /\ missed' = {} /\ ahead' = 0
    /\ UNCHANGED <<sequence, tasks, others, buffer, replay, seen, published, counters>>

Reconnect ==
    /\ phase = "closed"
    /\ resumes < MaxResumes
    /\ resumes' = resumes + 1
    /\ phase' = "open"
    /\ UNCHANGED <<sequence, tasks, others, ahead, channel, buffer, replay, client,
                   published, missed, heartbeats, failures>>

(* handle_resume: the session starts again at the client's number, which   *)
(* nothing compares with the one stored; a failed LRANGE reads as an empty *)
(* list.                                                                   *)
Resume ==
    /\ phase \in {"open", "other"} /\ sequence # 0
    /\ sequence' \in Claims
    /\ \/ /\ replay' = buffer
          /\ missed' = {m \in ToSet(buffer) : m.ev \notin seen}
          /\ UNCHANGED failures
       \/ MayFail /\ replay' = <<>> /\ missed' = {}
    /\ phase' = "replay"
    /\ UNCHANGED <<tasks, others, ahead, channel, buffer, client, published, resumes,
                   heartbeats>>

(* The filter; no number has been taken since the session started again.   *)
IsUnseen(m) == m.seq > sequence

ReplayNext ==
    /\ phase = "replay"
    /\ replay # <<>>
    /\ channel' = IF IsUnseen(Head(replay))
                  THEN Offered(channel, [Head(replay) EXCEPT !.kind = "replayed"]) ELSE channel
    /\ replay' = Tail(replay)
    /\ UNCHANGED <<phase, sequence, tasks, others, ahead, buffer, client, published,
                   missed, counters>>

(* DEL of the list, its result ignored; RESUMED; then the queries for      *)
(* servers and channels, whose failure ends the connection, and the        *)
(* listeners start.                                                        *)
Resumed ==
    /\ phase = "replay"
    /\ replay = <<>>
    /\ sequence' = sequence + 1
    /\ channel' = Offered(channel, Msg("RESUMED", sequence + 1, None, None))
    /\ \/ buffer' = <<>> /\ UNCHANGED failures /\ SpawnListeners /\ phase' = "live"
       \/ MayFail /\ UNCHANGED buffer /\ SpawnListeners /\ phase' = "live"
       \/ MayFail /\ buffer' \in {buffer, <<>>} /\ UNCHANGED tasks /\ phase' = "lost"
    /\ UNCHANGED <<others, ahead, replay, client, published, missed, resumes, heartbeats>>

-----------------------------------------------------------------------------
(* The environment.                                                        *)

(* A publish on the subject of l: core NATS queues it for the              *)
(* subscriptions that exist; one that meets none is forgotten.             *)
Publish(l) ==
    /\ published < MaxEvents
    /\ Subscribed(l) \/ former[l] = "idle"
    /\ published' = published + 1
    /\ inbox' = IF Subscribed(l)
                THEN [inbox EXCEPT ![l] = Append(@, published + 1)] ELSE inbox
    /\ strays' = IF former[l] = "idle"
                 THEN [strays EXCEPT ![l] = Append(@, published + 1)] ELSE strays
    /\ UNCHANGED <<phase, sequence, listener, holding, former, ahead, channel, buffer,
                   replay, client, missed, counters>>

(* Five minutes without a push: EXPIRE removes the list.                   *)
ExpireBuffer ==
    /\ buffer # <<>>
    /\ buffer' = <<>>
    /\ UNCHANGED <<phase, sequence, tasks, others, ahead, channel, replay, client,
                   published, missed, counters>>

Forward(l) ==
    \/ Subscribe(l) \/ Take(l) \/ BufferEvent(l) \/ TrySend(l) \/ Abort(l)
    \/ FormerSubscribe(l) \/ FormerSend(l) \/ FormerAbort(l)

Next ==
    \/ Identify \/ IdentifyOther \/ Heartbeat \/ Disconnect \/ Close \/ Reconnect
    \/ Resume \/ ReplayNext \/ Resumed
    \/ \E l \in Listeners : Forward(l) \/ Publish(l)
    \/ Deliver
    \/ ExpireBuffer

Spec == Init /\ [][Next]_vars

-----------------------------------------------------------------------------
(* Properties.                                                             *)

Delivered == received \o channel
Indices(kinds) == {i \in DOMAIN Delivered : Delivered[i].kind \in kinds}

TypeOK ==
    /\ phase \in Phases /\ sequence \in Nat /\ ahead \in Nat
    /\ listener \in [Listeners -> ListenerStates]
    /\ holding \in [Listeners -> Events("event") \cup {None}]
    /\ inbox \in [Listeners -> Seq(1 .. published)]
    /\ former \in [Listeners -> FormerStates]
    /\ strays \in [Listeners -> Seq(Nat)]
    /\ channel \in Seq(Messages) /\ received \in Seq(Messages)
    /\ buffer \in Seq(Events("event")) /\ replay \in Seq(Events("event"))
    /\ missed \subseteq Events("event") /\ seen \subseteq Nat
    /\ published \in 0 .. MaxEvents /\ resumes \in 0 .. MaxResumes
    /\ heartbeats \in 0 .. MaxHeartbeats /\ failures \in 0 .. MaxFailures
    /\ \A l \in Listeners :
          /\ holding[l] # None <=> listener[l] \in {"buffer", "send"}
          /\ inbox[l] # <<>> => listener[l] \notin {"none", "spawned"}
          /\ strays[l] # <<>> => former[l] = "idle"
    /\ Len(channel) <= ChannelCapacity
    /\ Len(buffer) <= BufferLimit
    /\ phase \in {"open", "other", "closed", "replay", "lost"} =>
          \A l \in Listeners : listener[l] = "none"
    /\ phase \in {"open", "closed"} => \A l \in Listeners : former[l] = "none"

(* What has been offered ahead of the handshake, and a full replay, leave  *)
(* a place in the channel: with 1024 against 1000, up to 23 acks and       *)
(* messages of a former session.                                           *)
RoomAhead == ahead + BufferLimit < ChannelCapacity

(* A client knows where it stands before the first live event: READY, or   *)
(* the replayed events and then RESUMED, precede every live event of the   *)
(* session, and are not dropped for want of room unless others filled the  *)
(* channel first.  Listeners start while the sender task is still draining *)
(* the handshake, and several draw their numbers from one counter: no two  *)
(* live events share one, and all are above that of READY or RESUMED.  Of  *)
(* the events of a former session on the connection it says nothing: they  *)
(* come among the replayed ones and after RESUMED.                         *)
HandshakeFirst ==
    /\ \A i \in Indices({"event"}), j \in Indices({"READY", "RESUMED", "replayed"}) : j < i
    /\ \A i \in Indices({"READY", "RESUMED"}), j \in Indices({"replayed"}) : j < i
    /\ RoomAhead /\ (phase \in {"live", "lost"} \/ Indices({"event"}) # {}) =>
          Indices({"READY", "RESUMED"}) # {}
    /\ \A i \in Indices({"event"}), j \in Indices({"event", "READY", "RESUMED"}) :
          i # j => /\ Delivered[i].seq # Delivered[j].seq
                   /\ Delivered[j].kind # "event" => Delivered[j].seq < Delivered[i].seq

(* The events of one subject that the session forwards reach the client in *)
(* the order of their publication, each once, on each connection, replayed *)
(* ones included; numbers of different subjects may overtake each other,   *)
(* ids of one subject never do.                                            *)
SubjectOrder ==
    \A i, j \in Indices({"event", "replayed"}) :
        i < j /\ Delivered[i].src = Delivered[j].src
            => Delivered[i].ev < Delivered[j].ev

(* RESUMED closes a replay that is complete above the client's number:     *)
(* every event Redis had, the client had not and whose number is higher    *)
(* is on the connection before it.                                         *)
ReplaysAll ==
    \A m \in missed, j \in Indices({"RESUMED"}) :
        m.seq >= Delivered[j].seq
            => \E i \in Indices({"replayed"}) : i < j /\ Delivered[i].ev = m.ev

(* It is, unless others filled the channel first: replay_events deletes    *)
(* the list whether or not try_send found room.                            *)
AboveLastReplayed == RoomAhead => ReplaysAll
=============================================================================
