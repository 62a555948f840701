------------------------------- MODULE SSEHub -------------------------------
(***************************************************************************)
(* The event hub (sse.py): request handlers call notify(), every open      *)
(* GET /api/events connection runs one subscribe() generator in a thread   *)
(* of its own, and clients connect, drop and come back with the            *)
(* Last-Event-ID they have seen.                                           *)
(*                                                                         *)
(* Each of the three locks guards a section of its own, so notify() is     *)
(* three steps and other threads run between them.  Two sections are left  *)
(* open while a generator is suspended at a yield: the replay holds        *)
(* _recent_lock, the rejection holds _clients_lock.  The other sections    *)
(* are single steps.                                                       *)
(*                                                                         *)
(* A yield hands text to the socket.  The client reads it unless it has    *)
(* dropped: then the text is lost in a buffer, or the write raises and the *)
(* generator is closed.                                                    *)
(* Time is abstracted: whether two events fall into one coalescing window, *)
(* and whether a heartbeat is due, is open.                                *)
(***************************************************************************)
EXTENDS Naturals, FiniteSets, Sequences, SequencesExt

CONSTANTS
  Notifier,    \* threads that call notify
  Stream,      \* threads that serve an event stream
  Client,      \* browsers
  NoClient,    \* a stream that serves nobody
  EventType,   \* names of the notified events
  NoEvent,     \* pending_event = None
  MaxClients,  \* _MAX_CLIENTS
  MaxQueue,    \* _MAX_QUEUE_SIZE
  BufferSize,  \* _RECENT_BUFFER_SIZE
  MaxId        \* bound: ids handed out

ASSUME HubAssumption ==
  /\ NoClient \notin Client
  /\ "sync" \notin EventType
  /\ NoEvent \notin [id : Nat, type : EventType \cup {"sync"}]
  /\ MaxClients \in Nat \ {0}
  /\ MaxQueue \in Nat \ {0}
  /\ BufferSize \in Nat \ {0}
  /\ MaxId \in Nat

VARIABLES
  eventId,      \* _event_id
  recent,       \* _recent_events, a sequence of events
  replayer,     \* the streams that hold _recent_lock: at most one
  rejecter,     \* the streams that hold _clients_lock across a yield
  clients,      \* _clients: the streams whose queues are registered
  queue,        \* queue[s]: the queue of stream s
  npc, nev,     \* npc[n], nev[n]: step and event of a notify call
  spc,          \* spc[s]: step of a stream
  owner,        \* owner[s]: the client s was opened for
  conn,         \* the streams whose client is still there
  from,         \* from[s]: last_event_id, 0 for None
  backlog,      \* backlog[s]: the events a replay still has to yield
  pending,      \* pending[s]: the coalesced event waiting to be flushed
  last,         \* last[c]: the Last-Event-ID client c would send, 0 for none
  standsFor,    \* history: standsFor[s], the ids coalesced into pending[s]
  seen,         \* history: seen[c], ids whose event, or the one that
                \* took its place, client c has received
  latest        \* history: latest[s][ty], id of the last event put on s

hubVars == <<eventId, recent, replayer, rejecter, clients, queue>>
notifyVars == <<npc, nev>>
streamVars == <<spc, owner, conn, from, backlog, pending, standsFor>>
clientVars == <<last, seen>>
vars == <<hubVars, notifyVars, streamVars, clientVars, latest>>

-----------------------------------------------------------------------------
Event(i, ty) == [id |-> i, type |-> ty]
Types == EventType \cup {"sync"}
Events == {Event(i, ty) : i \in 1..MaxId, ty \in Types}

NotifySteps == {"idle", "buffer", "broadcast", "syncId", "syncBuffer", "syncBroadcast"}
StreamSteps == {"off", "register", "reject", "state", "lock", "replay",
                "live", "beat", "close"}

(* Steps at which the generator is past its setup.                         *)
Live == {"live", "beat"}

Init ==
  /\ eventId = 0 /\ recent = <<>>
  /\ replayer = {} /\ rejecter = {} /\ clients = {}
  /\ queue = [s \in Stream |-> <<>>]
  /\ npc = [n \in Notifier |-> "idle"]
  /\ nev = [n \in Notifier |-> NoEvent]
  /\ spc = [s \in Stream |-> "off"]
  /\ owner = [s \in Stream |-> NoClient]
  /\ conn = {}
  /\ from = [s \in Stream |-> 0]
  /\ backlog = [s \in Stream |-> <<>>]
  /\ pending = [s \in Stream |-> NoEvent]
  /\ last = [c \in Client |-> 0]
  /\ seen = [c \in Client |-> {}]
  /\ standsFor = [s \in Stream |-> {}]
  /\ latest = [s \in Stream |-> [ty \in Types |-> 0]]

-----------------------------------------------------------------------------
(* notify(event, data)                                                     *)

(* _next_event_id                                                          *)
NextEventId == eventId < MaxId /\ eventId' = eventId + 1

NotifyBegin(n, ty) ==
  /\ npc[n] = "idle"
  /\ NextEventId
  /\ nev' = [nev EXCEPT ![n] = Event(eventId + 1, ty)]
  /\ npc' = [npc EXCEPT ![n] = "buffer"]
  /\ UNCHANGED <<recent, replayer, rejecter, clients, queue, streamVars, clientVars, latest>>

\* Mutant: a deque without maxlen.
BufferedAll(e) == Append(recent, e)

(* deque(maxlen): the oldest entry goes when the buffer is full.           *)
Buffered(e) ==
  IF Len(recent) < BufferSize THEN Append(recent, e) ELSE Append(Tail(recent), e)

BufferEvent(n, here, next) ==
  /\ npc[n] = here
  /\ replayer = {}
  /\ recent' = Buffered(nev[n])
  /\ npc' = [npc EXCEPT ![n] = next]
  /\ UNCHANGED <<eventId, replayer, rejecter, clients, queue, nev, streamVars,
                 clientVars, latest>>

NotifyBuffer(n) == BufferEvent(n, "buffer", "broadcast")

Full(s) == Len(queue[s]) >= MaxQueue

(* put_nowait(e) on every queue of S.                                      *)
Put(S, e) ==
  /\ queue' = [s \in Stream |-> IF s \in S THEN Append(queue[s], e) ELSE queue[s]]
  /\ latest' = [s \in Stream |-> IF s \in S THEN [latest[s] EXCEPT ![e.type] = e.id]
                                 ELSE latest[s]]

(* Clients whose queue is full are dropped from the list.                  *)
NotifyBroadcast(n) ==
  LET stale == {s \in clients : Full(s)}
  IN /\ npc[n] = "broadcast"
     /\ rejecter = {}
     /\ Put(clients \ stale, nev[n])
     /\ clients' = clients \ stale
     /\ npc' = [npc EXCEPT ![n] = IF stale = {} THEN "idle" ELSE "syncId"]
     /\ UNCHANGED <<eventId, recent, replayer, rejecter, nev, streamVars, clientVars>>

(* The remaining clients are told to refetch; a full queue is skipped.     *)
SyncBegin(n) ==
  /\ npc[n] = "syncId"
  /\ IF eventId < MaxId
     THEN /\ NextEventId
          /\ nev' = [nev EXCEPT ![n] = Event(eventId + 1, "sync")]
          /\ npc' = [npc EXCEPT ![n] = "syncBuffer"]
     ELSE /\ npc' = [npc EXCEPT ![n] = "idle"]  \* the bound is reached
          /\ UNCHANGED <<eventId, nev>>
  /\ UNCHANGED <<recent, replayer, rejecter, clients, queue, streamVars, clientVars, latest>>

SyncBuffer(n) == BufferEvent(n, "syncBuffer", "syncBroadcast")

SyncBroadcast(n) ==
  /\ npc[n] = "syncBroadcast"
  /\ rejecter = {}
  /\ Put({s \in clients : ~Full(s)}, nev[n])
  /\ npc' = [npc EXCEPT ![n] = "idle"]
  /\ UNCHANGED <<eventId, recent, replayer, rejecter, clients, nev, streamVars, clientVars>>

NotifyWork(n) ==
  \/ NotifyBuffer(n) \/ NotifyBroadcast(n)
  \/ SyncBegin(n) \/ SyncBuffer(n) \/ SyncBroadcast(n)

-----------------------------------------------------------------------------
(* subscribe(last_event_id)                                                *)

Goto(s, step) == spc' = [spc EXCEPT ![s] = step]

(* The generator yields an event of id i that stands for those of ids I.   *)
Yield(s, i, I) ==
  IF s \in conn
  THEN /\ last' = [last EXCEPT ![owner[s]] = i]
       /\ seen' = [seen EXCEPT ![owner[s]] = @ \cup I]
  ELSE UNCHANGED <<last, seen>>

\* Mutant: the lock of an abandoned replay stays held.
ReleaseReplayNot(s) == replayer' = replayer

(* Leaving the "with _recent_lock" of the replay.                          *)
ReleaseReplay(s) == replayer' = replayer \ {s}

(* The write fails and GeneratorExit unwinds the generator, releasing the  *)
(* lock of a replay on the way to the finally clause.                      *)
Unwind(s) ==
  /\ s \notin conn
  /\ Goto(s, "close")
  /\ backlog' = [backlog EXCEPT ![s] = <<>>]
  /\ ReleaseReplay(s)
  /\ UNCHANGED <<recent, rejecter, clients, queue, notifyVars, owner, conn, from,
                 pending, standsFor, clientVars, latest>>

(* GET /api/events: a client without a connection opens one.               *)
Open(c, s) ==
  /\ spc[s] = "off"
  /\ c \notin {owner[r] : r \in conn}
  /\ Goto(s, "register")
  /\ owner' = [owner EXCEPT ![s] = c]
  /\ conn' = conn \cup {s}
  /\ from' = [from EXCEPT ![s] = last[c]]
  /\ UNCHANGED <<hubVars, notifyVars, backlog, pending, standsFor, clientVars, latest>>

(* The client goes away, with or without the server noticing.              *)
Drop(s) ==
  /\ s \in conn
  /\ conn' = conn \ {s}
  /\ UNCHANGED <<hubVars, notifyVars, spc, owner, from, backlog, pending, standsFor,
                 clientVars, latest>>

Register(s) ==
  /\ spc[s] = "register"
  /\ rejecter = {}
  /\ IF Cardinality(clients) >= MaxClients
     THEN /\ Goto(s, "reject")
          /\ rejecter' = {s}
          /\ UNCHANGED clients
     ELSE /\ Goto(s, "state")
          /\ clients' = clients \cup {s}
          /\ UNCHANGED rejecter
  /\ UNCHANGED <<eventId, recent, replayer, queue, notifyVars, owner, conn, from,
                 backlog, pending, standsFor, clientVars, latest>>

(* The stream s is over: its locals, its queue among them, are gone.       *)
Ended(s) ==
  /\ Goto(s, "off")
  /\ owner' = [owner EXCEPT ![s] = NoClient]
  /\ conn' = conn \ {s}
  /\ from' = [from EXCEPT ![s] = 0]
  /\ pending' = [pending EXCEPT ![s] = NoEvent]
  /\ standsFor' = [standsFor EXCEPT ![s] = {}]
  /\ queue' = [queue EXCEPT ![s] = <<>>]
  /\ latest' = [latest EXCEPT ![s] = [ty \in Types |-> 0]]
  /\ UNCHANGED <<eventId, recent, replayer, notifyVars, backlog, clientVars>>

(* "Too many connections", yielded inside the lock, and return.            *)
Reject(s) ==
  /\ spc[s] = "reject"
  /\ rejecter' = rejecter \ {s}
  /\ Ended(s)
  /\ UNCHANGED clients

(* client_count() waits for _clients_lock; then the first event, under a   *)
(* fresh id.                                                               *)
State(s) ==
  /\ spc[s] = "state"
  /\ rejecter = {}
  /\ NextEventId
  /\ \/ /\ Yield(s, eventId + 1, {eventId + 1})
        /\ Goto(s, IF from[s] = 0 THEN "live" ELSE "lock")
        /\ UNCHANGED <<recent, replayer, rejecter, clients, queue, notifyVars, owner,
                       conn, from, backlog, pending, standsFor, latest>>
     \/ Unwind(s)

(* The events of the buffer with a larger id than i, in its order, for     *)
(* which it is searched from its oldest entry on.                          *)
Larger(i) ==
  LET found[k \in 0..Len(recent)] ==
        IF k = 0 THEN <<>>
        ELSE IF recent[k].id > i THEN Append(found[k - 1], recent[k])
        ELSE found[k - 1]
  IN found[Len(recent)]

\* Mutant: the first event behind the id is left out.
AfterNext(i) == Larger(i + 1)

(* _replay_events_after: what the buffer holds behind an id.               *)
After(i) == Larger(i)

Lock(s) ==
  /\ spc[s] = "lock"
  /\ replayer = {}
  /\ replayer' = {s}
  /\ backlog' = [backlog EXCEPT ![s] = After(from[s])]
  /\ Goto(s, "replay")
  /\ UNCHANGED <<eventId, recent, rejecter, clients, queue, notifyVars, owner, conn,
                 from, pending, standsFor, clientVars, latest>>

Replay(s) ==
  /\ spc[s] = "replay"
  /\ backlog[s] # <<>>
  /\ \/ /\ Yield(s, Head(backlog[s]).id, {Head(backlog[s]).id})
        /\ backlog' = [backlog EXCEPT ![s] = Tail(@)]
        /\ UNCHANGED <<hubVars, notifyVars, spc, owner, conn, from, pending, standsFor, latest>>
     \/ Unwind(s) /\ UNCHANGED eventId

ReplayEnd(s) ==
  /\ spc[s] = "replay"
  /\ backlog[s] = <<>>
  /\ ReleaseReplay(s)
  /\ Goto(s, "live")
  /\ UNCHANGED <<eventId, recent, rejecter, clients, queue, notifyVars, owner, conn,
                 from, backlog, pending, standsFor, clientVars, latest>>

-----------------------------------------------------------------------------
(* The live loop of subscribe().                                           *)

(* q.get returns e within the window of a pending event of its type: e     *)
(* takes its place.                                                        *)
Coalesce(s) ==
  /\ spc[s] = "live"
  /\ queue[s] # <<>> /\ pending[s] # NoEvent
  /\ Head(queue[s]).type = pending[s].type
  /\ pending' = [pending EXCEPT ![s] = Head(queue[s])]
  /\ standsFor' = [standsFor EXCEPT ![s] = @ \cup {Head(queue[s]).id}]
  /\ queue' = [queue EXCEPT ![s] = Tail(@)]
  /\ UNCHANGED <<eventId, recent, replayer, rejecter, clients, notifyVars, spc, owner,
                 conn, from, backlog, clientVars, latest>>

\* Mutant: the pending event is overwritten, not flushed, by one of another type.
FlushNot(s) == UNCHANGED <<last, seen>>

(* yield of the pending event, if there is one.                            *)
Flush(s) ==
  IF pending[s] = NoEvent
  THEN UNCHANGED <<last, seen>>
  ELSE Yield(s, pending[s].id, standsFor[s])

(* The same without coalescing: the pending event is flushed first.        *)
Take(s) ==
  /\ spc[s] = "live"
  /\ queue[s] # <<>>
  /\ Flush(s)
  /\ pending' = [pending EXCEPT ![s] = Head(queue[s])]
  /\ standsFor' = [standsFor EXCEPT ![s] = {Head(queue[s]).id}]
  /\ queue' = [queue EXCEPT ![s] = Tail(@)]
  /\ UNCHANGED <<eventId, recent, replayer, rejecter, clients, notifyVars, spc, owner,
                 conn, from, backlog, latest>>

(* The write of the pending event fails.                                   *)
FlushFails(s) ==
  /\ spc[s] = "live"
  /\ pending[s] # NoEvent
  /\ Unwind(s)
  /\ UNCHANGED eventId

(* q.get times out: the queue was empty for the whole window.              *)
Timeout(s) ==
  /\ spc[s] = "live"
  /\ queue[s] = <<>>
  /\ Flush(s)
  /\ pending' = [pending EXCEPT ![s] = NoEvent]
  /\ standsFor' = [standsFor EXCEPT ![s] = {}]
  /\ Goto(s, "beat")
  /\ UNCHANGED <<hubVars, notifyVars, owner, conn, from, backlog, latest>>

(* After a timeout: a keepalive and a heartbeat with a fresh id, if due.   *)
(* Either write may fail, the first before the id is taken.                *)
Heartbeat(s) ==
  /\ spc[s] = "beat"
  /\ \/ /\ NextEventId
        /\ Yield(s, eventId + 1, {eventId + 1})
        /\ Goto(s, "live")
        /\ UNCHANGED <<recent, replayer, rejecter, clients, queue, notifyVars, owner,
                       conn, from, backlog, pending, standsFor, latest>>
     \/ Unwind(s) /\ (NextEventId \/ UNCHANGED eventId)

NoHeartbeat(s) ==
  /\ spc[s] = "beat"
  /\ Goto(s, "live")
  /\ UNCHANGED <<hubVars, notifyVars, owner, conn, from, backlog, pending, standsFor,
                 clientVars, latest>>

\* Mutant: the queue of a client that left stays registered.
UnregisterNot(s) == UNCHANGED clients

(* _clients.remove(q)                                                      *)
Unregister(s) == clients' = clients \ {s}

(* The finally clause.                                                     *)
Close(s) ==
  /\ spc[s] = "close"
  /\ rejecter = {}
  /\ Unregister(s)
  /\ Ended(s)
  /\ UNCHANGED rejecter

StreamWork(s) ==
  \/ Register(s) \/ Reject(s) \/ State(s) \/ Lock(s) \/ Replay(s) \/ ReplayEnd(s)
  \/ Coalesce(s) \/ Take(s) \/ FlushFails(s) \/ Timeout(s)
  \/ Heartbeat(s) \/ NoHeartbeat(s) \/ Close(s)

Next ==
  \/ \E n \in Notifier : NotifyWork(n) \/ \E ty \in EventType : NotifyBegin(n, ty)
  \/ \E s \in Stream : StreamWork(s) \/ Drop(s) \/ \E c \in Client : Open(c, s)

Spec == Init /\ [][Next]_vars

(* Threads that can go on do: a yield ends because the text fits into the  *)
(* socket's buffer or the write fails.  A notify call waiting for a lock   *)
(* that is free again and again gets it in the end: rejected clients come  *)
(* back for ever, and each visit takes _clients_lock.  Nothing makes a     *)
(* handler call notify, and nothing makes a client connect or drop.        *)
FairSpec ==
  /\ Spec
  /\ \A n \in Notifier : SF_vars(NotifyWork(n))
  /\ \A s \in Stream : WF_vars(StreamWork(s))

-----------------------------------------------------------------------------
Ids(sq) == {e.id : e \in ToSet(sq)}

(* The event of this id, or one it was coalesced into, has reached the     *)
(* client of s or is on its way to it.                                     *)
Covered(s, i) ==
  i \in seen[owner[s]] \cup standsFor[s] \cup Ids(queue[s]) \cup Ids(backlog[s])

(* The notify call of this event has not reached the clients yet.          *)
InFlight(e) == \E n \in Notifier : npc[n] # "idle" /\ nev[n] = e

TypeOK ==
  /\ eventId \in 0..MaxId
  /\ recent \in Seq(Events) /\ Len(recent) <= BufferSize
  /\ replayer \subseteq Stream /\ rejecter \subseteq Stream /\ clients \subseteq Stream
  /\ queue \in [Stream -> Seq(Events)]
  /\ \A s \in Stream : Len(queue[s]) <= MaxQueue
  /\ npc \in [Notifier -> NotifySteps]
  /\ nev \in [Notifier -> Events \cup {NoEvent}]
  /\ spc \in [Stream -> StreamSteps]
  /\ owner \in [Stream -> Client \cup {NoClient}]
  /\ conn \subseteq Stream
  /\ from \in [Stream -> 0..MaxId]
  /\ backlog \in [Stream -> Seq(Events)]
  /\ pending \in [Stream -> Events \cup {NoEvent}]
  /\ last \in [Client -> 0..MaxId]
  /\ seen \in [Client -> SUBSET (1..MaxId)]
  /\ standsFor \in [Stream -> SUBSET (1..MaxId)]
  /\ latest \in [Stream -> [Types -> 0..MaxId]]

(* The two sections that stay open across a yield exclude each other, and  *)
(* a lock is held exactly while its generator stands in its section, not   *)
(* after the client dropped (_replay_events_after, subscribe).             *)
LocksHeld ==
  /\ replayer = {s \in Stream : spc[s] = "replay"} /\ Cardinality(replayer) <= 1
  /\ rejecter = {s \in Stream : spc[s] = "reject"} /\ Cardinality(rejecter) <= 1

(* At most _MAX_CLIENTS streams are registered, and every one of them is   *)
(* served by a generator that will remove it: no queue is left behind.     *)
NoGhostClient ==
  /\ Cardinality(clients) <= MaxClients
  /\ \A s \in clients : spc[s] \in Live \cup {"state", "lock", "replay", "close"}

(* Coalescing loses no news: of each type, the last event put on a         *)
(* connected client's queue is read by it or still on its way.             *)
LatestKept ==
  \A s \in conn, ty \in Types :
    latest[s][ty] # 0 =>
      \/ latest[s][ty] \in seen[owner[s]] \cup Ids(queue[s])
      \/ pending[s] # NoEvent /\ pending[s].id = latest[s][ty]

(* Registering before replaying leaves no hole between the two: a client   *)
(* that resumed behind an id gets every buffered event of a larger id,     *)
(* from the replay or from its queue.  (A sync is not queued on a full     *)
(* queue.)                                                                 *)
Resumed == {s \in clients \cap conn : spc[s] \in Live /\ from[s] # 0}
ResumeIsComplete ==
  \A s \in Resumed, e \in ToSet(recent) :
    e.id > from[s] /\ e.type # "sync" /\ ~InFlight(e) => Covered(s, e.id)

(* No handler hangs in notify: neither lock held across a yield, nor the   *)
(* two together, block it for ever.                                        *)
NotifyReturns == \A n \in Notifier : npc[n] # "idle" ~> npc[n] = "idle"
=============================================================================
