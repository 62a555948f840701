---------------------------- MODULE SSEHub_proofs ---------------------------
(***************************************************************************)
(* The locks that streams hold across a yield, the clients that are        *)
(* registered and what reaches them, for any threads, streams, clients and *)
(* bounds.                                                                 *)
(***************************************************************************)
EXTENDS SSEHub, FiniteSetTheorems, WellFoundedInduction, TLAPS

(* Each lock is held by the stream that stands in its section, of which    *)
(* there is one at most.                                                   *)
Locks ==
  /\ replayer = {s \in Stream : spc[s] = "replay"}
  /\ \A r, q \in replayer : r = q
  /\ rejecter = {s \in Stream : spc[s] = "reject"}
  /\ \A r, q \in rejecter : r = q

(* A registered stream is past its registration and will unregister.       *)
Serving == Live \cup {"state", "lock", "replay", "close"}
Served ==
  /\ clients \subseteq Stream
  /\ \A s \in clients : spc[s] \in Serving
  /\ IsFiniteSet(clients) /\ Cardinality(clients) <= MaxClients

(* The two need nothing of what the queues and the buffer contain.         *)
IInv == spc \in [Stream -> StreamSteps] /\ Locks /\ Served

-----------------------------------------------------------------------------
(* At the beginning no stream is open.                                     *)
LEMMA Start == Init => IInv
<1> SUFFICES ASSUME Init PROVE IInv
  OBVIOUS
<1>1. spc \in [Stream -> StreamSteps] /\ Locks
  BY DEF Init, Locks, StreamSteps
<1>2. Served
  BY FS_EmptySet, HubAssumption DEF Init, Served
<1> QED
  BY <1>1, <1>2 DEF IInv

(* The steps of notify() leave streams and locks alone and only evict      *)
(* clients.                                                                *)
LEMMA NotifyKeeps ==
  ASSUME NEW n \in Notifier,
         NotifyWork(n) \/ \E ty \in EventType : NotifyBegin(n, ty)
  PROVE  spc' = spc /\ replayer' = replayer /\ rejecter' = rejecter
           /\ clients' \subseteq clients
BY DEF NotifyWork, NotifyBegin, NotifyBuffer, NotifyBroadcast, SyncBegin, SyncBuffer,
   SyncBroadcast, BufferEvent, hubVars, streamVars

(* A step of a stream leaves the place of every other stream alone.        *)
LEMMA OthersStay ==
  ASSUME spc \in [Stream -> StreamSteps], NEW s \in Stream, StreamWork(s)
  PROVE  /\ spc' \in [Stream -> StreamSteps]
         /\ \A r \in Stream \ {s} : spc'[r] = spc[r]
<1>1. ASSUME NEW step \in StreamSteps, Goto(s, step)
      PROVE  /\ spc' \in [Stream -> StreamSteps]
             /\ \A r \in Stream \ {s} : spc'[r] = spc[r]
  BY <1>1 DEF Goto
<1>2. Ended(s) => Goto(s, "off")
  BY DEF Ended
<1>3. Unwind(s) => Goto(s, "close")
  BY DEF Unwind
<1>4. \/ spc' = spc
      \/ \E step \in StreamSteps : Goto(s, step)
  <2>1. CASE Register(s) \/ Lock(s) \/ ReplayEnd(s) \/ Timeout(s) \/ NoHeartbeat(s)
    BY <2>1 DEF Register, Lock, ReplayEnd, Timeout, NoHeartbeat, StreamSteps
  <2>2. CASE Reject(s) \/ Close(s)
    BY <2>2, <1>2 DEF Reject, Close, StreamSteps
  <2>3. CASE State(s) \/ Heartbeat(s) \/ FlushFails(s)
    BY <2>3, <1>3 DEF State, Heartbeat, FlushFails, StreamSteps
  <2>4. CASE Replay(s)
    BY <2>4, <1>3 DEF Replay, StreamSteps
  <2>5. CASE Coalesce(s) \/ Take(s)
    BY <2>5 DEF Coalesce, Take
  <2> QED
    BY <2>1, <2>2, <2>3, <2>4, <2>5 DEF StreamWork
<1> QED
  BY <1>1, <1>4

(* A part of the registered clients is finite and within the limit.        *)
LEMMA FewerFit ==
  ASSUME Served, NEW fewer, fewer \subseteq clients
  PROVE  IsFiniteSet(fewer) /\ Cardinality(fewer) <= MaxClients
<1>1. IsFiniteSet(clients) /\ Cardinality(clients) <= MaxClients
  BY DEF Served
<1>2. IsFiniteSet(fewer) /\ Cardinality(fewer) <= Cardinality(clients)
  BY <1>1, FS_Subset
<1>3. Cardinality(fewer) \in Nat /\ Cardinality(clients) \in Nat
  BY <1>1, <1>2, FS_CardinalityType
<1> QED
  BY <1>1, <1>2, <1>3, HubAssumption

(* Entering a section takes its lock and leaving it gives it back, however *)
(* the generator leaves.                                                   *)
LEMMA LocksNext ==
  ASSUME spc \in [Stream -> StreamSteps], Locks, NEW s \in Stream, StreamWork(s)
  PROVE  Locks'
<1> USE DEF Locks, Goto, StreamSteps
<1>1. CASE Register(s)
  BY <1>1 DEF Register
<1>2. CASE Reject(s)
  BY <1>2 DEF Reject, Ended
<1>3. CASE Unwind(s) /\ spc[s] \in {"state", "replay", "live", "beat"}
  BY <1>3 DEF Unwind, ReleaseReplay
<1>4. CASE State(s) /\ ~Unwind(s)
  BY <1>4 DEF State
<1>5. CASE Lock(s)
  BY <1>5 DEF Lock
<1>6. CASE Replay(s) /\ ~Unwind(s)
  BY <1>6 DEF Replay, hubVars
<1>7. CASE ReplayEnd(s)
  BY <1>7 DEF ReplayEnd, ReleaseReplay
<1>8. CASE Coalesce(s) \/ Take(s)
  BY <1>8 DEF Coalesce, Take
<1>9. CASE Timeout(s) \/ NoHeartbeat(s)
  BY <1>9 DEF Timeout, NoHeartbeat, hubVars
<1>10. CASE Heartbeat(s) /\ ~Unwind(s)
  BY <1>10 DEF Heartbeat
<1>11. CASE Close(s)
  BY <1>11 DEF Close, Ended
<1> QED
  BY <1>1, <1>2, <1>3, <1>4, <1>5, <1>6, <1>7, <1>8, <1>9, <1>10, <1>11
  DEF StreamWork, State, Replay, Heartbeat, FlushFails

(* A stream registers only while there is room, and unregisters before it  *)
(* is over.                                                                *)
LEMMA ServedNext ==
  ASSUME spc \in [Stream -> StreamSteps], Served, NEW s \in Stream, StreamWork(s)
  PROVE  Served'
<1> USE DEF Goto, StreamSteps, Serving, Live
<1>1. CASE Register(s)
  <2>1. CASE Cardinality(clients) >= MaxClients
    BY <1>1, <2>1 DEF Register, Served
  <2>2. CASE ~(Cardinality(clients) >= MaxClients)
    <3>1. clients' = clients \cup {s} /\ spc' = [spc EXCEPT ![s] = "state"]
      BY <1>1, <2>2 DEF Register
    <3>2. /\ IsFiniteSet(clients \cup {s})
          /\ Cardinality(clients \cup {s}) <= Cardinality(clients) + 1
          /\ Cardinality(clients) \in Nat
      <4>1. IsFiniteSet(clients)
        BY DEF Served
      <4>2. Cardinality(clients) \in Nat
        BY <4>1, FS_CardinalityType
      <4> QED
        BY <4>1, <4>2, FS_AddElement
    <3>3. IsFiniteSet(clients') /\ Cardinality(clients') <= MaxClients
      BY <3>1, <3>2, <2>2, FS_CardinalityType, HubAssumption
    <3> QED
      BY <3>1, <3>3 DEF Served
  <2> QED
    BY <2>1, <2>2
<1>2. CASE Close(s)
  <2>1. clients' = clients \ {s} /\ spc' = [spc EXCEPT ![s] = "off"]
    BY <1>2 DEF Close, Unregister, Ended
  <2>2. IsFiniteSet(clients') /\ Cardinality(clients') <= MaxClients
    BY <2>1, FewerFit, clients \ {s} \subseteq clients
  <2> QED
    BY <2>1, <2>2 DEF Served
<1>3. CASE Reject(s)
  BY <1>3 DEF Reject, Ended, Served
<1>4. CASE Unwind(s)
  BY <1>4 DEF Unwind, Served
<1>5. CASE ~Unwind(s) /\ (State(s) \/ Replay(s) \/ Heartbeat(s))
  BY <1>5 DEF State, Replay, Heartbeat, hubVars, Served
<1>6. CASE Lock(s) \/ ReplayEnd(s)
  BY <1>6 DEF Lock, ReplayEnd, Served
<1>7. CASE Coalesce(s) \/ Take(s) \/ Timeout(s) \/ NoHeartbeat(s)
  BY <1>7 DEF Coalesce, Take, Timeout, NoHeartbeat, hubVars, Served
<1> QED
  BY <1>1, <1>2, <1>3, <1>4, <1>5, <1>6, <1>7 DEF StreamWork, FlushFails

-----------------------------------------------------------------------------
(* Connections come and go without touching locks or registrations.        *)
LEMMA ConnectionsKeep ==
  ASSUME IInv, NEW s \in Stream, Drop(s) \/ \E c \in Client : Open(c, s)
  PROVE  IInv'
BY DEF IInv, Locks, Served, Drop, Open, Goto, hubVars, StreamSteps, Serving, Live

(* An eviction only shrinks the registered clients.                        *)
LEMMA EvictionKeeps ==
  ASSUME IInv, spc' = spc, replayer' = replayer, rejecter' = rejecter,
         clients' \subseteq clients
  PROVE  IInv'
<1>1. IsFiniteSet(clients') /\ Cardinality(clients') <= MaxClients
  BY FewerFit DEF IInv
<1> QED
  BY <1>1 DEF IInv, Locks, Served

(* The inductive invariant holds in every reachable state.                 *)
THEOREM Invariance == Spec => []IInv
<1>1. IInv /\ [Next]_vars => IInv'
  <2> SUFFICES ASSUME IInv, [Next]_vars PROVE IInv'
    OBVIOUS
  <2>1. ASSUME NEW n \in Notifier,
               NotifyWork(n) \/ \E ty \in EventType : NotifyBegin(n, ty)
        PROVE  IInv'
    BY <2>1, NotifyKeeps, EvictionKeeps
  <2>2. ASSUME NEW s \in Stream, StreamWork(s) PROVE IInv'
    BY <2>2, OthersStay, LocksNext, ServedNext DEF IInv
  <2>3. ASSUME NEW s \in Stream, Drop(s) \/ \E c \in Client : Open(c, s)
        PROVE  IInv'
    BY <2>3, ConnectionsKeep
  <2>4. CASE UNCHANGED vars
    BY <2>4, EvictionKeeps DEF vars, hubVars, streamVars
  <2> QED
    BY <2>1, <2>2, <2>3, <2>4 DEF Next
<1> QED
  BY Start, <1>1, PTL DEF Spec

(* A lock is held exactly by the stream in its section, whatever became of *)
(* the client.                                                             *)
THEOREM LocksAgree == Spec => []LocksHeld
<1>1. IInv => LocksHeld
  <2> SUFFICES ASSUME IInv PROVE LocksHeld
    OBVIOUS
  <2>1. ASSUME NEW S, \A r, q \in S : r = q PROVE Cardinality(S) <= 1
    <3>1. CASE S = {}
      BY <3>1, FS_EmptySet
    <3>2. CASE S # {}
      <4>1. PICK r \in S : S = {r}
        BY <2>1, <3>2
      <4>2. Cardinality({r}) = 1
        BY FS_Singleton
      <4>3. Cardinality(S) = 1
        BY <4>1, <4>2
      <4> QED
        BY <4>3
    <3> QED
      BY <3>1, <3>2
  <2> QED
    BY <2>1 DEF IInv, Locks, LocksHeld
<1> QED
  BY <1>1, Invariance, PTL

(* No queue is left behind, and the registered clients keep to the limit.  *)
THEOREM ClientsServed == Spec => []NoGhostClient
<1>1. IInv => NoGhostClient
  BY DEF IInv, Served, Serving, NoGhostClient
<1> QED
  BY <1>1, Invariance, PTL

-----------------------------------------------------------------------------
(* The broadcast of e still lies ahead.                                    *)
Waiting(e) ==
  \E n \in Notifier : npc[n] \in {"buffer", "broadcast"} /\ nev[n] = e

(* A notify call has its event until it returns.                           *)
Notifies ==
  \A n \in Notifier :
    /\ npc[n] # "idle" => nev[n] \in Events
    /\ npc[n] \in {"syncBuffer", "syncBroadcast"} => nev[n].type = "sync"

(* A connection has a client and a generator, nothing has been put on a    *)
(* stream that is off, and a pending event stands at least for itself.     *)
Streams ==
  \A s \in Stream :
    /\ s \in conn => owner[s] \in Client /\ spc[s] # "off"
    /\ spc[s] = "off" => latest[s] = [ty \in Types |-> 0]
    /\ pending[s] = NoEvent => standsFor[s] = {}
    /\ pending[s] # NoEvent => pending[s].id \in standsFor[s]

(* The last event of a type is at the end of its kind in the queue until   *)
(* it is pending, and pending until the client has read it.                *)
NoneQueued(s, ty) == \A j \in DOMAIN queue[s] : queue[s][j].type # ty
LastQueued(s, ty) ==
  \E k \in DOMAIN queue[s] :
    /\ queue[s][k] = Event(latest[s][ty], ty)
    /\ \A j \in DOMAIN queue[s] : j > k => queue[s][j].type # ty
NewsOf(s) ==
  \A ty \in Types :
    latest[s][ty] # 0 =>
      \/ latest[s][ty] \in seen[owner[s]]
      \/ LastQueued(s, ty)
      \/ NoneQueued(s, ty) /\ pending[s] = Event(latest[s][ty], ty)
News == \A s \in conn : NewsOf(s)

(* A client that resumes has everything behind its id, once it is          *)
(* broadcast, from the moment its replay is prepared.                      *)
Resuming == {s \in clients \cap conn : spc[s] \in Live \cup {"replay"} /\ from[s] # 0}
Gapless ==
  \A s \in Resuming, e \in ToSet(recent) :
    e.id > from[s] /\ e.type # "sync" /\ ~Waiting(e) => Covered(s, e.id)

Delivery == TypeOK /\ Notifies /\ Streams /\ News /\ Gapless

-----------------------------------------------------------------------------
(* From 0 to n, step by step.                                              *)
LEMMA Ascent ==
  ASSUME NEW n \in Nat, NEW T, 0 \in T, \A k \in 1..n : k - 1 \in T => k \in T
  PROVE  \A k \in 0..n : k \in T
<1> DEFINE Less == OpToRel(<, Nat)
           Missing == {k \in 0..n : k \notin T}
<1>1. \A x, y : <<x, y>> \in Less <=> x \in Nat /\ y \in Nat /\ x < y
  BY DEF OpToRel
<1>2. IsWellFoundedOn(Less, Nat)
  BY NatLessThanWellFounded
<1> HIDE DEF Less
<1>3. SUFFICES ASSUME NEW m \in 0..n, m \notin T PROVE FALSE
  OBVIOUS
<1>4. PICK k \in Missing : \A x \in Missing : <<x, k>> \notin Less
  <2>1. Missing \subseteq Nat /\ Missing # {}
    BY <1>3
  <2> HIDE DEF Missing
  <2> QED
    BY <1>2, <2>1, WFMin
<1>5. k \in 1..n /\ k - 1 \in 0..n /\ k - 1 < k
  BY <1>4
<1>6. <<k - 1, k>> \in Less
  BY <1>1, <1>5
<1>7. k - 1 \in T
  BY <1>4, <1>5, <1>6
<1> QED
  BY <1>4, <1>5, <1>7

(* Appending to a sequence adds one element to it.                         *)
LEMMA Appended ==
  ASSUME NEW S, NEW sq \in Seq(S), NEW e \in S
  PROVE  /\ Append(sq, e) \in Seq(S)
         /\ ToSet(Append(sq, e)) = ToSet(sq) \cup {e}
<1> DEFINE longer == Append(sq, e)
<1>1. /\ longer \in Seq(S) /\ Len(longer) = Len(sq) + 1 /\ longer[Len(sq) + 1] = e
      /\ \A k \in 1..Len(sq) : longer[k] = sq[k]
  OBVIOUS
<1>2. ASSUME NEW q \in Seq(S) PROVE ToSet(q) = {q[k] : k \in 1..Len(q)}
  BY DEF ToSet
<1> HIDE DEF longer
<1>3. 1..Len(longer) = 1..Len(sq) \cup {Len(sq) + 1}
  BY <1>1, Len(sq) \in Nat
<1>4. ToSet(longer) = {longer[k] : k \in 1..Len(sq)} \cup {longer[Len(sq) + 1]}
  BY <1>1, <1>2, <1>3
<1>5. {longer[k] : k \in 1..Len(sq)} = {sq[k] : k \in 1..Len(sq)}
  BY <1>1
<1> QED
  BY <1>1, <1>2, <1>4, <1>5 DEF longer

(* Taking the head of a sequence leaves the rest of its elements.          *)
LEMMA Beheaded ==
  ASSUME NEW S, NEW sq \in Seq(S), sq # <<>>
  PROVE  /\ Head(sq) \in S /\ Tail(sq) \in Seq(S)
         /\ Len(sq) > 0 /\ Len(Tail(sq)) = Len(sq) - 1
         /\ \A k \in 1..Len(Tail(sq)) : Tail(sq)[k] = sq[k + 1]
         /\ ToSet(sq) = ToSet(Tail(sq)) \cup {Head(sq)}
<1>1. /\ Head(sq) \in S /\ Tail(sq) \in Seq(S)
      /\ Len(sq) > 0 /\ Len(Tail(sq)) = Len(sq) - 1 /\ Head(sq) = sq[1]
      /\ \A k \in 1..Len(Tail(sq)) : Tail(sq)[k] = sq[k + 1]
  OBVIOUS
<1>2. ASSUME NEW x \in ToSet(sq) PROVE x \in ToSet(Tail(sq)) \cup {Head(sq)}
  <2>1. PICK k \in 1..Len(sq) : x = sq[k]
    BY DEF ToSet
  <2>2. CASE k = 1
    BY <1>1, <2>1, <2>2
  <2>3. CASE k # 1
    <3>1. k - 1 \in 1..Len(Tail(sq)) /\ Tail(sq)[k - 1] = sq[k]
      BY <1>1, <2>1, <2>3
    <3>2. DOMAIN Tail(sq) = 1..Len(Tail(sq))
      BY <1>1
    <3> QED
      BY <2>1, <3>1, <3>2 DEF ToSet
  <2> QED
    BY <2>2, <2>3
<1>3. ToSet(Tail(sq)) \cup {Head(sq)} \subseteq ToSet(sq)
  BY <1>1 DEF ToSet
<1> QED
  BY <1>1, <1>2, <1>3

(* The ids follow the elements.                                            *)
LEMMA IdsAppended ==
  ASSUME NEW sq \in Seq(Events), NEW e \in Events
  PROVE  Ids(Append(sq, e)) = Ids(sq) \cup {e.id}
BY Appended DEF Ids
(* So they do when the head is taken.                                      *)
LEMMA IdsBeheaded ==
  ASSUME NEW sq \in Seq(Events), sq # <<>>
  PROVE  Ids(sq) = Ids(Tail(sq)) \cup {Head(sq).id}
BY Beheaded DEF Ids

(* An event is what its fields say, and none is NoEvent.                   *)
LEMMA EventFields ==
  /\ NoEvent \notin Events
  /\ \A e \in Events : e.id \in 1..MaxId /\ e.type \in Types /\ e = Event(e.id, e.type)
  /\ \A i \in 1..MaxId, ty \in Types :
       Event(i, ty) \in Events /\ Event(i, ty).id = i /\ Event(i, ty).type = ty
BY HubAssumption DEF Events, Event, Types

(* The buffer takes the event, within its size.                            *)
LEMMA BufferedFits ==
  ASSUME recent \in Seq(Events), Len(recent) <= BufferSize, NEW e \in Events
  PROVE  /\ Buffered(e) \in Seq(Events) /\ Len(Buffered(e)) <= BufferSize
         /\ ToSet(Buffered(e)) \subseteq ToSet(recent) \cup {e}
<1>1. CASE Len(recent) < BufferSize
  BY <1>1, Appended, HubAssumption DEF Buffered
<1>2. CASE ~(Len(recent) < BufferSize)
  <2>1. recent # <<>>
    BY <1>2, HubAssumption
  <2>2. /\ Tail(recent) \in Seq(Events) /\ Len(Tail(recent)) = Len(recent) - 1
        /\ ToSet(Tail(recent)) \subseteq ToSet(recent)
    BY <2>1, Beheaded
  <2>3. /\ Append(Tail(recent), e) \in Seq(Events)
        /\ ToSet(Append(Tail(recent), e)) = ToSet(Tail(recent)) \cup {e}
    <3> DEFINE rest == Tail(recent)
    <3>1. rest \in Seq(Events)
      BY <2>2
    <3> HIDE DEF rest
    <3>2. Append(rest, e) \in Seq(Events) /\ ToSet(Append(rest, e)) = ToSet(rest) \cup {e}
      BY <3>1, Appended
    <3> QED
      BY <3>2 DEF rest
  <2>4. Len(Append(Tail(recent), e)) = Len(recent)
    BY <2>2
  <2> QED
    BY <1>2, <2>2, <2>3, <2>4 DEF Buffered
<1> QED
  BY <1>1, <1>2

(* The replay of a client that has seen up to i yields every event of the  *)
(* buffer with a larger id.                                                *)
LEMMA ReplayFinds ==
  ASSUME recent \in Seq(Events), NEW i \in Nat
  PROVE  /\ After(i) \in Seq(Events)
         /\ \A e \in ToSet(recent) : e.id > i => e.id \in Ids(After(i))
<1> DEFINE Step(f, k) ==
             IF k = 0 THEN <<>>
             ELSE IF recent[k].id > i THEN Append(f[k - 1], recent[k])
             ELSE f[k - 1]
           Found(f, m) == f = [k \in 0..m |-> Step(f, k)]
           F == CHOOSE f : Found(f, Len(recent))
<1>0. Len(recent) \in Nat /\ \A k \in 1..Len(recent) : recent[k] \in Events
  OBVIOUS
<1>1. \E f : Found(f, Len(recent))
  <2> DEFINE T == {m \in Nat : \E f : Found(f, m)}
  <2>1. 0 \in T
    <3>1. Found([k \in 0..0 |-> <<>>], 0)
      OBVIOUS
    <3> QED
      BY <3>1
  <2>2. ASSUME NEW m \in 1..Len(recent), m - 1 \in T PROVE m \in T
    <3>1. PICK f : Found(f, m - 1)
      BY <2>2
    <3> DEFINE g == [k \in 0..m |-> IF k = m THEN Step(f, m) ELSE f[k]]
    <3>2. ASSUME NEW k \in 0..m PROVE g[k] = Step(g, k)
      <4>1. CASE k = 0
        BY <3>1, <4>1
      <4>2. CASE k \in 1..(m - 1)
        <5>1. g[k] = f[k] /\ g[k - 1] = f[k - 1] /\ f[k] = Step(f, k)
          <6>1. k \in 0..(m - 1) /\ k - 1 \in 0..(m - 1) /\ k - 1 \in 0..m /\ k # m /\ k - 1 # m
            BY <4>2
          <6>2. f[k] = Step(f, k)
            BY <3>1, <6>1
          <6> QED
            BY <6>1, <6>2
        <5> HIDE DEF g
        <5> QED
          BY <5>1
      <4>3. CASE k = m
        <5>1. g[m] = Step(f, m) /\ g[m - 1] = f[m - 1]
          OBVIOUS
        <5> HIDE DEF g
        <5> QED
          BY <5>1, <4>3
      <4> QED
        BY <4>1, <4>2, <4>3
    <3>3. Found(g, m) /\ m \in Nat
      <4>1. g = [k \in 0..m |-> g[k]]
        OBVIOUS
      <4> HIDE DEF g, Step
      <4>2. [k \in 0..m |-> g[k]] = [k \in 0..m |-> Step(g, k)]
        BY <3>2
      <4> QED
        BY <4>1, <4>2
    <3> QED
      BY <3>3
  <2>3. Len(recent) \in T
    <3> HIDE DEF T
    <3>1. \A m \in 0..Len(recent) : m \in T
      BY <2>1, <2>2, <1>0, Ascent
    <3> QED
      BY <3>1, <1>0
  <2> QED
    BY <2>3
<1>2. Found(F, Len(recent))
  <2> HIDE DEF Found
  <2> QED
    BY <1>1
<1>3. After(i) = F[Len(recent)]
  BY DEF After, Larger
<1> HIDE DEF F
<1> DEFINE T == {m \in Nat : /\ F[m] \in Seq(Events)
                             /\ \A k \in 1..m : recent[k].id > i =>
                                  recent[k].id \in Ids(F[m])}
<1>4. 0 \in T
  BY <1>2
<1>5. ASSUME NEW m \in 1..Len(recent), m - 1 \in T PROVE m \in T
  <2>1. F[m] = IF recent[m].id > i THEN Append(F[m - 1], recent[m]) ELSE F[m - 1]
    <3>1. m \in 0..Len(recent) /\ m # 0
      BY <1>0
    <3>2. F[m] = Step(F, m)
      BY <1>2, <3>1
    <3> QED
      BY <3>1, <3>2
  <2>2. recent[m] \in Events /\ F[m - 1] \in Seq(Events)
    BY <1>5
  <2>3. Ids(Append(F[m - 1], recent[m])) = Ids(F[m - 1]) \cup {recent[m].id}
    BY <2>2, IdsAppended
  <2>4. F[m] \in Seq(Events)
    BY <2>1, <2>2
  <2>5. ASSUME NEW k \in 1..m, recent[k].id > i PROVE recent[k].id \in Ids(F[m])
    <3>1. CASE k = m
      BY <2>1, <2>3, <2>5, <3>1
    <3>2. CASE k \in 1..(m - 1)
      BY <1>5, <2>1, <2>3, <2>5, <3>2
    <3> QED
      BY <3>1, <3>2
  <2> QED
    BY <2>4, <2>5
<1>6. Len(recent) \in T
  <2> HIDE DEF T
  <2>1. \A m \in 0..Len(recent) : m \in T
    BY <1>4, <1>5, <1>0, Ascent
  <2> QED
    BY <2>1, <1>0
<1>7. ASSUME NEW e \in ToSet(recent), e.id > i PROVE e.id \in Ids(After(i))
  <2>1. PICK k \in 1..Len(recent) : e = recent[k]
    BY DEF ToSet
  <2> QED
    BY <1>3, <1>6, <1>7, <2>1
<1> QED
  BY <1>3, <1>6, <1>7

-----------------------------------------------------------------------------
(* What a client has read stays read, and a yield reaches a client that is *)
(* connected.                                                              *)
LEMMA YieldReads ==
  ASSUME TypeOK, Streams, NEW s \in Stream, NEW i \in 1..MaxId, NEW I \in SUBSET (1..MaxId),
         Yield(s, i, I)
  PROVE  /\ last' \in [Client -> 0..MaxId]
         /\ seen' \in [Client -> SUBSET (1..MaxId)]
         /\ \A c \in Client : seen[c] \subseteq seen'[c]
         /\ s \in conn => I \subseteq seen'[owner[s]]
<1>1. CASE s \in conn
  <2>1. owner[s] \in Client
    BY <1>1 DEF Streams
  <2>2. last' = [last EXCEPT ![owner[s]] = i] /\ seen' = [seen EXCEPT ![owner[s]] = @ \cup I]
    BY <1>1 DEF Yield
  <2>3. i \in 0..MaxId
    BY HubAssumption
  <2> QED
    BY <2>1, <2>2, <2>3 DEF TypeOK
<1>2. CASE s \notin conn
  BY <1>2 DEF TypeOK, Yield
<1> QED
  BY <1>1, <1>2

(* The flush yields the pending event, for all it stands for.              *)
LEMMA FlushReads ==
  ASSUME TypeOK, Streams, NEW s \in Stream, Flush(s)
  PROVE  /\ last' \in [Client -> 0..MaxId]
         /\ seen' \in [Client -> SUBSET (1..MaxId)]
         /\ \A c \in Client : seen[c] \subseteq seen'[c]
         /\ s \in conn => standsFor[s] \subseteq seen'[owner[s]]
<1>1. CASE pending[s] = NoEvent
  BY <1>1 DEF TypeOK, Streams, Flush
<1>2. CASE pending[s] # NoEvent
  <2>1. /\ pending[s].id \in 1..MaxId /\ standsFor[s] \in SUBSET (1..MaxId)
        /\ Yield(s, pending[s].id, standsFor[s])
    BY <1>2, EventFields DEF TypeOK, Flush
  <2> QED
    BY <2>1, YieldReads
<1> QED
  BY <1>1, <1>2

(* A fresh id is within the bound.                                         *)
LEMMA FreshId ==
  ASSUME TypeOK, NextEventId
  PROVE  /\ eventId' \in 0..MaxId /\ eventId + 1 \in 1..MaxId
         /\ \A ty \in Types : Event(eventId + 1, ty) \in Events
BY HubAssumption, EventFields DEF TypeOK, NextEventId

(* put_nowait on queues that are not full.                                 *)
LEMMA PutFits ==
  ASSUME TypeOK, NEW S \in SUBSET Stream, \A s \in S : ~Full(s), NEW e \in Events, Put(S, e)
  PROVE  /\ queue' \in [Stream -> Seq(Events)]
         /\ \A s \in Stream : Len(queue'[s]) <= MaxQueue
         /\ latest' \in [Stream -> [Types -> 0..MaxId]]
<1>1. queue' \in [Stream -> Seq(Events)]
  BY DEF TypeOK, Put
<1>2. ASSUME NEW s \in Stream PROVE Len(queue'[s]) <= MaxQueue
  <2>1. queue[s] \in Seq(Events) /\ Len(queue[s]) <= MaxQueue /\ Len(queue[s]) \in Nat
    BY DEF TypeOK
  <2>2. CASE s \in S
    <3>1. queue'[s] = Append(queue[s], e) /\ Len(queue[s]) < MaxQueue
      BY <2>1, <2>2, HubAssumption DEF Put, Full
    <3> QED
      BY <2>1, <3>1, HubAssumption
  <2>3. CASE s \notin S
    BY <2>1, <2>3 DEF Put
  <2> QED
    BY <2>2, <2>3
<1>3. e.id \in 0..MaxId /\ e.type \in Types
  BY EventFields
<1>4. latest' \in [Stream -> [Types -> 0..MaxId]]
  BY <1>3 DEF TypeOK, Put
<1> QED
  BY <1>1, <1>2, <1>4

(* What is needed of the state before a step is looked at by itself.       *)
Base == TypeOK /\ Notifies /\ Streams

(* notify() hands on one event after another, and keeps the types.         *)
LEMMA NotifyBase ==
  ASSUME IInv, Base, NEW n \in Notifier,
         NotifyWork(n) \/ \E ty \in EventType : NotifyBegin(n, ty)
  PROVE  Base'
<1> USE DEF NotifySteps
<1>1. ASSUME NEW ty \in EventType, NotifyBegin(n, ty) PROVE Base'
  <2>1. ty \in Types
    BY <1>1 DEF Types
  <2>2. /\ eventId' \in 0..MaxId
        /\ Event(eventId + 1, ty) \in Events
    BY <1>1, <2>1, FreshId DEF NotifyBegin, Base
  <2>3. nev' = [nev EXCEPT ![n] = Event(eventId + 1, ty)] /\ npc' = [npc EXCEPT ![n] = "buffer"]
    BY <1>1 DEF NotifyBegin
  <2>4. UNCHANGED <<recent, replayer, rejecter, clients, queue, streamVars, clientVars, latest>>
    BY <1>1 DEF NotifyBegin
  <2> HIDE DEF NotifySteps
  <2>5. TypeOK'
    BY <2>2, <2>3, <2>4 DEF Base, TypeOK, streamVars, clientVars, NotifySteps
  <2>6. Notifies' /\ Streams'
    BY <2>2, <2>3, <2>4 DEF Base, TypeOK, Notifies, Streams, streamVars, clientVars
  <2> QED
    BY <2>5, <2>6 DEF Base
<1>2. ASSUME NEW here \in {"buffer", "syncBuffer"}, NEW next \in {"broadcast", "syncBroadcast"},
             next = "syncBroadcast" => here = "syncBuffer", BufferEvent(n, here, next)
      PROVE Base'
  <2>1. nev[n] \in Events
    BY <1>2 DEF Base, Notifies, BufferEvent
  <2>2. recent' \in Seq(Events) /\ Len(recent') <= BufferSize
    BY <1>2, <2>1, BufferedFits DEF Base, TypeOK, BufferEvent
  <2>3. /\ npc[n] = here /\ npc' = [npc EXCEPT ![n] = next]
        /\ UNCHANGED <<eventId, replayer, rejecter, clients, queue, nev, streamVars,
                       clientVars, latest>>
    BY <1>2 DEF BufferEvent
  <2>4. TypeOK'
    BY <1>2, <2>2, <2>3 DEF Base, TypeOK, streamVars, clientVars
  <2>5. Notifies' /\ Streams'
    BY <1>2, <2>3 DEF Base, TypeOK, Notifies, Streams, streamVars, clientVars
  <2> QED
    BY <2>4, <2>5 DEF Base
<1>3. CASE NotifyBuffer(n) \/ SyncBuffer(n)
  <2>1. BufferEvent(n, "buffer", "broadcast") \/ BufferEvent(n, "syncBuffer", "syncBroadcast")
    BY <1>3 DEF NotifyBuffer, SyncBuffer
  <2> QED
    BY <1>2, <2>1
<1>4. ASSUME NEW S \in SUBSET clients, NEW R \in SUBSET clients, NEW next \in {"idle", "syncId"},
             npc[n] # "idle", \A s \in S : ~Full(s), Put(S, nev[n]), clients' = R,
             npc' = [npc EXCEPT ![n] = next],
             UNCHANGED <<eventId, recent, replayer, rejecter, nev, streamVars, clientVars>>
      PROVE  Base'
  <2>1. nev[n] \in Events /\ S \in SUBSET Stream
    BY <1>4 DEF Base, Notifies, TypeOK
  <2>2. /\ queue' \in [Stream -> Seq(Events)]
        /\ \A s \in Stream : Len(queue'[s]) <= MaxQueue
        /\ latest' \in [Stream -> [Types -> 0..MaxId]]
    BY <1>4, <2>1, PutFits DEF Base
  <2>3. TypeOK'
    BY <1>4, <2>2 DEF Base, TypeOK, streamVars, clientVars
  <2>4. Notifies'
    BY <1>4 DEF Base, TypeOK, Notifies, streamVars, clientVars
  <2>5. \A s \in Stream : spc[s] = "off" => latest'[s] = latest[s]
    <3>1. \A s \in S : spc[s] # "off"
      BY <1>4 DEF IInv, Served, Serving, Live
    <3> QED
      BY <1>4, <2>1, <3>1 DEF Put
  <2>6. Streams'
    BY <1>4, <2>5 DEF Base, Streams, streamVars, clientVars
  <2> QED
    BY <2>3, <2>4, <2>6 DEF Base
<1>5. CASE NotifyBroadcast(n)
  <2> DEFINE stale == {s \in clients : Full(s)}
             next == IF stale = {} THEN "idle" ELSE "syncId"
  <2>1. /\ npc[n] # "idle" /\ Put(clients \ stale, nev[n]) /\ clients' = clients \ stale
        /\ npc' = [npc EXCEPT ![n] = next]
        /\ UNCHANGED <<eventId, recent, replayer, rejecter, nev, streamVars, clientVars>>
    BY <1>5 DEF NotifyBroadcast
  <2>2. /\ clients \ stale \in SUBSET clients /\ \A s \in clients \ stale : ~Full(s)
        /\ next \in {"idle", "syncId"}
    OBVIOUS
  <2> HIDE DEF stale, next
  <2> QED
    BY <1>4, <2>1, <2>2
<1>6. CASE SyncBroadcast(n)
  BY <1>4, <1>6 DEF SyncBroadcast
<1>7. CASE SyncBegin(n)
  <2>1. CASE eventId < MaxId
    <3>1. /\ eventId' \in 0..MaxId
          /\ Event(eventId + 1, "sync") \in Events /\ Event(eventId + 1, "sync").type = "sync"
      BY <1>7, <2>1, FreshId DEF SyncBegin, Base, Types, Event
    <3>2. /\ nev' = [nev EXCEPT ![n] = Event(eventId + 1, "sync")]
          /\ npc' = [npc EXCEPT ![n] = "syncBuffer"]
      BY <1>7, <2>1 DEF SyncBegin
    <3>3. UNCHANGED <<recent, replayer, rejecter, clients, queue, streamVars, clientVars, latest>>
      BY <1>7 DEF SyncBegin
    <3>4. TypeOK'
      BY <3>1, <3>2, <3>3 DEF Base, TypeOK, streamVars, clientVars
    <3>5. Notifies' /\ Streams'
      BY <3>1, <3>2, <3>3 DEF Base, TypeOK, Notifies, Streams, streamVars, clientVars
    <3> QED
      BY <3>4, <3>5 DEF Base
  <2>2. CASE ~(eventId < MaxId)
    BY <1>7, <2>2 DEF SyncBegin, Base, TypeOK, Notifies, Streams, streamVars, clientVars
  <2> QED
    BY <2>1, <2>2
<1> QED
  BY <1>1, <1>3, <1>5, <1>6, <1>7 DEF NotifyWork

-----------------------------------------------------------------------------
(* The generator unwinds, whatever it was about to yield.                  *)
LEMMA UnwindBase ==
  ASSUME Base, NEW s \in Stream, Unwind(s), eventId' \in 0..MaxId
  PROVE  Base'
<1>1. TypeOK'
  BY DEF Base, TypeOK, Unwind, ReleaseReplay, Goto, notifyVars, clientVars, StreamSteps
<1>2. Notifies' /\ Streams'
  BY DEF Base, TypeOK, Notifies, Streams, Unwind, Goto, notifyVars, clientVars
<1> QED
  BY <1>1, <1>2 DEF Base

(* A stream that is over starts from nothing again.                        *)
LEMMA EndedBase ==
  ASSUME Base, NEW s \in Stream, Ended(s), clients' \subseteq Stream, rejecter' \subseteq Stream
  PROVE  Base'
<1>1. queue' \in [Stream -> Seq(Events)] /\ \A r \in Stream : Len(queue'[r]) <= MaxQueue
  BY HubAssumption DEF Base, TypeOK, Ended
<1>2. TypeOK'
  BY <1>1, HubAssumption DEF Base, TypeOK, Ended, Goto, notifyVars, clientVars, StreamSteps
<1>3. Notifies'
  BY DEF Base, Notifies, Ended, notifyVars
<1>4. Streams'
  BY DEF Base, TypeOK, Streams, Ended, Goto, notifyVars, clientVars
<1> QED
  BY <1>2, <1>3, <1>4 DEF Base

(* The steps of a generator keep the types.                                *)
LEMMA StreamBase ==
  ASSUME IInv, Base, NEW s \in Stream, StreamWork(s)
  PROVE  Base'
<1>0. TypeOK /\ Notifies /\ Streams
  BY DEF Base
<1>1. CASE Register(s)
  <2>1. TypeOK'
    BY <1>0, <1>1 DEF TypeOK, Register, Goto, notifyVars, clientVars, StreamSteps
  <2>2. Notifies' /\ Streams'
    BY <1>0, <1>1 DEF TypeOK, Notifies, Streams, Register, Goto, notifyVars, clientVars
  <2> QED
    BY <2>1, <2>2 DEF Base
<1>2. CASE Reject(s)
  BY <1>0, <1>2, EndedBase DEF Reject, TypeOK
<1>3. CASE Close(s)
  BY <1>0, <1>3, EndedBase DEF Close, Unregister, TypeOK
<1>4. ASSUME NEW step \in {"live", "lock"}, NextEventId, Yield(s, eventId + 1, {eventId + 1}),
             Goto(s, step), spc[s] # "off",
             UNCHANGED <<recent, replayer, rejecter, clients, queue, notifyVars, owner,
                         conn, from, backlog, pending, standsFor, latest>>
      PROVE  Base'
  <2>1. eventId' \in 0..MaxId /\ eventId + 1 \in 1..MaxId /\ {eventId + 1} \in SUBSET (1..MaxId)
    BY <1>0, <1>4, FreshId
  <2>2. last' \in [Client -> 0..MaxId] /\ seen' \in [Client -> SUBSET (1..MaxId)]
    BY <1>0, <1>4, <2>1, YieldReads
  <2>3. TypeOK'
    BY <1>0, <1>4, <2>1, <2>2 DEF TypeOK, Goto, notifyVars, StreamSteps
  <2>4. Notifies' /\ Streams'
    BY <1>0, <1>4 DEF TypeOK, Notifies, Streams, Goto, notifyVars
  <2> QED
    BY <2>3, <2>4 DEF Base
<1>5. CASE State(s)
  <2>1. CASE Unwind(s)
    BY <1>0, <1>5, <2>1, UnwindBase, FreshId DEF Base, State
  <2>2. CASE ~Unwind(s)
    <3> DEFINE step == IF from[s] = 0 THEN "live" ELSE "lock"
    <3>1. /\ NextEventId /\ Yield(s, eventId + 1, {eventId + 1}) /\ Goto(s, step)
          /\ spc[s] # "off" /\ step \in {"live", "lock"}
          /\ UNCHANGED <<recent, replayer, rejecter, clients, queue, notifyVars, owner,
                         conn, from, backlog, pending, standsFor, latest>>
      BY <1>5, <2>2 DEF State
    <3> HIDE DEF step
    <3> QED
      BY <1>4, <3>1
  <2> QED
    BY <2>1, <2>2
<1>6. CASE Heartbeat(s)
  <2>1. CASE Unwind(s)
    <3>1. eventId' \in 0..MaxId
      <4>1. NextEventId \/ eventId' = eventId
        BY <1>6 DEF Heartbeat
      <4> QED
        BY <1>0, <4>1, FreshId DEF TypeOK
    <3> QED
      BY <2>1, <3>1, UnwindBase
  <2>2. CASE ~Unwind(s)
    BY <1>4, <1>6, <2>2 DEF Heartbeat
  <2> QED
    BY <2>1, <2>2
<1>7. CASE Lock(s)
  <2>1. After(from[s]) \in Seq(Events)
    <3>1. from[s] \in Nat /\ recent \in Seq(Events)
      BY <1>0 DEF TypeOK
    <3> QED
      BY <3>1, ReplayFinds
  <2>2. TypeOK'
    BY <1>0, <1>7, <2>1 DEF TypeOK, Lock, Goto, notifyVars, clientVars, StreamSteps
  <2>3. Notifies' /\ Streams'
    BY <1>0, <1>7 DEF TypeOK, Notifies, Streams, Lock, Goto, notifyVars, clientVars
  <2> QED
    BY <2>2, <2>3 DEF Base
<1>8. CASE Replay(s)
  <2>1. CASE Unwind(s)
    <3>1. eventId' \in 0..MaxId
      BY <1>0, <1>8 DEF Replay, TypeOK, hubVars
    <3> QED
      BY <2>1, <3>1, UnwindBase
  <2>2. CASE ~Unwind(s)
    <3>1. /\ Yield(s, Head(backlog[s]).id, {Head(backlog[s]).id})
          /\ backlog' = [backlog EXCEPT ![s] = Tail(@)] /\ backlog[s] # <<>>
          /\ UNCHANGED <<hubVars, notifyVars, spc, owner, conn, from, pending, standsFor, latest>>
      BY <1>8, <2>2 DEF Replay
    <3>2. backlog[s] \in Seq(Events)
      BY <1>0 DEF TypeOK
    <3>3. Head(backlog[s]) \in Events /\ Tail(backlog[s]) \in Seq(Events)
      BY <3>1, <3>2, Beheaded
    <3>4. Head(backlog[s]).id \in 1..MaxId
      BY <3>3, EventFields
    <3>5. last' \in [Client -> 0..MaxId] /\ seen' \in [Client -> SUBSET (1..MaxId)]
      BY <1>0, <3>1, <3>4, YieldReads
    <3>6. TypeOK'
      BY <1>0, <3>1, <3>3, <3>5 DEF TypeOK, hubVars, notifyVars
    <3>7. Notifies' /\ Streams'
      BY <1>0, <3>1 DEF TypeOK, Notifies, Streams, hubVars, notifyVars
    <3> QED
      BY <3>6, <3>7 DEF Base
  <2> QED
    BY <2>1, <2>2
<1>9. CASE ReplayEnd(s)
  <2>1. TypeOK'
    BY <1>0, <1>9 DEF TypeOK, ReplayEnd, ReleaseReplay, Goto, notifyVars, clientVars, StreamSteps
  <2>2. Notifies' /\ Streams'
    BY <1>0, <1>9 DEF TypeOK, Notifies, Streams, ReplayEnd, Goto, notifyVars, clientVars
  <2> QED
    BY <2>1, <2>2 DEF Base
<1>10. ASSUME NEW I \in SUBSET (1..MaxId), queue[s] # <<>>,
              pending' = [pending EXCEPT ![s] = Head(queue[s])],
              standsFor' = [standsFor EXCEPT ![s] = I \cup {Head(queue[s]).id}],
              queue' = [queue EXCEPT ![s] = Tail(@)],
              last' \in [Client -> 0..MaxId], seen' \in [Client -> SUBSET (1..MaxId)],
              UNCHANGED <<eventId, recent, replayer, rejecter, clients, notifyVars, spc, owner,
                          conn, from, backlog, latest>>
       PROVE  Base'
  <2>1. queue[s] \in Seq(Events) /\ Len(queue[s]) <= MaxQueue /\ Len(queue[s]) \in Nat
    BY <1>0 DEF TypeOK
  <2>2. /\ Head(queue[s]) \in Events /\ Tail(queue[s]) \in Seq(Events)
        /\ Len(Tail(queue[s])) = Len(queue[s]) - 1
    BY <1>10, <2>1, Beheaded
  <2>3. Head(queue[s]).id \in 1..MaxId /\ Head(queue[s]) # NoEvent
    BY <2>2, EventFields
  <2>4. /\ queue' \in [Stream -> Seq(Events)]
        /\ \A r \in Stream : Len(queue'[r]) <= MaxQueue
    BY <1>0, <1>10, <2>1, <2>2, HubAssumption DEF TypeOK
  <2>5. /\ pending' \in [Stream -> Events \cup {NoEvent}]
        /\ standsFor' \in [Stream -> SUBSET (1..MaxId)]
    BY <1>0, <1>10, <2>2, <2>3 DEF TypeOK
  <2>6. TypeOK'
    BY <1>0, <1>10, <2>4, <2>5 DEF TypeOK, notifyVars
  <2>7. Notifies'
    BY <1>0, <1>10 DEF Notifies, notifyVars
  <2>8. Streams'
    BY <1>0, <1>10, <2>3 DEF TypeOK, Streams
  <2> QED
    BY <2>6, <2>7, <2>8 DEF Base
<1>11. CASE Coalesce(s)
  <2>1. standsFor[s] \in SUBSET (1..MaxId)
    BY <1>0 DEF TypeOK
  <2>2. /\ standsFor' = [standsFor EXCEPT ![s] = standsFor[s] \cup {Head(queue[s]).id}]
        /\ queue[s] # <<>> /\ pending' = [pending EXCEPT ![s] = Head(queue[s])]
        /\ queue' = [queue EXCEPT ![s] = Tail(@)] /\ last' = last /\ seen' = seen
        /\ UNCHANGED <<eventId, recent, replayer, rejecter, clients, notifyVars, spc, owner,
                       conn, from, backlog, latest>>
    BY <1>11 DEF Coalesce, clientVars
  <2>3. last' \in [Client -> 0..MaxId] /\ seen' \in [Client -> SUBSET (1..MaxId)]
    BY <1>0, <2>2 DEF TypeOK
  <2> QED
    BY <1>10, <2>1, <2>2, <2>3
<1>12. CASE Take(s)
  <2>1. last' \in [Client -> 0..MaxId] /\ seen' \in [Client -> SUBSET (1..MaxId)]
    BY <1>0, <1>12, FlushReads DEF Take
  <2>2. /\ standsFor' = [standsFor EXCEPT ![s] = {} \cup {Head(queue[s]).id}]
        /\ queue[s] # <<>> /\ pending' = [pending EXCEPT ![s] = Head(queue[s])]
        /\ queue' = [queue EXCEPT ![s] = Tail(@)]
        /\ UNCHANGED <<eventId, recent, replayer, rejecter, clients, notifyVars, spc, owner,
                       conn, from, backlog, latest>>
    BY <1>12 DEF Take
  <2>3. {} \in SUBSET (1..MaxId)
    OBVIOUS
  <2> QED
    BY <1>10, <2>1, <2>2, <2>3
<1>13. CASE FlushFails(s)
  BY <1>0, <1>13, UnwindBase DEF Base, TypeOK, FlushFails
<1>14. CASE Timeout(s)
  <2>1. last' \in [Client -> 0..MaxId] /\ seen' \in [Client -> SUBSET (1..MaxId)]
    BY <1>0, <1>14, FlushReads DEF Timeout
  <2>2. TypeOK'
    BY <1>0, <1>14, <2>1 DEF TypeOK, Timeout, Goto, hubVars, notifyVars, StreamSteps
  <2>3. Notifies' /\ Streams'
    BY <1>0, <1>14 DEF TypeOK, Notifies, Streams, Timeout, Goto, hubVars, notifyVars
  <2> QED
    BY <2>2, <2>3 DEF Base
<1>15. CASE NoHeartbeat(s)
  <2>1. TypeOK'
    BY <1>0, <1>15 DEF TypeOK, NoHeartbeat, Goto, hubVars, notifyVars, clientVars, StreamSteps
  <2>2. Notifies' /\ Streams'
    BY <1>0, <1>15 DEF TypeOK, Notifies, Streams, NoHeartbeat, Goto, hubVars, notifyVars, clientVars
  <2> QED
    BY <2>1, <2>2 DEF Base
<1> QED
  BY <1>1, <1>2, <1>3, <1>5, <1>6, <1>7, <1>8, <1>9, <1>11, <1>12, <1>13, <1>14, <1>15 DEF StreamWork

(* Clients connect and drop within the types.                              *)
LEMMA ConnectionBase ==
  ASSUME Base, NEW s \in Stream, Drop(s) \/ \E c \in Client : Open(c, s)
  PROVE  Base'
<1>1. CASE Drop(s)
  BY <1>1 DEF Base, TypeOK, Notifies, Streams, Drop, hubVars, notifyVars, clientVars
<1>2. ASSUME NEW c \in Client, Open(c, s) PROVE Base'
  <2>1. TypeOK'
    BY <1>2 DEF Base, TypeOK, Open, Goto, hubVars, notifyVars, clientVars, StreamSteps
  <2>2. Notifies' /\ Streams'
    BY <1>2 DEF Base, TypeOK, Notifies, Streams, Open, Goto, hubVars, notifyVars, clientVars
  <2> QED
    BY <2>1, <2>2 DEF Base
<1> QED
  BY <1>1, <1>2

-----------------------------------------------------------------------------
(* What a client has read it has read for good, and a connected client     *)
(* keeps the stream it has.                                                *)
Reading ==
  /\ \A c \in Client : seen[c] \subseteq seen'[c]
  /\ \A r \in conn \cap conn' : owner'[r] = owner[r]

(* The news of a stream does not change with the rest.                     *)
LEMMA NewsKept ==
  ASSUME Streams, NEW r \in Stream, r \in conn \cap conn', Reading, NewsOf(r),
         latest'[r] = latest[r], queue'[r] = queue[r], pending'[r] = pending[r]
  PROVE  NewsOf(r)'
BY DEF Streams, Reading, NewsOf, LastQueued, NoneQueued

(* Neither does what its client has or will get.                           *)
LEMMA CoveredKept ==
  ASSUME Streams, NEW r \in Stream, r \in conn \cap conn', Reading,
         standsFor'[r] = standsFor[r], queue'[r] = queue[r], backlog'[r] = backlog[r],
         NEW i, Covered(r, i)
  PROVE  Covered(r, i)'
BY DEF Streams, Reading, Covered

(* An event that is put on the queue is the last of its type there.        *)
LEMMA NewsPut ==
  ASSUME TypeOK, NEW S \in SUBSET Stream, NEW e \in Events, Put(S, e), NEW s \in conn,
         NewsOf(s), UNCHANGED <<seen, owner, pending>>
  PROVE  NewsOf(s)'
<1>0. /\ queue[s] \in Seq(Events) /\ latest[s] \in [Types -> 0..MaxId] /\ s \in Stream
      /\ e.type \in Types
  BY EventFields DEF TypeOK
<1>1. CASE s \notin S
  BY <1>0, <1>1 DEF Put, NewsOf, LastQueued, NoneQueued
<1>2. CASE s \in S
  <2>1. /\ queue'[s] = Append(queue[s], e)
        /\ latest'[s] = [latest[s] EXCEPT ![e.type] = e.id]
    BY <1>0, <1>2 DEF Put, TypeOK
  <2>2. /\ DOMAIN queue[s] = 1..Len(queue[s]) /\ DOMAIN queue'[s] = 1..(Len(queue[s]) + 1)
        /\ Len(queue[s]) \in Nat
        /\ \A k \in 1..Len(queue[s]) : queue'[s][k] = queue[s][k]
        /\ queue'[s][Len(queue[s]) + 1] = e
    BY <1>0, <2>1
  <2>3. ASSUME NEW ty \in Types, latest'[s][ty] # 0
        PROVE  \/ latest'[s][ty] \in seen'[owner'[s]]
               \/ LastQueued(s, ty)'
               \/ NoneQueued(s, ty)' /\ pending'[s] = Event(latest'[s][ty], ty)
    <3>1. CASE ty = e.type
      <4>1. queue'[s][Len(queue[s]) + 1] = Event(latest'[s][ty], ty)
        BY <1>0, <2>1, <2>2, <3>1, EventFields
      <4>2. \A j \in DOMAIN queue'[s] : ~(j > Len(queue[s]) + 1)
        BY <2>2
      <4>3. Len(queue[s]) + 1 \in DOMAIN queue'[s]
        BY <2>2
      <4> QED
        BY <4>1, <4>2, <4>3 DEF LastQueued
    <3>2. CASE ty # e.type
      <4>1. latest'[s][ty] = latest[s][ty]
        BY <1>0, <2>1, <3>2
      <4>2. CASE LastQueued(s, ty)
        <5>1. PICK k \in DOMAIN queue[s] :
                /\ queue[s][k] = Event(latest[s][ty], ty)
                /\ \A j \in DOMAIN queue[s] : j > k => queue[s][j].type # ty
          BY <4>2 DEF LastQueued
        <5>2. k \in DOMAIN queue'[s] /\ queue'[s][k] = Event(latest'[s][ty], ty)
          BY <2>2, <4>1, <5>1
        <5>3. ASSUME NEW j \in DOMAIN queue'[s], j > k PROVE queue'[s][j].type # ty
          BY <2>2, <3>2, <5>1, <5>3
        <5> QED
          BY <5>2, <5>3 DEF LastQueued
      <4>3. CASE NoneQueued(s, ty) /\ pending[s] = Event(latest[s][ty], ty)
        BY <2>2, <3>2, <4>1, <4>3 DEF NoneQueued
      <4>4. CASE latest[s][ty] \in seen[owner[s]]
        BY <4>1, <4>4
      <4> QED
        BY <2>3, <4>1, <4>2, <4>3, <4>4 DEF NewsOf
    <3> QED
      BY <3>1, <3>2
  <2> QED
    BY <2>3 DEF NewsOf
<1> QED
  BY <1>1, <1>2

(* An event that leaves the queue becomes pending, and the one it follows  *)
(* has been read or is of its type and older.                              *)
LEMMA NewsTaken ==
  ASSUME TypeOK, Streams, NEW s \in Stream, s \in conn, s \in conn', Reading, NewsOf(s),
         latest'[s] = latest[s], queue[s] # <<>>,
         pending'[s] = Head(queue[s]), queue'[s] = Tail(queue[s]),
         \/ pending[s] # NoEvent /\ Head(queue[s]).type = pending[s].type
         \/ standsFor[s] \subseteq seen'[owner[s]]
  PROVE  NewsOf(s)'
<1>0. /\ queue[s] \in Seq(Events) /\ latest[s] \in [Types -> 0..MaxId]
      /\ pending[s] \in Events \cup {NoEvent}
      /\ owner[s] \in Client /\ owner'[s] = owner[s]
  BY DEF TypeOK, Streams, Reading
<1>1. /\ DOMAIN queue[s] = 1..Len(queue[s]) /\ DOMAIN queue'[s] = 1..(Len(queue[s]) - 1)
      /\ Len(queue[s]) \in Nat \ {0}
      /\ \A k \in 1..(Len(queue[s]) - 1) : queue'[s][k] = queue[s][k + 1]
      /\ Head(queue[s]) = queue[s][1] /\ Head(queue[s]) \in Events
  BY <1>0, Beheaded
<1>2. ASSUME NEW ty \in Types, latest'[s][ty] # 0
      PROVE  \/ latest'[s][ty] \in seen'[owner'[s]]
             \/ LastQueued(s, ty)'
             \/ NoneQueued(s, ty)' /\ pending'[s] = Event(latest'[s][ty], ty)
  <2>1. CASE latest[s][ty] \in seen[owner[s]]
    BY <1>0, <2>1 DEF Reading
  <2>2. CASE LastQueued(s, ty)
    <3>1. PICK k \in 1..Len(queue[s]) :
            /\ queue[s][k] = Event(latest[s][ty], ty)
            /\ \A j \in 1..Len(queue[s]) : j > k => queue[s][j].type # ty
      BY <1>1, <2>2 DEF LastQueued
    <3>2. CASE k = 1
      <4>1. ASSUME NEW j \in 1..(Len(queue[s]) - 1) PROVE queue'[s][j].type # ty
        <5>1. j + 1 \in 1..Len(queue[s]) /\ j + 1 > k
          BY <1>1, <3>2
        <5> QED
          BY <1>1, <3>1, <5>1
      <4>2. NoneQueued(s, ty)'
        BY <1>1, <4>1 DEF NoneQueued
      <4> QED
        BY <1>1, <3>1, <3>2, <4>2
    <3>3. CASE k # 1
      <4>1. k - 1 \in 1..(Len(queue[s]) - 1) /\ queue'[s][k - 1] = Event(latest'[s][ty], ty)
        BY <1>1, <3>1, <3>3
      <4>2. ASSUME NEW j \in 1..(Len(queue[s]) - 1), j > k - 1 PROVE queue'[s][j].type # ty
        <5>1. j + 1 \in 1..Len(queue[s]) /\ j + 1 > k
          BY <1>1, <4>2
        <5> QED
          BY <1>1, <3>1, <5>1
      <4> QED
        BY <1>1, <4>1, <4>2 DEF LastQueued
    <3> QED
      BY <3>2, <3>3
  <2>3. CASE NoneQueued(s, ty) /\ pending[s] = Event(latest[s][ty], ty)
    <3>1. latest[s][ty] \in 1..MaxId
      BY <1>0, <1>2
    <3>2. pending[s] # NoEvent /\ pending[s].type = ty /\ pending[s].id = latest[s][ty]
      BY <2>3, <3>1, EventFields
    <3>3. Head(queue[s]).type # ty
      BY <1>1, <2>3 DEF NoneQueued
    <3>4. latest[s][ty] \in standsFor[s]
      BY <3>2 DEF Streams
    <3>5. latest[s][ty] \in seen'[owner[s]]
      BY <3>2, <3>3, <3>4
    <3> QED
      BY <1>0, <3>5
  <2> QED
    BY <1>2, <2>1, <2>2, <2>3 DEF NewsOf
<1> QED
  BY <1>2 DEF NewsOf

-----------------------------------------------------------------------------
(* A step of a generator takes nothing from what clients have read.        *)
LEMMA SeenGrows ==
  ASSUME Base, NEW s \in Stream, StreamWork(s)
  PROVE  \A c \in Client : seen[c] \subseteq seen'[c]
<1>0. TypeOK /\ Streams
  BY DEF Base
<1>1. ASSUME NextEventId, Yield(s, eventId + 1, {eventId + 1})
      PROVE  \A c \in Client : seen[c] \subseteq seen'[c]
  <2>1. eventId + 1 \in 1..MaxId /\ {eventId + 1} \in SUBSET (1..MaxId)
    BY <1>0, <1>1, FreshId
  <2> QED
    BY <1>0, <1>1, <2>1, YieldReads
<1>2. CASE Unwind(s) \/ Ended(s)
  BY <1>2 DEF Unwind, Ended, clientVars
<1>3. CASE ~Unwind(s) /\ (State(s) \/ Heartbeat(s))
  BY <1>1, <1>3 DEF State, Heartbeat
<1>4. CASE ~Unwind(s) /\ Replay(s)
  <2>1. backlog[s] \in Seq(Events) /\ backlog[s] # <<>>
    BY <1>0, <1>4 DEF Replay, TypeOK
  <2>2. Head(backlog[s]) \in Events
    BY <2>1, Beheaded
  <2>3. Head(backlog[s]).id \in 1..MaxId
    BY <2>2, EventFields
  <2> QED
    BY <1>0, <1>4, <2>3, YieldReads DEF Replay
<1>5. CASE Take(s) \/ Timeout(s)
  BY <1>0, <1>5, FlushReads DEF Take, Timeout
<1>6. CASE Register(s) \/ Lock(s) \/ ReplayEnd(s) \/ Coalesce(s) \/ NoHeartbeat(s)
  BY <1>6 DEF Register, Lock, ReplayEnd, Coalesce, NoHeartbeat, clientVars
<1> QED
  BY <1>2, <1>3, <1>4, <1>5, <1>6 DEF StreamWork, Reject, Close, FlushFails

(* The queue of a stream and what is pending on it stay the same.          *)
Same(r) ==
  /\ latest'[r] = latest[r] /\ queue'[r] = queue[r] /\ pending'[r] = pending[r]
  /\ standsFor'[r] = standsFor[r]

(* A step leaves what other streams have alone, and the buffer and the     *)
(* calls of notify().                                                      *)
LEMMA OthersKeep ==
  ASSUME Base, NEW s \in Stream, StreamWork(s)
  PROVE  /\ recent' = recent /\ npc' = npc /\ nev' = nev
         /\ conn' \subseteq conn /\ \A r \in conn' : owner'[r] = owner[r]
         /\ \A r \in Stream \ {s} :
              Same(r) /\ backlog'[r] = backlog[r] /\ from'[r] = from[r]
                /\ (r \in clients' => r \in clients)
<1> USE DEF Same
<1>0. TypeOK
  BY DEF Base
<1>1. CASE Unwind(s)
  <2>1. recent' = recent /\ npc' = npc /\ nev' = nev /\ conn' = conn /\ owner' = owner
    BY <1>1 DEF Unwind, notifyVars
  <2>2. UNCHANGED <<latest, queue, pending, standsFor, from, clients>>
    BY <1>1 DEF Unwind
  <2> QED
    BY <1>0, <1>1, <2>1, <2>2 DEF TypeOK, Unwind
<1>2. CASE Ended(s) /\ clients' \subseteq clients
  BY <1>0, <1>2 DEF TypeOK, Ended, notifyVars
<1>3. CASE Register(s)
  BY <1>0, <1>3 DEF TypeOK, Register, notifyVars
<1>4. CASE ~Unwind(s) /\ (State(s) \/ Heartbeat(s))
  BY <1>4 DEF State, Heartbeat, notifyVars
<1>5. CASE Lock(s) \/ ReplayEnd(s)
  BY <1>0, <1>5 DEF TypeOK, Lock, ReplayEnd, notifyVars
<1>6. CASE ~Unwind(s) /\ Replay(s)
  BY <1>0, <1>6 DEF TypeOK, Replay, hubVars, notifyVars
<1>7. CASE Coalesce(s)
  BY <1>0, <1>7 DEF TypeOK, Coalesce, notifyVars
<1>8. CASE Take(s)
  BY <1>0, <1>8 DEF TypeOK, Take, notifyVars
<1>9. CASE Timeout(s) \/ NoHeartbeat(s)
  BY <1>0, <1>9 DEF TypeOK, Timeout, NoHeartbeat, hubVars, notifyVars
<1> QED
  BY <1>1, <1>2, <1>3, <1>4, <1>5, <1>6, <1>7, <1>8, <1>9
  DEF StreamWork, Reject, Close, Unregister, FlushFails

(* So the news of the others stay, and those of its own go on their way.   *)
LEMMA NewsNext ==
  ASSUME IInv, Base, News, NEW s \in Stream, StreamWork(s)
  PROVE  News'
<1>0. TypeOK /\ Streams /\ conn' \subseteq conn /\ conn \subseteq Stream
  BY OthersKeep DEF Base, TypeOK
<1>1. Reading
  BY SeenGrows, OthersKeep DEF Reading
<1>2. ASSUME NEW r \in conn', Same(r) PROVE NewsOf(r)'
  BY <1>0, <1>1, <1>2, NewsKept DEF News, Same
<1>3. ASSUME s \in conn' PROVE NewsOf(s)'
  <2>0. s \in conn /\ NewsOf(s) /\ owner[s] \in Client /\ owner'[s] = owner[s]
    BY <1>0, <1>1, <1>3 DEF News, Streams, Reading
  <2>1. CASE Unwind(s) \/ Ended(s)
    BY <1>0, <1>3, <2>0, <2>1 DEF Unwind, Ended
  <2>2. CASE Register(s) \/ Lock(s) \/ ReplayEnd(s) \/ NoHeartbeat(s)
              \/ (~Unwind(s) /\ (State(s) \/ Heartbeat(s) \/ Replay(s)))
    <3>1. Same(s)
      BY <2>2 DEF Register, Lock, ReplayEnd, NoHeartbeat, State, Heartbeat, Replay, hubVars, Same
    <3> QED
      BY <1>2, <1>3, <3>1
  <2>3. CASE Coalesce(s)
    <3>1. /\ latest'[s] = latest[s] /\ queue[s] # <<>> /\ pending'[s] = Head(queue[s])
          /\ queue'[s] = Tail(queue[s])
          /\ pending[s] # NoEvent /\ Head(queue[s]).type = pending[s].type
      BY <1>0, <2>3 DEF Coalesce, TypeOK
    <3> QED
      BY <1>0, <1>1, <1>3, <2>0, <3>1, NewsTaken
  <2>4. CASE Take(s)
    <3>1. /\ latest'[s] = latest[s] /\ queue[s] # <<>> /\ pending'[s] = Head(queue[s])
          /\ queue'[s] = Tail(queue[s])
      BY <1>0, <2>4 DEF Take, TypeOK
    <3>2. standsFor[s] \subseteq seen'[owner[s]]
      BY <1>0, <2>0, <2>4, FlushReads DEF Take
    <3> QED
      BY <1>0, <1>1, <1>3, <2>0, <3>1, <3>2, NewsTaken
  <2>5. CASE Timeout(s)
    <3>1. standsFor[s] \subseteq seen'[owner[s]]
      BY <1>0, <2>0, <2>5, FlushReads DEF Timeout
    <3>2. latest' = latest /\ queue[s] = <<>>
      BY <2>5 DEF Timeout
    <3>3. ASSUME NEW ty \in Types, latest[s][ty] # 0 PROVE latest[s][ty] \in seen'[owner'[s]]
      <4>1. CASE latest[s][ty] \in seen[owner[s]]
        BY <1>1, <2>0, <4>1 DEF Reading
      <4>2. ~LastQueued(s, ty)
        BY <3>2 DEF LastQueued
      <4>3. CASE pending[s] = Event(latest[s][ty], ty)
        <5>1. latest[s][ty] \in 1..MaxId
          BY <1>0, <3>3 DEF TypeOK
        <5>2. pending[s] # NoEvent /\ pending[s].id = latest[s][ty]
          BY <4>3, <5>1, EventFields
        <5>3. latest[s][ty] \in standsFor[s]
          BY <1>0, <5>2 DEF Streams
        <5> QED
          BY <2>0, <3>1, <5>3
      <4> QED
        BY <2>0, <3>3, <4>1, <4>2, <4>3 DEF NewsOf
    <3> QED
      BY <3>2, <3>3 DEF NewsOf
  <2>6. CASE Reject(s) \/ Close(s) \/ FlushFails(s)
    BY <2>1, <2>6 DEF Reject, Close, FlushFails
  <2>7. CASE State(s) \/ Heartbeat(s) \/ Replay(s)
    BY <2>1, <2>2, <2>7
  <2> QED
    BY <2>2, <2>3, <2>4, <2>5, <2>6, <2>7 DEF StreamWork
<1>4. ASSUME NEW r \in conn', r # s PROVE NewsOf(r)'
  <2>1. Same(r)
    BY <1>0, <1>4, OthersKeep
  <2> QED
    BY <1>2, <2>1
<1> QED
  BY <1>3, <1>4 DEF News

(* A resuming client keeps what covers the buffer, in the hand-over from   *)
(* its replay to its queue and in every step of the live loop.             *)
LEMMA GaplessNext ==
  ASSUME IInv, Base, Gapless, NEW s \in Stream, StreamWork(s)
  PROVE  Gapless'
<1>0. TypeOK /\ Streams /\ conn' \subseteq conn /\ conn \subseteq Stream
  BY OthersKeep DEF Base, TypeOK
<1>1. Reading
  BY SeenGrows, OthersKeep DEF Reading
<1>2. /\ recent' = recent /\ \A e : Waiting(e)' <=> Waiting(e)
  BY OthersKeep DEF Waiting
<1>3. ASSUME NEW r \in Resuming', r # s, NEW i, r \in Resuming => Covered(r, i)
      PROVE  Covered(r, i)'
  <2>1. r \in Stream /\ r \in conn \cap conn' /\ Same(r) /\ backlog'[r] = backlog[r]
    BY <1>0, <1>3, OthersKeep DEF Resuming
  <2>2. r \in Resuming
    <3>1. spc'[r] = spc[r]
      BY <1>3, <2>1, OthersStay DEF IInv
    <3> QED
      BY <1>3, <2>1, <3>1, OthersKeep DEF Resuming
  <2> QED
    BY <1>0, <1>1, <1>3, <2>1, <2>2, CoveredKept DEF Same
<1>4. ASSUME s \in Resuming', NEW e \in ToSet(recent), e.id > from'[s],
             s \in Resuming /\ from'[s] = from[s] => Covered(s, e.id)
      PROVE  Covered(s, e.id)'
  <2>0. /\ s \in conn /\ s \in conn' /\ owner[s] \in Client /\ owner'[s] = owner[s]
        /\ seen[owner[s]] \subseteq seen'[owner[s]] /\ s \in clients'
        /\ queue[s] \in Seq(Events) /\ backlog[s] \in Seq(Events)
    BY <1>0, <1>1, <1>4 DEF Streams, Reading, Resuming, TypeOK
  <2>1. CASE Unwind(s) \/ Ended(s)
    BY <1>0, <2>0, <2>1 DEF Unwind, Ended
  <2>2. CASE Register(s) \/ (~Unwind(s) /\ State(s))
    <3>1. spc'[s] \in {"reject", "state", "lock"} \/ from'[s] = 0
      BY <1>0, <2>2 DEF TypeOK, Register, State, Goto
    <3> QED
      BY <1>4, <3>1 DEF Resuming, Live
  <2>3. CASE Lock(s)
    <3>1. from'[s] = from[s] /\ backlog'[s] = After(from[s])
      BY <1>0, <2>3 DEF TypeOK, Lock
    <3>2. from[s] \in Nat /\ recent \in Seq(Events)
      BY <1>0 DEF TypeOK
    <3>3. e.id \in Ids(After(from[s]))
      BY <1>4, <3>1, <3>2, ReplayFinds
    <3> QED
      BY <3>1, <3>3 DEF Covered
  <2>4. ASSUME spc[s] \in Live \cup {"replay"}, from' = from, clients' = clients
        PROVE  Covered(s, e.id)
    BY <1>4, <2>0, <2>4 DEF Resuming
  <2>5. CASE Replay(s) /\ ~Unwind(s)
    <3>1. /\ Yield(s, Head(backlog[s]).id, {Head(backlog[s]).id})
          /\ backlog'[s] = Tail(backlog[s]) /\ backlog[s] # <<>>
          /\ standsFor'[s] = standsFor[s] /\ queue'[s] = queue[s]
          /\ spc[s] = "replay" /\ from' = from /\ clients' = clients
      BY <1>0, <2>5 DEF TypeOK, Replay, hubVars
    <3>2. Ids(backlog[s]) = Ids(backlog'[s]) \cup {Head(backlog[s]).id}
      BY <2>0, <3>1, IdsBeheaded
    <3>3. Head(backlog[s]).id \in seen'[owner[s]]
      BY <1>0, <2>0, <3>1 DEF Yield, TypeOK
    <3>4. Covered(s, e.id)
      BY <2>4, <3>1
    <3> QED
      BY <2>0, <3>1, <3>2, <3>3, <3>4 DEF Covered
  <2>6. CASE ReplayEnd(s) \/ NoHeartbeat(s) \/ (Heartbeat(s) /\ ~Unwind(s))
    <3>1. /\ Same(s) /\ backlog'[s] = backlog[s]
          /\ spc[s] \in Live \cup {"replay"} /\ from' = from /\ clients' = clients
      BY <2>6 DEF ReplayEnd, NoHeartbeat, Heartbeat, hubVars, Same, Live
    <3>2. Covered(s, e.id)
      BY <2>4, <3>1
    <3> QED
      BY <1>0, <1>1, <2>0, <3>1, <3>2, CoveredKept DEF Same
  <2>7. CASE Coalesce(s)
    <3>1. /\ queue[s] # <<>> /\ queue'[s] = Tail(queue[s])
          /\ standsFor'[s] = standsFor[s] \cup {Head(queue[s]).id} /\ backlog'[s] = backlog[s]
          /\ spc[s] \in Live /\ from' = from /\ clients' = clients
      BY <1>0, <2>7 DEF TypeOK, Coalesce, Live
    <3>2. Ids(queue[s]) = Ids(queue'[s]) \cup {Head(queue[s]).id}
      BY <2>0, <3>1, IdsBeheaded
    <3>3. Covered(s, e.id)
      BY <2>4, <3>1
    <3> QED
      BY <2>0, <3>1, <3>2, <3>3 DEF Covered
  <2>8. CASE Take(s)
    <3>1. /\ queue[s] # <<>> /\ queue'[s] = Tail(queue[s])
          /\ standsFor'[s] = {Head(queue[s]).id} /\ backlog'[s] = backlog[s]
          /\ spc[s] \in Live /\ from' = from /\ clients' = clients
      BY <1>0, <2>8 DEF TypeOK, Take, Live
    <3>2. Ids(queue[s]) = Ids(queue'[s]) \cup {Head(queue[s]).id}
      BY <2>0, <3>1, IdsBeheaded
    <3>3. standsFor[s] \subseteq seen'[owner[s]]
      BY <1>0, <2>0, <2>8, FlushReads DEF Take
    <3>4. Covered(s, e.id)
      BY <2>4, <3>1
    <3> QED
      BY <2>0, <3>1, <3>2, <3>3, <3>4 DEF Covered
  <2>9. CASE Timeout(s)
    <3>1. /\ queue'[s] = queue[s] /\ backlog'[s] = backlog[s]
          /\ spc[s] \in Live /\ from' = from /\ clients' = clients
      BY <1>0, <2>9 DEF Timeout, Live, hubVars
    <3>2. standsFor[s] \subseteq seen'[owner[s]]
      BY <1>0, <2>0, <2>9, FlushReads DEF Timeout
    <3>3. Covered(s, e.id)
      BY <2>4, <3>1
    <3> QED
      BY <2>0, <3>1, <3>2, <3>3 DEF Covered
  <2>10. CASE Reject(s) \/ Close(s) \/ FlushFails(s)
    BY <2>1, <2>10 DEF Reject, Close, FlushFails
  <2>11. CASE State(s) \/ Heartbeat(s) \/ Replay(s)
    BY <2>1, <2>2, <2>5, <2>6, <2>11
  <2> QED
    BY <2>2, <2>3, <2>6, <2>7, <2>8, <2>9, <2>10, <2>11 DEF StreamWork
<1>5. SUFFICES ASSUME NEW r \in Resuming', NEW e \in ToSet(recent), e.id > from'[r],
                      e.type # "sync", ~Waiting(e)
               PROVE  Covered(r, e.id)'
  BY <1>2 DEF Gapless
<1>6. CASE r = s
  BY <1>4, <1>5, <1>6 DEF Gapless
<1>7. CASE r # s
  <2>1. from'[r] = from[r]
    BY <1>0, <1>5, <1>7, OthersKeep DEF Resuming
  <2> QED
    BY <1>3, <1>5, <1>7, <2>1 DEF Gapless
<1> QED
  BY <1>6, <1>7

-----------------------------------------------------------------------------
(* notify() puts its news on queues that have room, and leaves the others  *)
(* as they are.                                                            *)
LEMMA NotifyNews ==
  ASSUME IInv, Base, News, NEW n \in Notifier,
         NotifyWork(n) \/ \E ty \in EventType : NotifyBegin(n, ty)
  PROVE  News'
<1>0. TypeOK /\ Notifies /\ Streams /\ conn' = conn /\ owner' = owner /\ seen' = seen
        /\ pending' = pending
  BY DEF Base, NotifyWork, NotifyBegin, NotifyBuffer, NotifyBroadcast, SyncBegin, SyncBuffer,
     SyncBroadcast, BufferEvent, streamVars, clientVars
<1>1. CASE queue' = queue /\ latest' = latest
  BY <1>0, <1>1 DEF News, NewsOf, LastQueued, NoneQueued
<1>2. ASSUME NEW S \in SUBSET clients, npc[n] # "idle", Put(S, nev[n]) PROVE News'
  <2>1. nev[n] \in Events /\ S \in SUBSET Stream
    BY <1>0, <1>2 DEF Notifies, TypeOK
  <2> QED
    BY <1>0, <1>2, <2>1, NewsPut DEF News
<1>3. CASE NotifyBroadcast(n)
  BY <1>2, <1>3, clients \ {s \in clients : Full(s)} \in SUBSET clients DEF NotifyBroadcast
<1>4. CASE SyncBroadcast(n)
  BY <1>2, <1>4, {s \in clients : ~Full(s)} \in SUBSET clients DEF SyncBroadcast
<1>5. CASE NotifyBuffer(n) \/ SyncBuffer(n) \/ SyncBegin(n)
            \/ \E ty \in EventType : NotifyBegin(n, ty)
  BY <1>1, <1>5 DEF NotifyBegin, NotifyBuffer, SyncBegin, SyncBuffer, BufferEvent
<1> QED
  BY <1>3, <1>4, <1>5 DEF NotifyWork

(* What notify() puts on the queues covers the event it buffered before.   *)
LEMMA NotifyGapless ==
  ASSUME IInv, Base, Gapless, NEW n \in Notifier,
         NotifyWork(n) \/ \E ty \in EventType : NotifyBegin(n, ty)
  PROVE  Gapless'
<1>0. /\ TypeOK /\ Notifies
      /\ UNCHANGED <<conn, owner, seen, spc, from, standsFor, backlog>>
      /\ clients' \subseteq clients /\ Resuming' \subseteq Resuming
  BY NotifyKeeps
  DEF Base, NotifyWork, NotifyBegin, NotifyBuffer, NotifyBroadcast, SyncBegin, SyncBuffer,
      SyncBroadcast, BufferEvent, streamVars, clientVars, Resuming
<1>1. ASSUME queue' = queue, recent' = recent, NEW e, ~Waiting(e)' => ~Waiting(e),
             e \in ToSet(recent), NEW r \in Resuming',
             e.id > from[r], e.type # "sync", ~Waiting(e)'
      PROVE  Covered(r, e.id)'
  <2>1. Covered(r, e.id)
    BY <1>0, <1>1 DEF Gapless
  <2> QED
    BY <1>0, <1>1, <2>1 DEF Covered
<1>2. CASE SyncBegin(n) \/ \E ty \in EventType : NotifyBegin(n, ty)
  <2>1. queue' = queue /\ recent' = recent
    BY <1>2 DEF SyncBegin, NotifyBegin
  <2>2. ASSUME NEW e, Waiting(e) PROVE Waiting(e)'
    <3>1. PICK m \in Notifier : npc[m] \in {"buffer", "broadcast"} /\ nev[m] = e
      BY <2>2 DEF Waiting
    <3>2. npc[n] \notin {"buffer", "broadcast"}
      BY <1>2 DEF SyncBegin, NotifyBegin
    <3>3. npc'[m] = npc[m] /\ nev'[m] = nev[m]
      BY <1>0, <1>2, <3>1, <3>2 DEF SyncBegin, NotifyBegin, TypeOK
    <3> QED
      BY <3>1, <3>3 DEF Waiting
  <2> QED
    BY <1>0, <1>1, <2>1, <2>2 DEF Gapless
<1>3. CASE NotifyBuffer(n) \/ SyncBuffer(n)
  <2>1. /\ npc[n] \in {"buffer", "syncBuffer"} /\ queue' = queue /\ nev' = nev
        /\ npc' = [npc EXCEPT ![n] = IF npc[n] = "buffer" THEN "broadcast" ELSE "syncBroadcast"]
        /\ recent' = Buffered(nev[n])
    BY <1>3 DEF NotifyBuffer, SyncBuffer, BufferEvent
  <2>2. nev[n] \in Events
    BY <1>0, <2>1 DEF Notifies
  <2>3. ToSet(recent') \subseteq ToSet(recent) \cup {nev[n]}
    BY <1>0, <2>1, <2>2, BufferedFits DEF TypeOK
  <2>4. ASSUME NEW e, Waiting(e) PROVE Waiting(e)'
    BY <1>0, <2>1, <2>4 DEF Waiting, TypeOK
  <2>5. ASSUME NEW e, e = nev[n] PROVE e.type = "sync" \/ Waiting(e)'
    BY <1>0, <2>1, <2>5 DEF Waiting, Notifies, TypeOK
  <2>6. ASSUME NEW r \in Resuming', NEW e \in ToSet(recent'),
               e.id > from[r], e.type # "sync", ~Waiting(e)'
        PROVE  Covered(r, e.id)'
    <3>1. e # nev[n]
      BY <2>5, <2>6
    <3>2. e \in ToSet(recent) /\ ~Waiting(e)
      BY <2>3, <2>4, <2>6, <3>1
    <3>3. Covered(r, e.id)
      BY <1>0, <2>6, <3>2 DEF Gapless
    <3> QED
      BY <1>0, <2>1, <3>3 DEF Covered
  <2> QED
    BY <1>0, <2>6 DEF Gapless
<1>4. CASE NotifyBroadcast(n) \/ SyncBroadcast(n)
  <2>1. PICK S \in SUBSET clients :
          Put(S, nev[n]) /\ (npc[n] = "broadcast" => clients' = S)
    <3>1. CASE NotifyBroadcast(n)
      BY <3>1, clients \ {s \in clients : Full(s)} \in SUBSET clients DEF NotifyBroadcast
    <3>2. CASE SyncBroadcast(n)
      BY <3>2, {s \in clients : ~Full(s)} \in SUBSET clients DEF SyncBroadcast
    <3> QED
      BY <1>4, <3>1, <3>2
  <2>2. /\ npc[n] \in {"broadcast", "syncBroadcast"} /\ nev' = nev /\ recent' = recent
        /\ \A m \in Notifier \ {n} : npc'[m] = npc[m]
    BY <1>0, <1>4 DEF NotifyBroadcast, SyncBroadcast, TypeOK
  <2>3. nev[n] \in Events
    BY <1>0, <2>2 DEF Notifies
  <2>4. ASSUME NEW r \in Stream PROVE /\ Ids(queue[r]) \subseteq Ids(queue'[r])
                                      /\ r \in S => nev[n].id \in Ids(queue'[r])
    <3>1. queue[r] \in Seq(Events)
      BY <1>0 DEF TypeOK
    <3>2. Ids(Append(queue[r], nev[n])) = Ids(queue[r]) \cup {nev[n].id}
      BY <2>3, <3>1, IdsAppended
    <3>3. queue'[r] = IF r \in S THEN Append(queue[r], nev[n]) ELSE queue[r]
      BY <2>1 DEF Put
    <3> QED
      BY <3>2, <3>3
  <2>5. ASSUME NEW r \in Resuming', NEW e \in ToSet(recent'),
               e.id > from[r], e.type # "sync", ~Waiting(e)'
        PROVE  Covered(r, e.id)'
    <3>1. r \in Resuming /\ r \in Stream /\ r \in clients' /\ e \in ToSet(recent)
      BY <1>0, <2>2, <2>5 DEF Resuming, TypeOK
    <3>2. CASE Waiting(e)
      <4>1. npc[n] = "broadcast" /\ nev[n] = e
        BY <2>2, <2>5, <3>2 DEF Waiting
      <4> QED
        BY <2>1, <2>4, <3>1, <4>1 DEF Covered
    <3>3. CASE ~Waiting(e)
      <4>1. Covered(r, e.id)
        BY <2>5, <3>1, <3>3 DEF Gapless
      <4> QED
        BY <1>0, <2>4, <3>1, <4>1 DEF Covered
    <3> QED
      BY <3>2, <3>3
  <2> QED
    BY <1>0, <2>5 DEF Gapless
<1> QED
  BY <1>2, <1>3, <1>4 DEF NotifyWork

(* A client that connects has no news on its stream yet, and one that      *)
(* drops expects none.                                                     *)
LEMMA ConnectionDelivers ==
  ASSUME Base, News, Gapless, NEW s \in Stream, Drop(s) \/ \E c \in Client : Open(c, s)
  PROVE  News' /\ Gapless'
<1>0. TypeOK /\ Streams
  BY DEF Base
<1>1. CASE Drop(s)
  <2>1. /\ conn' \subseteq conn /\ Resuming' \subseteq Resuming
        /\ UNCHANGED <<latest, queue, pending, standsFor, backlog, from, seen, owner, recent,
                       npc, nev>>
    BY <1>1 DEF Drop, hubVars, notifyVars, clientVars, Resuming
  <2> QED
    BY <2>1 DEF News, NewsOf, LastQueued, NoneQueued, Gapless, Covered, Waiting
<1>2. ASSUME NEW c \in Client, Open(c, s) PROVE News' /\ Gapless'
  <2>1. /\ conn' = conn \cup {s} /\ s \notin conn
        /\ \A r \in Stream \ {s} : owner'[r] = owner[r] /\ from'[r] = from[r] /\ spc'[r] = spc[r]
        /\ spc'[s] = "register" /\ latest'[s] = [ty \in Types |-> 0]
        /\ UNCHANGED <<latest, queue, pending, standsFor, backlog, seen, recent, npc, nev, clients>>
    BY <1>0, <1>2 DEF TypeOK, Streams, Open, Goto, hubVars, notifyVars, clientVars
  <2>2. NewsOf(s)'
    BY <2>1 DEF NewsOf
  <2>3. ASSUME NEW r \in conn PROVE NewsOf(r)'
    <3>1. owner'[r] = owner[r] /\ NewsOf(r)
      BY <1>0, <2>1 DEF TypeOK, News
    <3> QED
      BY <2>1, <3>1 DEF NewsOf, LastQueued, NoneQueued
  <2>4. News'
    BY <2>1, <2>2, <2>3 DEF News
  <2>5. \A r \in Resuming' : r \in Resuming /\ r \in Stream /\ r # s
    BY <1>0, <2>1 DEF TypeOK, Resuming, Live
  <2>6. Gapless'
    BY <2>1, <2>5 DEF Gapless, Covered, Waiting
  <2> QED
    BY <2>4, <2>6
<1> QED
  BY <1>1, <1>2

(* At the beginning there is nothing to deliver.                           *)
LEMMA DeliveryStart == Init => Delivery
<1> SUFFICES ASSUME Init PROVE Delivery
  OBVIOUS
<1>1. TypeOK
  BY HubAssumption DEF Init, TypeOK, NotifySteps, StreamSteps
<1>2. Notifies /\ Streams /\ News /\ Gapless
  BY DEF Init, Notifies, Streams, News, Gapless, Resuming
<1> QED
  BY <1>1, <1>2 DEF Delivery

(* Nothing is lost between the buffer, the queues and the clients.         *)
THEOREM NothingLost == Spec => []Delivery
<1>1. IInv /\ Delivery /\ [Next]_vars => Delivery'
  <2> SUFFICES ASSUME IInv, Delivery, [Next]_vars PROVE Delivery'
    OBVIOUS
  <2>0. Base /\ News /\ Gapless
    BY DEF Delivery, Base
  <2>1. ASSUME NEW n \in Notifier,
               NotifyWork(n) \/ \E ty \in EventType : NotifyBegin(n, ty)
        PROVE  Delivery'
    BY <2>0, <2>1, NotifyBase, NotifyNews, NotifyGapless DEF Delivery, Base
  <2>2. ASSUME NEW s \in Stream, StreamWork(s) PROVE Delivery'
    BY <2>0, <2>2, StreamBase, NewsNext, GaplessNext DEF Delivery, Base
  <2>3. ASSUME NEW s \in Stream, Drop(s) \/ \E c \in Client : Open(c, s)
        PROVE  Delivery'
    BY <2>0, <2>3, ConnectionBase, ConnectionDelivers DEF Delivery, Base
  <2>4. CASE UNCHANGED vars
    <3>1. Base'
      BY <2>0, <2>4 DEF vars, hubVars, notifyVars, streamVars, clientVars, Base, TypeOK,
         Notifies, Streams
    <3>2. News' /\ Gapless'
      BY <2>0, <2>4 DEF vars, hubVars, notifyVars, streamVars, clientVars, News, NewsOf,
         LastQueued, NoneQueued, Gapless, Resuming, Covered, Waiting
    <3> QED
      BY <3>1, <3>2 DEF Delivery, Base
  <2> QED
    BY <2>1, <2>2, <2>3, <2>4 DEF Next
<1> QED
  BY DeliveryStart, <1>1, Invariance, PTL DEF Spec

(* Every variable of the hub keeps to its type, the buffer and the queues  *)
(* to their sizes, and the ids to their bound.                             *)
THEOREM HubTypes == Spec => []TypeOK
<1>1. Delivery => TypeOK
  BY DEF Delivery
<1> QED
  BY <1>1, NothingLost, PTL

(* Of each type, the last event put on the queue of a connected client is  *)
(* read by it or still on its way, whatever was coalesced.                 *)
THEOREM LatestIsKept == Spec => []LatestKept
<1>1. Delivery => LatestKept
  <2> SUFFICES ASSUME Delivery, NEW s \in conn, NEW ty \in Types, latest[s][ty] # 0
               PROVE  \/ latest[s][ty] \in seen[owner[s]] \cup Ids(queue[s])
                      \/ pending[s] # NoEvent /\ pending[s].id = latest[s][ty]
    BY DEF LatestKept
  <2>1. TypeOK /\ NewsOf(s)
    BY DEF Delivery, News
  <2>2. queue[s] \in Seq(Events) /\ latest[s][ty] \in 1..MaxId
    BY <2>1 DEF TypeOK
  <2>3. CASE LastQueued(s, ty)
    <3>1. PICK k \in DOMAIN queue[s] : queue[s][k] = Event(latest[s][ty], ty)
      BY <2>3 DEF LastQueued
    <3>2. queue[s][k].id \in Ids(queue[s])
      BY DEF Ids, ToSet
    <3> QED
      BY <2>2, <3>1, <3>2, EventFields
  <2>4. CASE pending[s] = Event(latest[s][ty], ty)
    BY <2>2, <2>4, EventFields
  <2> QED
    BY <2>1, <2>3, <2>4 DEF NewsOf
<1> QED
  BY <1>1, NothingLost, PTL

(* A client that resumes gets every buffered event behind its id, from the *)
(* replay or from its queue.                                               *)
THEOREM ResumesCompletely == Spec => []ResumeIsComplete
<1>1. Delivery => ResumeIsComplete
  <2>1. ASSUME Gapless PROVE ResumeIsComplete
    <3>1. \A e : Waiting(e) => InFlight(e)
      BY DEF Waiting, InFlight
    <3>2. Resumed \subseteq Resuming
      BY DEF Resumed, Resuming
    <3> QED
      BY <2>1, <3>1, <3>2 DEF Gapless, ResumeIsComplete
  <2> QED
    BY <2>1 DEF Delivery
<1> QED
  BY <1>1, NothingLost, PTL
=============================================================================
