--------------------------- MODULE ServerThreads ----------------------------
(***************************************************************************)
(* The threads of the web server (gunicorn.conf.py: one worker, gthread).  *)
(* A connection waits in line until a thread is free.  A thread that       *)
(* serves an ordinary request comes back in the end; one that serves an    *)
(* upload first waits for the body, which may never come; one that serves  *)
(* an event stream (GET /api/events) runs subscribe() until a write fails  *)
(* because the client has gone.  Streams beyond _MAX_CLIENTS are refused,  *)
(* which takes a thread as well.                                           *)
(***************************************************************************)
EXTENDS Naturals, FiniteSets, Sequences, SequencesExt

CONSTANTS
  Conn,       \* the connections that clients may have at a time
  Wanted,      \* what clients ask for
  Threads,    \* the numbers of threads GUNICORN_THREADS may give the worker
  MaxClients  \* _MAX_CLIENTS

ASSUME ThreadsAssumption ==
  /\ Wanted \subseteq {"request", "upload", "stream"}
  /\ Threads \cup {MaxClients} \subseteq Nat \ {0}

VARIABLES
  threads,  \* threads of the worker
  kind,     \* what each connection asks for, "none" if it is not in use
  there,    \* the connections whose client has not gone
  line,     \* those accepted that no thread serves yet, in order
  served,   \* those that threads serve
  greeted   \* the streams that have got their first event

threadsVars == <<threads, kind, there, line, served, greeted>>

ThreadsInit ==
  /\ threads \in Threads
  /\ kind = [c \in Conn |-> "none"]
  /\ there = {} /\ line = <<>> /\ served = {} /\ greeted = {}

Streams == {c \in served : kind[c] = "stream"}

-----------------------------------------------------------------------------
(* A client connects: the TV has two streams, of DisplayRouter and         *)
(* Slideshow, and the pages of the phone one each.                         *)
Connect(c, what) ==
  /\ kind[c] = "none"
  /\ kind' = [kind EXCEPT ![c] = what]
  /\ there' = there \cup {c}
  /\ line' = Append(line, c)
  /\ UNCHANGED <<threads, served, greeted>>

(* It closes the connection.                                               *)
Disconnect(c) ==
  /\ c \in there
  /\ there' = there \ {c}
  /\ UNCHANGED <<threads, kind, line, served, greeted>>

(* A free thread takes the first in line.                                  *)
Take ==
  /\ line # <<>> /\ Cardinality(served) < threads
  /\ served' = served \cup {Head(line)}
  /\ line' = Tail(line)
  /\ UNCHANGED <<threads, kind, there, greeted>>

Closed(c) ==
  /\ kind' = [kind EXCEPT ![c] = "none"]
  /\ there' = there \ {c}
  /\ greeted' = greeted \ {c}
  /\ UNCHANGED <<threads, line>>

(* The body of an upload is there (request.files).                         *)
Receive(c) ==
  /\ c \in served \cap there /\ kind[c] = "upload"
  /\ kind' = [kind EXCEPT ![c] = "request"]
  /\ UNCHANGED <<threads, there, line, served, greeted>>

(* A request is answered.                                                  *)
Answer(c) ==
  /\ c \in served /\ kind[c] = "request"
  /\ served' = served \ {c}
  /\ Closed(c)

(* len(_clients) >= _MAX_CLIENTS                                           *)
Full == Cardinality(greeted) >= MaxClients

(* subscribe() sends the first event, or refuses the stream.               *)
Greet(c) ==
  /\ c \in Streams \ greeted
  /\ IF Full
     THEN served' = served \ {c} /\ Closed(c)
     ELSE greeted' = greeted \cup {c} /\ UNCHANGED <<threads, kind, there, line, served>>

(* Mutant: without keepalives, nothing is written until an event comes.    *)
WritesNot(c) == FALSE

(* What a stream writes while nothing happens: a keepalive and a heartbeat *)
(* at every _KEEPALIVE_INTERVAL.                                           *)
Writes(c) == c \in greeted

(* The client has gone, so the next write of its stream fails and the      *)
(* generator ends; so does the read of its upload.                         *)
Notice(c) ==
  /\ c \in served \ there
  /\ Writes(c) \/ kind[c] = "upload"
  /\ served' = served \ {c}
  /\ Closed(c)

ThreadsNext ==
  \/ Take
  \/ \E c \in Conn : \/ \E what \in Wanted : Connect(c, what)
                     \/ Disconnect(c) \/ Receive(c) \/ Answer(c) \/ Greet(c) \/ Notice(c)

ThreadsSpec == ThreadsInit /\ [][ThreadsNext]_threadsVars

-----------------------------------------------------------------------------
(* A thread serves one connection, and _MAX_CLIENTS streams at most run.   *)
ThreadsTypeOK ==
  /\ threads \in Threads
  /\ kind \in [Conn -> Wanted \cup {"request", "none"}]
  /\ there \subseteq Conn
  /\ line \in Seq(Conn) /\ Len(line) <= Cardinality(Conn)
  /\ served \subseteq Conn /\ Cardinality(served) <= threads
  /\ greeted \subseteq Streams /\ Cardinality(greeted) <= MaxClients

(* The streams and the unfinished uploads of clients that are still there  *)
(* hold a thread each.                                                     *)
Held == Cardinality({c \in served \cap there : kind[c] # "request"})

(* Whoever waits in line gets a thread, as long as again and again some    *)
(* thread is not held by an open stream or an unfinished upload: clients   *)
(* that go, and streams that are refused, hold up nobody for ever.         *)
LineMoves ==
  \A c \in Conn : []<>(Held < threads) /\ []<>(c \in ToSet(line))
                    => []<>(c \notin ToSet(line))

=============================================================================
