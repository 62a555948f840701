---------------------------- MODULE RateLimiter -----------------------------
(***************************************************************************)
(* How many requests of a client are let through (modules/rate_limiter.py).*)
(* auth.py limits the guesses of the PIN with it, and api.py everything    *)
(* that changes state.  A client, the address the request comes from, may  *)
(* send MaxAttempts requests in a window, which begins with the first one  *)
(* after the window before has ended; a refusal says in how many seconds   *)
(* to come back.  The requests are handled by threads: each reads the      *)
(* clock and then waits for the lock, so they may be checked in another    *)
(* order than they came.                                                   *)
(*                                                                         *)
(* Time is counted in ticks, Unit of them to the second, so that a request *)
(* may fall within a second.                                               *)
(***************************************************************************)
EXTENDS Integers, FiniteSetsExt, Functions

CONSTANTS
  Client,       \* the clients
  Checker,      \* the threads that check a request
  MaxAttempts,  \* max_attempts
  Window,       \* window_seconds, in ticks
  EvictAfter,   \* evict_after, in ticks
  Unit,         \* ticks in a second
  MaxLag,       \* bound: ticks between reading the clock and the lock
  MaxTime       \* bound: ticks of a run

ASSUME LimiterAssumption ==
  /\ {MaxAttempts, Window, Unit} \subseteq Nat \ {0}
  /\ {MaxLag, MaxTime} \subseteq Nat
  /\ EvictAfter \in Nat /\ EvictAfter >= Window + MaxLag

VARIABLES
  now,       \* time.monotonic()
  counts,    \* self._counts: for some clients, [count, start]
  asking,    \* what each thread checks: the client, and its reading of now
  passed,    \* history: requests let through, by client and reading, since
             \* the client was reset; those no longer in a window are dropped
  promised   \* history: when the client was told to come back

limiterVars == <<now, counts, asking, passed, promised>>

Time == 0..MaxTime
Resting == [key |-> {}, at |-> 0]
NonePassed == [at \in Time |-> 0]
Never == MaxTime + 1

LimiterInit ==
  /\ now = 0
  /\ counts = << >>
  /\ asking = [t \in Checker |-> Resting]
  /\ passed = [k \in Client |-> NonePassed]
  /\ promised = [k \in Client |-> Never]

-----------------------------------------------------------------------------
(* Mutant: an entry is evicted as soon as half its window is over.         *)
StaleEarly(k, at) == 2 * (at - counts[k].start) > Window

(* An entry is old enough to be evicted, whoever it belongs to.            *)
Stale(k, at) == at - counts[k].start > EvictAfter

(* Mutant: what is left of the window, without the second that the         *)
(* rounding takes.                                                         *)
RetryAfterShort(elapsed) == (Window - elapsed) \div Unit

(* The seconds a refused client is told to wait.                           *)
RetryAfter(elapsed) == (Window - elapsed) \div Unit + 1

(* A request comes, and its thread reads the clock.                        *)
Arrives(t, k) ==
  /\ asking[t] = Resting
  /\ asking' = [asking EXCEPT ![t] = [key |-> {k}, at |-> now]]
  /\ UNCHANGED <<now, counts, passed, promised>>

(* check() with the lock held: old entries are evicted, and the request is *)
(* the first of a window or one more of it.  How far the count is beyond   *)
(* the limit makes no difference.                                          *)
Checked(t) ==
  /\ asking' = [asking EXCEPT ![t] = Resting]
  /\ UNCHANGED now
  /\ \E k \in asking[t].key :
       LET at == asking[t].at
           kept == Restrict(counts, {j \in DOMAIN counts : ~Stale(j, at)})
           begins == k \notin DOMAIN kept \/ at - kept[k].start > Window
           entry == IF begins THEN [count |-> 1, start |-> at]
                    ELSE [kept[k] EXCEPT !.count = Min({@, MaxAttempts}) + 1]
       IN  /\ counts' = [j \in DOMAIN kept \cup {k} |->
                           IF j = k THEN entry ELSE kept[j]]
           /\ IF entry.count <= MaxAttempts
              THEN /\ passed' = [passed EXCEPT ![k][at] = @ + 1]
                   /\ promised' = IF begins
                                  THEN [promised EXCEPT ![k] = Never]
                                  ELSE promised
              ELSE /\ promised' = [promised EXCEPT ![k] =
                        Min({@, at + Unit * RetryAfter(at - entry.start)})]
                   /\ UNCHANGED passed

(* reset(), after the right PIN.                                           *)
Forget(k) ==
  /\ k \in DOMAIN counts
  /\ counts' = Restrict(counts, DOMAIN counts \ {k})
  /\ passed' = [passed EXCEPT ![k] = NonePassed]
  /\ promised' = [promised EXCEPT ![k] = Never]
  /\ UNCHANGED <<now, asking>>

(* The clock goes on, and what passed before any window that matters is    *)
(* dropped from the history.                                               *)
Tick ==
  /\ now < MaxTime
  /\ \A t \in Checker : asking[t] # Resting => now - asking[t].at < MaxLag
  /\ now' = now + 1
  /\ passed' = [k \in Client |-> [at \in Time |->
                  IF at < now' - Window THEN 0 ELSE passed[k][at]]]
  /\ UNCHANGED <<counts, asking, promised>>

LimiterNext ==
  \/ Tick
  \/ \E k \in Client : Forget(k)
  \/ \E t \in Checker : Checked(t) \/ \E k \in Client : Arrives(t, k)

LimiterSpec == LimiterInit /\ [][LimiterNext]_limiterVars

-----------------------------------------------------------------------------
(* No window begins in the future, and each has had a request.             *)
LimiterTypeOK ==
  /\ now \in Time
  /\ DOMAIN counts \subseteq Client
  /\ \A k \in DOMAIN counts : /\ counts[k].count \in 1..(MaxAttempts + 1)
                              /\ counts[k].start \in 0..now
  /\ asking \in [Checker -> [key : SUBSET Client, at : 0..now]]
  /\ passed \in [Client -> [Time -> Nat]]
  /\ promised \in [Client -> Nat]

(* The requests of a client let through from one moment on, as long as a   *)
(* window lasts, but for the time that a thread waits for the lock.        *)
PassedFrom(k, first) ==
  MapThenSumSet(LAMBDA at : passed[k][at],
                Time \cap (first..(first + Window - MaxLag)))

(* Wherever a window's length is laid, no more than two windows' requests  *)
(* are let through, however threads overtake each other and whoever evicts *)
(* whose entry.                                                            *)
TwiceAtMost ==
  \A k \in Client, first \in Time : PassedFrom(k, first) <= 2 * MaxAttempts

(* "retry_after field indicates wait time in seconds" (API.md): a request  *)
(* that comes when its client was told to come back is let through, unless *)
(* another began a window since.                                           *)
RetryAfterHolds ==
  [][\A t \in Checker : \A k \in asking[t].key :
       asking'[t] = Resting /\ asking[t].at >= promised[k]
         => passed' # passed]_limiterVars

=============================================================================
