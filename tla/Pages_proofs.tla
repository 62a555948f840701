---------------------------- MODULE Pages_proofs ----------------------------
(***************************************************************************)
(* What the pages keep, for any photos, users, texts, batches and          *)
(* networks, and any number of requests that are answered in any order or  *)
(* never.  Each page has an inductive invariant of its own, with its       *)
(* lemmas: XStart for the initial states, XStep for the steps and XTold    *)
(* for what it implies; the last section puts the pages side by side, as   *)
(* Pages does.                                                             *)
(***************************************************************************)
EXTENDS Pages, FiniteSetTheorems, WellFoundedInduction, TLAPS

(***************************************************************************)
(* The requests of a page, whatever they carry.                            *)
(***************************************************************************)
(* At most one request of a kind is under way.                             *)
Single(calls, kind) ==
  \A m, k \in Slot : calls[m].do = kind /\ calls[k].do = kind => m = k

(* Where there is room there is a free slot.                               *)
LEMMA FreeSlot ==
  ASSUME NEW calls, Room(calls, 1)
  PROVE  \E k \in Slot : calls[k] = Idle
<1> DEFINE free == {n \in Slot : calls[n] = Idle}
<1>1. CASE free = {}
  <2>1. Cardinality(free) = 0
    BY <1>1, FS_EmptySet
  <2> QED
    BY <2>1 DEF Room
<1>2. CASE free # {}
  BY <1>2
<1> QED
  BY <1>1, <1>2

(* A request is sent in a free slot, and the others stay as they are.      *)
LEMMA Sending ==
  ASSUME NEW calls, NEW call, \E k \in Slot : calls[k] = Idle
  PROVE  \E k \in Slot : /\ calls[k] = Idle /\ \A m \in Slot : m < k => calls[m] # Idle
                         /\ Send(calls, call) = [calls EXCEPT ![k] = call]
<1> DEFINE free == {n \in Slot : calls[n] = Idle}
           Less == OpToRel(<, Nat)
<1>1. free \subseteq Nat /\ free # {}
  BY CallsAssumption DEF Slot
<1>2. IsWellFoundedOn(Less, Nat) /\ \A c, b \in Nat : c < b => <<c, b>> \in Less
  BY NatLessThanWellFounded DEF OpToRel
<1> HIDE DEF Less, free
<1>3. PICK b \in free : \A c \in free : ~ (<<c, b>> \in Less)
  <2>1. IsWellFoundedOn(Less, Nat)
    BY <1>2
  <2> QED
    BY <1>1, <2>1, WFMin
<1>4. \A c \in free : b <= c
  <2>1. \A c \in free : ~ (c < b)
    BY <1>1, <1>2, <1>3
  <2> QED
    BY <1>1, <2>1
<1> DEFINE k == CHOOSE n \in free : \A m \in free : n <= m
<1>5. k \in free /\ \A m \in free : k <= m
  BY <1>4
<1>6. Send(calls, call) = [calls EXCEPT ![k] = call]
  BY DEF Send, free
<1> HIDE DEF k
<1>7. \A m \in Slot : m < k => m \notin free
  <2>1. \A m \in Slot : m \in Nat
    BY CallsAssumption DEF Slot
  <2>2. k \in Nat
    BY <1>1, <1>5
  <2> QED
    BY <1>5, <2>1, <2>2
<1> QED
  BY <1>5, <1>6, <1>7 DEF free

(* What is over leaves its slot, and the others keep theirs or move up.    *)
LEMMA Leaving ==
  ASSUME NEW calls, NEW n \in Slot
  PROVE  /\ \A m \in Slot : Over(calls, n)[m] = Idle
                            \/ \E k \in Slot \ {n} : Over(calls, n)[m] = calls[k]
         /\ \A k \in Slot \ {n} : \E m \in Slot : Over(calls, n)[m] = calls[k]
<1>1. MaxCalls \in Nat \ {0} /\ n \in 1..MaxCalls
  BY CallsAssumption DEF Slot
<1>2. ASSUME NEW m \in Slot
      PROVE  Over(calls, n)[m] = Idle
             \/ \E k \in Slot \ {n} : Over(calls, n)[m] = calls[k]
  <2>1. CASE m < n
    BY <1>1, <2>1 DEF Over, Slot
  <2>2. CASE ~(m < n) /\ m < MaxCalls
    <3>1. m + 1 \in Slot \ {n}
      BY <1>1, <2>2 DEF Slot
    <3> QED
      BY <2>2, <3>1 DEF Over
  <2>3. CASE ~(m < n) /\ ~(m < MaxCalls)
    BY <2>3 DEF Over
  <2> QED
    BY <2>1, <2>2, <2>3
<1>3. ASSUME NEW k \in Slot \ {n}
      PROVE  \E m \in Slot : Over(calls, n)[m] = calls[k]
  <2>1. CASE k < n
    BY <1>1, <2>1 DEF Over, Slot
  <2>2. CASE ~(k < n)
    <3>1. k - 1 \in Slot /\ ~(k - 1 < n) /\ k - 1 < MaxCalls /\ (k - 1) + 1 = k
      BY <1>1, <2>2 DEF Slot
    <3> QED
      BY <3>1 DEF Over
  <2> QED
    BY <2>1, <2>2
<1> QED
  BY <1>2, <1>3

(* No request has a free slot before it.                                   *)
Packed(calls) == \A m, k \in Slot : m < k /\ calls[k] # Idle => calls[m] # Idle

(* What was behind another request is behind it still.                     *)
LEMMA Following ==
  ASSUME NEW calls, NEW n \in Slot, NEW m \in Slot, Over(calls, n)[m] # Idle
  PROVE  \E k \in Slot \ {n} :
            /\ Over(calls, n)[m] = calls[k]
            /\ \A i \in Slot \ {n} : i > k => \E j \in Slot : j > m /\ Over(calls, n)[j] = calls[i]
            /\ \A j \in Slot : j < m => \E i \in Slot : i < k /\ Over(calls, n)[j] = calls[i]
<1>1. MaxCalls \in Nat \ {0} /\ n \in 1..MaxCalls /\ m \in 1..MaxCalls
  BY CallsAssumption DEF Slot
<1>2. \A i \in Slot : i < n => Over(calls, n)[i] = calls[i]
  BY DEF Over
<1>3. \A i \in Slot : i > n => i - 1 \in Slot /\ Over(calls, n)[i - 1] = calls[i]
  BY <1>1 DEF Over, Slot
<1>4. CASE m < n
  <2>1. Over(calls, n)[m] = calls[m] /\ m \in Slot \ {n}
    BY <1>1, <1>2, <1>4 DEF Slot
  <2>2. ASSUME NEW i \in Slot \ {n}, i > m
        PROVE  \E j \in Slot : j > m /\ Over(calls, n)[j] = calls[i]
    <3>1. CASE i < n
      BY <1>2, <2>2, <3>1
    <3>2. CASE i > n
      <4>1. i - 1 > m
        BY <1>1, <1>4, <3>2 DEF Slot
      <4> QED
        BY <1>3, <3>2, <4>1
    <3> QED
      BY <1>1, <2>2, <3>1, <3>2 DEF Slot
  <2>3. ASSUME NEW j \in Slot, j < m
        PROVE  \E i \in Slot : i < m /\ Over(calls, n)[j] = calls[i]
    BY <1>1, <1>2, <1>4, <2>3 DEF Slot
  <2> QED
    BY <2>1, <2>2, <2>3
<1>5. CASE ~(m < n)
  <2>1. m < MaxCalls /\ m + 1 \in Slot \ {n} /\ Over(calls, n)[m] = calls[m + 1]
    BY <1>1, <1>5 DEF Over, Slot
  <2>2. ASSUME NEW i \in Slot \ {n}, i > m + 1
        PROVE  \E j \in Slot : j > m /\ Over(calls, n)[j] = calls[i]
    <3>1. i > n /\ i - 1 > m
      BY <1>1, <1>5, <2>2 DEF Slot
    <3> QED
      BY <1>3, <3>1
  <2>3. ASSUME NEW j \in Slot, j < m
        PROVE  \E i \in Slot : i < m + 1 /\ Over(calls, n)[j] = calls[i]
    <3>1. CASE j < n
      BY <1>1, <1>2, <2>3, <3>1 DEF Slot
    <3>2. CASE ~(j < n)
      <4>1. j + 1 \in Slot /\ j + 1 > n /\ (j + 1) - 1 = j /\ j + 1 < m + 1
        BY <1>1, <2>1, <2>3, <3>2 DEF Slot
      <4> QED
        BY <1>3, <4>1
    <3> QED
      BY <3>1, <3>2
  <2> QED
    BY <2>1, <2>2, <2>3
<1> QED
  BY <1>4, <1>5

(* When a request is over, or one is sent, there is still no free slot     *)
(* before any.                                                             *)
LEMMA PackedOver ==
  ASSUME NEW calls, NEW n \in Slot, Packed(calls)
  PROVE  Packed(Over(calls, n))
<1> SUFFICES ASSUME NEW m \in Slot, NEW j \in Slot, j < m, Over(calls, n)[m] # Idle
             PROVE  Over(calls, n)[j] # Idle
  BY DEF Packed
<1>1. PICK k \in Slot \ {n} :
         /\ Over(calls, n)[m] = calls[k]
         /\ \A l \in Slot : l < m => \E i \in Slot : i < k /\ Over(calls, n)[l] = calls[i]
  BY Following
<1>2. PICK i \in Slot : i < k /\ Over(calls, n)[j] = calls[i]
  BY <1>1
<1> QED
  BY <1>1, <1>2 DEF Packed

(* The same of one that is sent.                                           *)
LEMMA PackedSent ==
  ASSUME NEW C, NEW calls \in [Slot -> C], Packed(calls), NEW call,
         \E k \in Slot : calls[k] = Idle
  PROVE  Packed(Send(calls, call))
<1>1. PICK k \in Slot : /\ calls[k] = Idle /\ \A m \in Slot : m < k => calls[m] # Idle
                        /\ Send(calls, call) = [calls EXCEPT ![k] = call]
  BY Sending
<1> DEFINE later == Send(calls, call)
<1>2. later[k] = call /\ \A m \in Slot : m # k => later[m] = calls[m]
  BY <1>1
<1>3. \A m \in Slot : m > k => calls[m] = Idle
  BY <1>1 DEF Packed
<1> HIDE DEF later
<1>4. ASSUME NEW m \in Slot, NEW j \in Slot, m < j, later[j] # Idle PROVE later[m] # Idle
  <2>1. j <= k /\ m < k
    BY <1>2, <1>3, <1>4, CallsAssumption DEF Slot
  <2> QED
    BY <1>1, <1>2, <2>1
<1> QED
  BY <1>4 DEF Packed, later

(* One of a kind stays the only one, and leaves none behind.               *)
LEMMA SingleOver ==
  ASSUME NEW calls, NEW n \in Slot, NEW kind, kind # "idle", Single(calls, kind)
  PROVE  /\ Single(Over(calls, n), kind)
         /\ calls[n].do = kind => ~Busy(Over(calls, n), kind)
<1>1. MaxCalls \in Nat \ {0} /\ n \in 1..MaxCalls
  BY CallsAssumption DEF Slot
<1> DEFINE Moved(m) == IF m < n THEN m ELSE m + 1
<1>2. ASSUME NEW m \in Slot, Over(calls, n)[m].do = kind
      PROVE  Moved(m) \in Slot \ {n} /\ Over(calls, n)[m] = calls[Moved(m)]
  <2>1. CASE m < n
    BY <1>1, <2>1 DEF Over, Slot
  <2>2. CASE ~(m < n) /\ m < MaxCalls
    <3>1. m + 1 \in Slot \ {n}
      BY <1>1, <2>2 DEF Slot
    <3> QED
      BY <2>2, <3>1 DEF Over
  <2>3. CASE ~(m < n) /\ ~(m < MaxCalls)
    <3>1. Over(calls, n)[m] = Idle
      BY <2>3 DEF Over
    <3> QED
      BY <1>2, <3>1 DEF Idle
  <2> QED
    BY <2>1, <2>2, <2>3
<1>3. Single(Over(calls, n), kind)
  <2> SUFFICES ASSUME NEW m \in Slot, NEW k \in Slot,
                      Over(calls, n)[m].do = kind, Over(calls, n)[k].do = kind
               PROVE  m = k
    BY DEF Single
  <2>1. Moved(m) = Moved(k)
    <3>1. Moved(m) \in Slot /\ calls[Moved(m)].do = kind
      BY <1>2
    <3>2. Moved(k) \in Slot /\ calls[Moved(k)].do = kind
      BY <1>2
    <3> HIDE DEF Moved
    <3> QED
      BY <3>1, <3>2 DEF Single
  <2> QED
    BY <1>1, <2>1 DEF Slot
<1>4. ASSUME calls[n].do = kind, Busy(Over(calls, n), kind) PROVE FALSE
  <2>1. PICK m \in Slot : Over(calls, n)[m].do = kind
    BY <1>4 DEF Busy
  <2>2. Moved(m) \in Slot \ {n} /\ calls[Moved(m)].do = kind
    BY <1>2, <2>1
  <2> HIDE DEF Moved
  <2> QED
    BY <1>4, <2>2 DEF Single
<1> QED
  BY <1>3, <1>4

(* What is over is no longer busy with; the rest is as busy as before.     *)
LEMMA BusyOver ==
  ASSUME NEW calls, NEW n \in Slot, NEW kind, kind # "idle", calls[n].do # kind
  PROVE  Busy(Over(calls, n), kind) = Busy(calls, kind)
<1>1. ASSUME Busy(calls, kind) PROVE Busy(Over(calls, n), kind)
  <2>1. PICK k \in Slot : calls[k].do = kind
    BY <1>1 DEF Busy
  <2>2. k \in Slot \ {n}
    BY <2>1
  <2>3. PICK m \in Slot : Over(calls, n)[m] = calls[k]
    BY <2>2, Leaving
  <2> QED
    BY <2>1, <2>3 DEF Busy
<1>2. ASSUME Busy(Over(calls, n), kind) PROVE Busy(calls, kind)
  <2>1. PICK m \in Slot : Over(calls, n)[m].do = kind
    BY <1>2 DEF Busy
  <2>2. Over(calls, n)[m] # Idle
    BY <2>1 DEF Idle
  <2>3. PICK k \in Slot \ {n} : Over(calls, n)[m] = calls[k]
    BY <2>2, Leaving
  <2> QED
    BY <2>1, <2>3 DEF Busy
<1>3. Busy(Over(calls, n), kind) \in BOOLEAN /\ Busy(calls, kind) \in BOOLEAN
  BY DEF Busy
<1> QED
  BY <1>1, <1>2, <1>3

(* What is sent is under way from then on, next to the rest.               *)
LEMMA BusySent ==
  ASSUME NEW C, NEW calls \in [Slot -> C], NEW call, \E k \in Slot : calls[k] = Idle,
         NEW kind, kind # "idle"
  PROVE  /\ call.do = kind => Busy(Send(calls, call), kind)
         /\ call.do # kind => Busy(Send(calls, call), kind) = Busy(calls, kind)
         /\ call.do # kind /\ Single(calls, kind) => Single(Send(calls, call), kind)
         /\ ~Busy(calls, kind) => Single(Send(calls, call), kind)
<1>1. PICK k \in Slot : calls[k] = Idle /\ Send(calls, call) = [calls EXCEPT ![k] = call]
  BY Sending
<1> DEFINE later == Send(calls, call)
<1>2. later[k] = call /\ \A m \in Slot : m # k => later[m] = calls[m]
  BY <1>1
<1>3. calls[k].do # kind
  BY <1>1 DEF Idle
<1> HIDE DEF later
<1>4. call.do = kind => Busy(later, kind)
  BY <1>2 DEF Busy
<1>5. ASSUME call.do # kind PROVE Busy(later, kind) = Busy(calls, kind)
  <2>1. \A m \in Slot : (later[m].do = kind) = (calls[m].do = kind)
    BY <1>2, <1>3, <1>5
  <2> QED
    BY <2>1 DEF Busy
<1>6. ASSUME call.do # kind, Single(calls, kind) PROVE Single(later, kind)
  BY <1>2, <1>3, <1>6 DEF Single
<1>7. ASSUME ~Busy(calls, kind) PROVE Single(later, kind)
  BY <1>2, <1>3, <1>7 DEF Single, Busy
<1> QED
  BY <1>4, <1>5, <1>6, <1>7 DEF later

(* The table of requests keeps whatever set the requests are taken from.   *)
LEMMA CallsKept ==
  ASSUME NEW C, Idle \in C, NEW calls \in [Slot -> C], NEW call \in C, NEW n \in Slot
  PROVE  Send(calls, call) \in [Slot -> C] /\ Over(calls, n) \in [Slot -> C]
<1>1. Send(calls, call) \in [Slot -> C]
  BY DEF Send
<1>2. MaxCalls \in Nat \ {0} /\ n \in 1..MaxCalls
  BY CallsAssumption DEF Slot
<1>3. \A m \in Slot : m < MaxCalls => m + 1 \in Slot
  BY <1>2 DEF Slot
<1>4. \A m \in Slot : Over(calls, n)[m] \in C
  BY <1>3 DEF Over
<1> QED
  BY <1>1, <1>4 DEF Over

-----------------------------------------------------------------------------
(***************************************************************************)
(* The albums (Albums).                                                    *)
(***************************************************************************)
(* The requests of the albums page, and those that leave album a alone or  *)
(* bring photos of it.                                                     *)
AlbumCall ==
  {Idle} \cup [do : {"photos", "favorite", "remove", "delete"}, of : Album]
         \cup [do : {"create"}]
Bringing(a) ==
  {call \in AlbumCall : call.do \in {"photos", "remove"} => call.of = a}

(* One creation and one deletion are under way at most.                    *)
AlbumRequests ==
  /\ albumCalls \in [Slot -> AlbumCall]
  /\ Single(albumCalls, "create") /\ Single(albumCalls, "delete")

(* The dialog is about the album shown.                                    *)
DialogOfShown == deleteTarget # NoAlbum => deleteTarget = selectedAlbum

(* Unless photos were on their way when the album was opened, whatever     *)
(* arrives is of it.                                                       *)
OnlyOfShown ==
  selectedAlbum # NoAlbum /\ ~crossed =>
    /\ albumCalls \in [Slot -> Bringing(selectedAlbum)]
    /\ albumPhotosLoading \/ albumPhotos \in {selectedAlbum, NoAlbum}

AlbumInv == AlbumsTypeOK /\ AlbumRequests /\ DialogOfShown /\ OnlyOfShown

-----------------------------------------------------------------------------
(* The albums page begins with nothing shown and nothing asked.            *)
LEMMA AlbumStart == AlbumsInit => AlbumInv
<1> SUFFICES ASSUME AlbumsInit PROVE AlbumInv
  OBVIOUS
<1>1. \A n \in Slot : albumCalls[n] = Idle
  BY DEF AlbumsInit, Quiet
<1>2. albumCalls \in [Slot -> AlbumCall]
  BY DEF AlbumsInit, Quiet, AlbumCall
<1>3. ~Busy(albumCalls, "create") /\ ~Busy(albumCalls, "delete")
  BY <1>1 DEF Busy, Idle
<1>4. AlbumsTypeOK
  <2>1. creating = Busy(albumCalls, "create") /\ deleting = Busy(albumCalls, "delete")
    BY <1>3 DEF AlbumsInit, Busy
  <2> QED
    BY <2>1 DEF AlbumsInit, AlbumsTypeOK
<1>5. AlbumRequests
  BY <1>1, <1>2 DEF AlbumRequests, Single, Idle
<1> QED
  BY <1>4, <1>5 DEF AlbumsInit, AlbumInv, DialogOfShown, OnlyOfShown

(* What a request that is sent leaves of the others.                       *)
LEMMA AlbumSent ==
  ASSUME NEW calls \in [Slot -> AlbumCall], NEW call \in AlbumCall, call.do # "idle",
         \E k \in Slot : calls[k] = Idle
  PROVE  /\ Send(calls, call) \in [Slot -> AlbumCall]
         /\ \A a : calls \in [Slot -> Bringing(a)] /\ call \in Bringing(a)
                   => Send(calls, call) \in [Slot -> Bringing(a)]
         /\ \A kind \in {"photos", "create", "delete"} :
              /\ call.do = kind => Busy(Send(calls, call), kind)
              /\ call.do # kind => Busy(Send(calls, call), kind) = Busy(calls, kind)
              /\ call.do # kind /\ Single(calls, kind) => Single(Send(calls, call), kind)
              /\ ~Busy(calls, kind) => Single(Send(calls, call), kind)
<1>1. 1 \in Slot
  BY CallsAssumption DEF Slot
<1>2. Idle \in AlbumCall /\ \A a : Idle \in Bringing(a)
  BY DEF AlbumCall, Bringing, Idle
<1>3. Send(calls, call) \in [Slot -> AlbumCall]
  BY <1>1, <1>2, CallsKept
<1>4. ASSUME NEW a, calls \in [Slot -> Bringing(a)], call \in Bringing(a)
      PROVE  Send(calls, call) \in [Slot -> Bringing(a)]
  BY <1>1, <1>2, <1>4, CallsKept
<1>5. ASSUME NEW kind \in {"photos", "create", "delete"}
      PROVE  /\ call.do = kind => Busy(Send(calls, call), kind)
             /\ call.do # kind => Busy(Send(calls, call), kind) = Busy(calls, kind)
             /\ call.do # kind /\ Single(calls, kind) => Single(Send(calls, call), kind)
             /\ ~Busy(calls, kind) => Single(Send(calls, call), kind)
  <2>1. kind # "idle"
    OBVIOUS
  <2> QED
    BY <2>1, BusySent
<1> QED
  BY <1>3, <1>4, <1>5

(* What a request that is over leaves of the others.                       *)
LEMMA AlbumOver ==
  ASSUME NEW calls \in [Slot -> AlbumCall], NEW n \in Slot
  PROVE  /\ Over(calls, n) \in [Slot -> AlbumCall]
         /\ \A a : calls \in [Slot -> Bringing(a)] => Over(calls, n) \in [Slot -> Bringing(a)]
         /\ \A kind \in {"photos", "create", "delete"} :
              /\ calls[n].do # kind => Busy(Over(calls, n), kind) = Busy(calls, kind)
              /\ Single(calls, kind) => Single(Over(calls, n), kind)
              /\ Single(calls, kind) /\ calls[n].do = kind => ~Busy(Over(calls, n), kind)
         /\ calls[n] # Idle => \E k \in Slot : Over(calls, n)[k] = Idle
<1>1. Idle \in AlbumCall /\ \A a : Idle \in Bringing(a)
  BY DEF AlbumCall, Bringing, Idle
<1>2. Over(calls, n) \in [Slot -> AlbumCall]
  BY <1>1, CallsKept
<1>3. ASSUME NEW a, calls \in [Slot -> Bringing(a)]
      PROVE  Over(calls, n) \in [Slot -> Bringing(a)]
  BY <1>1, <1>3, CallsKept
<1>4. ASSUME NEW kind \in {"photos", "create", "delete"}
      PROVE  /\ calls[n].do # kind => Busy(Over(calls, n), kind) = Busy(calls, kind)
             /\ Single(calls, kind) => Single(Over(calls, n), kind)
             /\ Single(calls, kind) /\ calls[n].do = kind => ~Busy(Over(calls, n), kind)
  <2>1. kind # "idle"
    OBVIOUS
  <2> QED
    BY <2>1, BusyOver, SingleOver
<1>5. Over(calls, n)[MaxCalls] = Idle /\ MaxCalls \in Slot
  BY CallsAssumption DEF Over, Slot
<1> QED
  BY <1>2, <1>3, <1>4, <1>5

-----------------------------------------------------------------------------
(* Every step of the albums page keeps the invariant.                      *)
LEMMA AlbumStep == AlbumInv /\ [AlbumsNext]_albumVars => AlbumInv'
<1> SUFFICES ASSUME AlbumInv, [AlbumsNext]_albumVars PROVE AlbumInv'
  OBVIOUS
<1> USE DEF AlbumInv
<1>1. albumCalls \in [Slot -> AlbumCall]
  BY DEF AlbumRequests
<1>2. ASSUME UNCHANGED albumCalls PROVE AlbumRequests'
  BY <1>2 DEF AlbumRequests, Single
<1>3. CASE AlbumsAnswered
  <2>1. AlbumsTypeOK'
    BY <1>3 DEF AlbumsAnswered, AlbumsTypeOK, detailVars, createVars, deleteVars, Busy
  <2> QED
    BY <1>2, <1>3, <2>1 DEF AlbumsAnswered, detailVars, createVars, deleteVars,
       DialogOfShown, OnlyOfShown
<1>4. CASE BackToAlbums
  <2>1. AlbumsTypeOK'
    BY <1>4 DEF BackToAlbums, AlbumsTypeOK, createVars, deleteVars, Busy
  <2> QED
    BY <1>2, <1>4, <2>1 DEF BackToAlbums, createVars, deleteVars, DialogOfShown, OnlyOfShown
<1>5. ASSUME NEW k \in {"favorite", "remove"}, AskFor(k) PROVE AlbumInv'
  <2> DEFINE call == [do |-> k, of |-> selectedAlbum]
  <2>1. call \in AlbumCall /\ call.do = k /\ call.of = selectedAlbum
    BY <1>5 DEF AskFor, AlbumCall, AlbumsTypeOK
  <2>2. call \in Bringing(selectedAlbum)
    BY <2>1 DEF Bringing
  <2>3. \E i \in Slot : albumCalls[i] = Idle
    BY <1>5, FreeSlot DEF AskFor
  <2>4. albumCalls' = Send(albumCalls, call)
        /\ UNCHANGED <<albums, detailVars, createVars, deleteVars>>
    BY <1>5 DEF AskFor
  <2> HIDE DEF call
  <2>5. AlbumRequests'
    BY <1>1, <2>1, <2>3, <2>4, AlbumSent DEF AlbumRequests
  <2>6. /\ Busy(albumCalls', "photos") = Busy(albumCalls, "photos")
        /\ Busy(albumCalls', "create") = Busy(albumCalls, "create")
        /\ Busy(albumCalls', "delete") = Busy(albumCalls, "delete")
    BY <1>1, <2>1, <2>3, <2>4, AlbumSent
  <2>7. AlbumsTypeOK'
    BY <2>4, <2>6 DEF AlbumsTypeOK, detailVars, createVars, deleteVars
  <2>8. OnlyOfShown'
    BY <1>1, <2>1, <2>2, <2>3, <2>4, AlbumSent DEF OnlyOfShown, detailVars
  <2> QED
    BY <2>4, <2>5, <2>7, <2>8 DEF DialogOfShown, detailVars, deleteVars
<1>6. CASE AskDelete
  <2>1. AlbumsTypeOK'
    BY <1>6 DEF AskDelete, AlbumsTypeOK, detailVars, createVars, Busy
  <2> QED
    BY <1>2, <1>6, <2>1 DEF AskDelete, detailVars, createVars, DialogOfShown, OnlyOfShown
<1>7. CASE CancelDelete
  <2>1. AlbumsTypeOK'
    BY <1>7 DEF CancelDelete, AlbumsTypeOK, detailVars, createVars, Busy
  <2> QED
    BY <1>2, <1>7, <2>1 DEF CancelDelete, detailVars, createVars, DialogOfShown, OnlyOfShown
<1>8. CASE ConfirmDelete
  <2> DEFINE call == [do |-> "delete", of |-> deleteTarget]
  <2>1. call \in AlbumCall /\ call.do = "delete"
    BY <1>8 DEF ConfirmDelete, AlbumCall, AlbumsTypeOK
  <2>2. \A a : call \in Bringing(a)
    BY <2>1 DEF Bringing
  <2>3. \E i \in Slot : albumCalls[i] = Idle
    BY <1>8, FreeSlot DEF ConfirmDelete
  <2>4. albumCalls' = Send(albumCalls, call) /\ deleting' = TRUE /\ ~deleting
        /\ UNCHANGED <<albums, detailVars, createVars, deleteTarget>>
    BY <1>8 DEF ConfirmDelete
  <2> HIDE DEF call
  <2>5. AlbumRequests'
    BY <1>1, <2>1, <2>3, <2>4, AlbumSent DEF AlbumRequests, AlbumsTypeOK
  <2>6. /\ Busy(albumCalls', "photos") = Busy(albumCalls, "photos")
        /\ Busy(albumCalls', "create") = Busy(albumCalls, "create")
        /\ Busy(albumCalls', "delete")
    BY <1>1, <2>1, <2>3, <2>4, AlbumSent
  <2>7. AlbumsTypeOK'
    <3>1. deleting' = Busy(albumCalls', "delete")
      BY <2>4, <2>6 DEF Busy
    <3> QED
      BY <2>4, <2>6, <3>1 DEF AlbumsTypeOK, detailVars, createVars
  <2>8. OnlyOfShown'
    BY <1>1, <2>1, <2>2, <2>3, <2>4, AlbumSent DEF OnlyOfShown, detailVars
  <2> QED
    BY <2>4, <2>5, <2>7, <2>8 DEF DialogOfShown, detailVars
<1>9. CASE OpenCreate
  <2>1. AlbumsTypeOK'
    BY <1>9 DEF OpenCreate, AlbumsTypeOK, detailVars, deleteVars, Busy
  <2> QED
    BY <1>2, <1>9, <2>1 DEF OpenCreate, detailVars, deleteVars, DialogOfShown, OnlyOfShown
<1>10. CASE CloseCreate
  <2>1. AlbumsTypeOK'
    BY <1>10 DEF CloseCreate, AlbumsTypeOK, detailVars, deleteVars, Busy
  <2> QED
    BY <1>2, <1>10, <2>1 DEF CloseCreate, detailVars, deleteVars, DialogOfShown, OnlyOfShown
<1>11. CASE CreateAlbum
  <2> DEFINE call == [do |-> "create"]
  <2>1. call \in AlbumCall /\ call.do = "create"
    BY DEF AlbumCall
  <2>3. \E i \in Slot : albumCalls[i] = Idle
    BY <1>11, FreeSlot DEF CreateAlbum
  <2>4. albumCalls' = Send(albumCalls, call) /\ creating' = TRUE /\ ~creating
        /\ selectedAlbum = NoAlbum
        /\ UNCHANGED <<albums, detailVars, createOpen, deleteVars>>
    BY <1>11 DEF CreateAlbum
  <2> HIDE DEF call
  <2>5. AlbumRequests'
    BY <1>1, <2>1, <2>3, <2>4, AlbumSent DEF AlbumRequests, AlbumsTypeOK
  <2>6. /\ Busy(albumCalls', "photos") = Busy(albumCalls, "photos")
        /\ Busy(albumCalls', "delete") = Busy(albumCalls, "delete")
        /\ Busy(albumCalls', "create")
    BY <1>1, <2>1, <2>3, <2>4, AlbumSent
  <2>7. AlbumsTypeOK'
    <3>1. creating' = Busy(albumCalls', "create")
      BY <2>4, <2>6 DEF Busy
    <3> QED
      BY <2>4, <2>6, <3>1 DEF AlbumsTypeOK, detailVars, deleteVars
  <2> QED
    BY <2>4, <2>5, <2>7 DEF DialogOfShown, OnlyOfShown, detailVars, deleteVars
<1>12. ASSUME NEW a \in Album, OpenAlbum(a) PROVE AlbumInv'
  <2> DEFINE call == [do |-> "photos", of |-> a]
  <2>1. call \in AlbumCall /\ call.do = "photos" /\ call \in Bringing(a)
    BY DEF AlbumCall, Bringing
  <2>2. \E i \in Slot : albumCalls[i] = Idle
    BY <1>12, FreeSlot DEF OpenAlbum
  <2>3. /\ albumCalls' = Send(albumCalls, call) /\ albumPhotosLoading' = TRUE
        /\ selectedAlbum = NoAlbum /\ selectedAlbum' = a
        /\ UNCHANGED <<albums, albumPhotos, createVars, deleteVars>>
    BY <1>12 DEF OpenAlbum, fetchAlbumPhotos
  <2>4. crossed' = (Busy(albumCalls, "photos") \/ Busy(albumCalls, "remove"))
    BY <1>12 DEF OpenAlbum
  <2> HIDE DEF call
  <2>5. AlbumRequests'
    BY <1>1, <2>1, <2>2, <2>3, AlbumSent DEF AlbumRequests
  <2>6. /\ Busy(albumCalls', "create") = Busy(albumCalls, "create")
        /\ Busy(albumCalls', "delete") = Busy(albumCalls, "delete")
        /\ Busy(albumCalls', "photos")
    BY <1>1, <2>1, <2>2, <2>3, AlbumSent
  <2>7. AlbumsTypeOK'
    <3>1. crossed' \in BOOLEAN
      BY <2>4 DEF Busy
    <3> QED
      BY <2>3, <2>6, <3>1 DEF AlbumsTypeOK, createVars, deleteVars
  <2>8. OnlyOfShown'
    <3>1. ASSUME ~crossed' PROVE albumCalls \in [Slot -> Bringing(a)]
      BY <1>1, <2>4, <3>1 DEF Busy, Bringing
    <3> QED
      BY <1>1, <2>1, <2>2, <2>3, <3>1, AlbumSent DEF OnlyOfShown
  <2> QED
    BY <2>3, <2>5, <2>7, <2>8 DEF DialogOfShown, deleteVars
<1>13. ASSUME NEW n \in Slot, PhotosAnswered(n) PROVE AlbumInv'
  <2> DEFINE call == albumCalls[n]
  <2>1. call \in AlbumCall /\ call.do = "photos" /\ call.of \in Album
    BY <1>1, <1>13 DEF PhotosAnswered, AlbumCall, Idle
  <2>4. /\ albumCalls' = Over(albumCalls, n) /\ albumPhotosLoading' = FALSE
        /\ albumPhotos' \in {call.of, NoAlbum}
        /\ UNCHANGED <<albums, selectedAlbum, crossed, createVars, deleteVars>>
    BY <1>13 DEF PhotosAnswered, Arrived
  <2>5. AlbumRequests'
    BY <1>1, <2>4, AlbumOver DEF AlbumRequests
  <2>6. /\ Busy(albumCalls', "create") = Busy(albumCalls, "create")
        /\ Busy(albumCalls', "delete") = Busy(albumCalls, "delete")
    BY <1>1, <2>1, <2>4, AlbumOver
  <2>7. AlbumsTypeOK'
    BY <2>1, <2>4, <2>6 DEF AlbumsTypeOK, createVars, deleteVars
  <2>8. OnlyOfShown'
    <3>1. ASSUME albumCalls \in [Slot -> Bringing(selectedAlbum)]
          PROVE  call.of = selectedAlbum
      BY <2>1, <3>1 DEF Bringing
    <3> QED
      BY <1>1, <2>4, <3>1, AlbumOver DEF OnlyOfShown
  <2> QED
    BY <2>4, <2>5, <2>7, <2>8 DEF DialogOfShown, deleteVars
<1>14. ASSUME NEW n \in Slot, ChangeAnswered(n) PROVE AlbumInv'
  <2> DEFINE a == IF albumCalls[n].do = "remove" THEN albumCalls[n].of ELSE selectedAlbum
             calls == Over(albumCalls, n)
  <2>1. albumCalls[n].do \in {"favorite", "remove"} /\ albumCalls[n].of \in Album
        /\ albumCalls[n] # Idle
    BY <1>1, <1>14 DEF ChangeAnswered, AlbumCall, Idle
  <2>2. /\ calls \in [Slot -> AlbumCall]
        /\ Single(calls, "create") /\ Single(calls, "delete")
        /\ \A kind \in {"photos", "create", "delete"} :
             Busy(calls, kind) = Busy(albumCalls, kind)
        /\ \E k \in Slot : calls[k] = Idle
    BY <1>1, <2>1, AlbumOver DEF AlbumRequests
  <2>3. \A b : albumCalls \in [Slot -> Bringing(b)] => calls \in [Slot -> Bringing(b)]
    BY <1>1, AlbumOver
  <2>4. UNCHANGED <<albums, selectedAlbum, albumPhotos, crossed, createVars, deleteVars>>
    BY <1>14 DEF ChangeAnswered
  <2>5. CASE a = NoAlbum
    <3>1. albumCalls' = calls /\ UNCHANGED albumPhotosLoading
      BY <1>14, <2>5 DEF ChangeAnswered
    <3> HIDE DEF calls, a
    <3>2. AlbumsTypeOK' /\ AlbumRequests'
      BY <2>2, <2>4, <3>1 DEF AlbumsTypeOK, AlbumRequests, createVars, deleteVars
    <3> QED
      BY <2>3, <2>4, <3>1, <3>2 DEF DialogOfShown, OnlyOfShown, deleteVars
  <2>6. CASE a # NoAlbum
    <3> DEFINE call == [do |-> "photos", of |-> a]
    <3>1. albumCalls' = Send(calls, call) /\ albumPhotosLoading' = TRUE
      BY <1>14, <2>6 DEF ChangeAnswered, fetchAlbumPhotos
    <3>2. call \in AlbumCall /\ call.do = "photos" /\ call \in Bringing(a)
      BY <2>1, <2>6 DEF AlbumCall, Bringing, AlbumsTypeOK
    <3>3. ASSUME albumCalls \in [Slot -> Bringing(selectedAlbum)] PROVE a = selectedAlbum
      BY <2>1, <3>3 DEF Bringing
    <3> HIDE DEF calls, a, call
    <3>4. AlbumRequests'
      BY <2>2, <3>1, <3>2, AlbumSent DEF AlbumRequests
    <3>5. /\ Busy(albumCalls', "create") = Busy(albumCalls, "create")
          /\ Busy(albumCalls', "delete") = Busy(albumCalls, "delete")
          /\ Busy(albumCalls', "photos")
      BY <2>2, <3>1, <3>2, AlbumSent
    <3>6. AlbumsTypeOK'
      BY <2>4, <3>1, <3>5 DEF AlbumsTypeOK, createVars, deleteVars
    <3>7. OnlyOfShown'
      BY <2>2, <2>3, <2>4, <3>1, <3>2, <3>3, AlbumSent DEF OnlyOfShown
    <3> QED
      BY <2>4, <3>4, <3>6, <3>7 DEF DialogOfShown, deleteVars
  <2> QED
    BY <2>5, <2>6
<1>15. ASSUME NEW n \in Slot, ChangeFails(n) PROVE AlbumInv'
  <2>1. /\ albumCalls' = Over(albumCalls, n) /\ albumCalls[n].do \in {"favorite", "remove"}
        /\ UNCHANGED <<albums, detailVars, createVars, deleteVars>>
    BY <1>15 DEF ChangeFails
  <2>2. AlbumRequests'
    BY <1>1, <2>1, AlbumOver DEF AlbumRequests
  <2>3. \A kind \in {"photos", "create", "delete"} :
          Busy(albumCalls', kind) = Busy(albumCalls, kind)
    BY <1>1, <2>1, AlbumOver
  <2>4. AlbumsTypeOK'
    BY <2>1, <2>3 DEF AlbumsTypeOK, detailVars, createVars, deleteVars
  <2>5. OnlyOfShown'
    BY <1>1, <2>1, AlbumOver DEF OnlyOfShown, detailVars
  <2> QED
    BY <2>1, <2>2, <2>4, <2>5 DEF DialogOfShown, detailVars, deleteVars
<1>16. ASSUME NEW n \in Slot, DeleteAnswered(n) \/ DeleteFails(n) PROVE AlbumInv'
  <2>1. /\ albumCalls' = Over(albumCalls, n) /\ albumCalls[n].do = "delete"
        /\ deleting' = FALSE
        /\ UNCHANGED <<albums, albumPhotosLoading, crossed, createVars>>
    BY <1>16 DEF DeleteAnswered, DeleteFails, detailVars
  <2>2. \/ deleteTarget' = NoAlbum /\ selectedAlbum' = NoAlbum /\ albumPhotos' = NoAlbum
        \/ deleteTarget' = NoAlbum /\ UNCHANGED <<selectedAlbum, albumPhotos>>
        \/ UNCHANGED <<deleteTarget, selectedAlbum, albumPhotos>>
    BY <1>16 DEF DeleteAnswered, DeleteFails, detailVars, TargetAfter
  <2>3. AlbumRequests'
    BY <1>1, <2>1, AlbumOver DEF AlbumRequests
  <2>4. /\ Busy(albumCalls', "photos") = Busy(albumCalls, "photos")
        /\ Busy(albumCalls', "create") = Busy(albumCalls, "create")
        /\ ~Busy(albumCalls', "delete")
    BY <1>1, <2>1, AlbumOver DEF AlbumRequests
  <2>5. AlbumsTypeOK'
    <3>1. deleting' = Busy(albumCalls', "delete")
      BY <2>1, <2>4 DEF Busy
    <3> QED
      BY <2>1, <2>2, <2>4, <3>1 DEF AlbumsTypeOK, createVars
  <2>6. OnlyOfShown'
    BY <1>1, <2>1, <2>2, AlbumOver DEF OnlyOfShown
  <2> QED
    BY <2>2, <2>3, <2>5, <2>6 DEF DialogOfShown
<1>17. ASSUME NEW n \in Slot, CreateAnswered(n) PROVE AlbumInv'
  <2>1. /\ albumCalls' = Over(albumCalls, n) /\ albumCalls[n].do = "create"
        /\ creating' = FALSE /\ createOpen' \in {FALSE, createOpen}
        /\ UNCHANGED <<albums, detailVars, deleteVars>>
    BY <1>17 DEF CreateAnswered
  <2>2. AlbumRequests'
    BY <1>1, <2>1, AlbumOver DEF AlbumRequests
  <2>3. /\ Busy(albumCalls', "photos") = Busy(albumCalls, "photos")
        /\ Busy(albumCalls', "delete") = Busy(albumCalls, "delete")
        /\ ~Busy(albumCalls', "create")
    BY <1>1, <2>1, AlbumOver DEF AlbumRequests
  <2>4. AlbumsTypeOK'
    <3>1. creating' = Busy(albumCalls', "create")
      BY <2>1, <2>3 DEF Busy
    <3>2. createOpen' \in BOOLEAN
      BY <2>1 DEF AlbumsTypeOK
    <3> QED
      BY <2>1, <2>3, <3>1, <3>2 DEF AlbumsTypeOK, detailVars, deleteVars
  <2>5. OnlyOfShown'
    BY <1>1, <2>1, AlbumOver DEF OnlyOfShown, detailVars
  <2> QED
    BY <2>1, <2>2, <2>4, <2>5 DEF DialogOfShown, detailVars, deleteVars
<1>18. CASE UNCHANGED albumVars
  <2>1. AlbumsTypeOK'
    BY <1>18 DEF albumVars, AlbumsTypeOK, Busy
  <2> QED
    BY <1>2, <1>18, <2>1 DEF albumVars, DialogOfShown, OnlyOfShown
<1>19. CASE ToggleFavorite \/ RemoveFromAlbum
  BY <1>5, <1>19 DEF ToggleFavorite, RemoveFromAlbum
<1> QED
  BY <1>3, <1>4, <1>6, <1>7, <1>8, <1>9, <1>10, <1>11, <1>12, <1>13, <1>14, <1>15,
     <1>16, <1>17, <1>18, <1>19 DEF AlbumsNext

(* The invariant of the albums page tells what is asked of it.             *)
LEMMA AlbumTold == AlbumInv => RightAlbum
BY DEF AlbumInv, DialogOfShown, OnlyOfShown, RightAlbum

-----------------------------------------------------------------------------
(***************************************************************************)
(* The search (SearchModal).                                               *)
(***************************************************************************)
(* A search that is under way, and whether it is the last one.             *)
Searching == [do : Query, last : BOOLEAN]
IsLast(call) == call # Idle /\ call.last

(* The requests of the overlay, and those of which the last is for text q. *)
SearchCall == {Idle} \cup Searching
LastFor(q) == {call \in SearchCall : IsLast(call) => call.do = q}

(* The timer that is running will send the text of the box.                *)
TimerOfText == searchQuery # None /\ debounce # Off => debounce = searchQuery

(* Once it has fired the last search is for this text; its answer is to    *)
(* come, or is shown, or something else is to blame.                       *)
LastOfText ==
  searchQuery # None /\ debounce = Off =>
    /\ searches \in [Slot -> LastFor(searchQuery)]
    /\ \/ \E n \in Slot : IsLast(searches[n])
       \/ searchError \/ overtaken \/ searchResults = searchQuery

SearchInv ==
  /\ SearchTypeOK /\ searches \in [Slot -> SearchCall]
  /\ TimerOfText /\ LastOfText

-----------------------------------------------------------------------------
(* No search is idle.                                                      *)
LEMMA SearchIsNotIdle == \A call \in Searching : call # Idle
<1> SUFFICES ASSUME NEW call \in Searching, call = Idle PROVE FALSE
  OBVIOUS
<1>1. DOMAIN call = {"do", "last"}
  BY DEF Searching
<1>2. DOMAIN Idle = {"do"}
  BY DEF Idle
<1> QED
  BY <1>1, <1>2

(* The type of the requests, slot by slot, as the type invariant has it.   *)
LEMMA SearchKinds ==
  ASSUME NEW calls \in [Slot -> SearchCall]
  PROVE  \A n \in Slot : calls[n].do \in Query \cup {"idle"}
BY DEF SearchCall, Searching, Idle

(* What the searches under way are once they are no longer the last.       *)
LEMMA Aged ==
  ASSUME searches \in [Slot -> SearchCall]
  PROVE  /\ Older \in [Slot -> SearchCall]
         /\ \A q : Older \in [Slot -> LastFor(q)]
         /\ \A n \in Slot : (Older[n] = Idle) = (searches[n] = Idle)
         /\ \A n \in Slot : ~IsLast(Older[n])
<1>1. ASSUME NEW n \in Slot
      PROVE  /\ Older[n] \in SearchCall /\ (Older[n] = Idle) = (searches[n] = Idle)
             /\ ~IsLast(Older[n])
  <2>1. CASE searches[n] = Idle
    BY <2>1 DEF Older, SearchCall, IsLast
  <2>2. CASE searches[n] # Idle
    <3>1. searches[n] \in Searching
      BY <2>2 DEF SearchCall
    <3> DEFINE old == [searches[n] EXCEPT !.last = FALSE]
    <3>2. Older[n] = old
      BY <2>2 DEF Older
    <3>3. old \in Searching /\ old.last = FALSE
      BY <3>1 DEF Searching
    <3>4. old # Idle
      BY <3>3, SearchIsNotIdle
    <3> HIDE DEF old
    <3> QED
      BY <2>2, <3>2, <3>3, <3>4 DEF SearchCall, IsLast
  <2> QED
    BY <2>1, <2>2
<1>2. Older = [n \in Slot |-> Older[n]]
  BY DEF Older
<1>3. Older \in [Slot -> SearchCall]
  BY <1>1, <1>2
<1>4. ASSUME NEW q PROVE Older \in [Slot -> LastFor(q)]
  BY <1>1, <1>2 DEF LastFor
<1> QED
  BY <1>1, <1>3, <1>4

(* What an answered search leaves of the others.                           *)
LEMMA SearchOver ==
  ASSUME searches \in [Slot -> SearchCall], NEW n \in Slot
  PROVE  /\ Over(searches, n) \in [Slot -> SearchCall]
         /\ \A q : searches \in [Slot -> LastFor(q)] => Over(searches, n) \in [Slot -> LastFor(q)]
         /\ \A k \in Slot : IsLast(searches[k]) /\ k # n
                            => \E m \in Slot : IsLast(Over(searches, n)[m])
<1>1. Idle \in SearchCall /\ \A q : Idle \in LastFor(q)
  BY DEF SearchCall, LastFor, IsLast
<1>2. Over(searches, n) \in [Slot -> SearchCall]
  BY <1>1, CallsKept
<1>3. ASSUME NEW q, searches \in [Slot -> LastFor(q)]
      PROVE  Over(searches, n) \in [Slot -> LastFor(q)]
  BY <1>1, <1>3, CallsKept
<1>4. ASSUME NEW k \in Slot, IsLast(searches[k]), k # n
      PROVE  \E m \in Slot : IsLast(Over(searches, n)[m])
  <2>1. PICK m \in Slot : Over(searches, n)[m] = searches[k]
    BY <1>4, Leaving
  <2> QED
    BY <1>4, <2>1
<1> QED
  BY <1>2, <1>3, <1>4

-----------------------------------------------------------------------------
(* The overlay begins closed, with nothing asked.                          *)
LEMMA SearchStart == SearchInit => SearchInv
<1> SUFFICES ASSUME SearchInit PROVE SearchInv
  OBVIOUS
<1>1. searches \in [Slot -> SearchCall]
  BY DEF SearchInit, Quiet, SearchCall
<1>2. SearchTypeOK
  <2>1. \A n \in Slot : searches[n].do \in Query \cup {"idle"}
    BY <1>1, SearchKinds
  <2>2. searchOpen \in BOOLEAN /\ searchLoading \in BOOLEAN
        /\ searchError \in BOOLEAN /\ overtaken \in BOOLEAN
    BY DEF SearchInit
  <2> QED
    BY <2>1, <2>2 DEF SearchInit, SearchTypeOK
<1> QED
  BY <1>1, <1>2 DEF SearchInit, SearchInv, TimerOfText, LastOfText

(* Every step of the overlay keeps the invariant.                          *)
LEMMA SearchStep == SearchInv /\ [SearchNext]_searchVars => SearchInv'
<1> SUFFICES ASSUME SearchInv, [SearchNext]_searchVars PROVE SearchInv'
  OBVIOUS
<1> USE DEF SearchInv
<1>1. CASE openSearch
  <2>1. searchOpen' \in BOOLEAN
    BY <1>1 DEF openSearch
  <2> QED
    BY <1>1, <2>1 DEF openSearch, SearchTypeOK, TimerOfText, LastOfText
<1>2. CASE closeSearch
  <2>1. searchOpen' \in BOOLEAN /\ searchLoading' \in BOOLEAN
    BY <1>2 DEF closeSearch
  <2> QED
    BY <1>2, <2>1 DEF closeSearch, SearchTypeOK, TimerOfText, LastOfText
<1>3. CASE doSearch
  <2>1. searchError' \in BOOLEAN /\ overtaken' \in BOOLEAN /\ searchLoading' \in BOOLEAN
    BY <1>3 DEF doSearch, Ask
  <2>2. CASE debounce = None
    <3>1. searchQuery = None /\ searches' = Older /\ searchResults' = None /\ debounce' = Off
          /\ UNCHANGED <<searchOpen, searchQuery>>
      BY <1>3, <2>2, SearchAssumption DEF doSearch, TimerOfText, None, Off
    <3>2. searches' \in [Slot -> SearchCall]
      BY <3>1, Aged
    <3>3. SearchTypeOK'
      BY <2>1, <3>1, <3>2, SearchKinds DEF SearchTypeOK
    <3> QED
      BY <3>1, <3>2, <3>3 DEF TimerOfText, LastOfText
  <2>3. CASE debounce # None
    <3> DEFINE call == [do |-> debounce, last |-> TRUE]
    <3>1. /\ searches' = Send(Older, call) /\ debounce' = Off
          /\ UNCHANGED <<searchOpen, searchQuery, searchResults>>
      BY <1>3, <2>3 DEF doSearch, Ask
    <3>2. call \in Searching /\ call.do = debounce /\ IsLast(call)
      <4>1. debounce \in Query
        BY <1>3, <2>3 DEF doSearch, SearchTypeOK
      <4>2. call \in Searching
        BY <4>1 DEF Searching
      <4>3. call # Idle
        BY <4>2, SearchIsNotIdle
      <4> QED
        BY <4>2, <4>3 DEF IsLast
    <3> HIDE DEF call
    <3>3. Older \in [Slot -> SearchCall] /\ \A q : Older \in [Slot -> LastFor(q)]
      BY Aged
    <3>4. \E k \in Slot : Older[k] = Idle
      BY <1>3, Aged, FreeSlot DEF doSearch
    <3>5. PICK k \in Slot : searches' = [Older EXCEPT ![k] = call]
      BY <3>1, <3>4, Sending
    <3>6. searches' \in [Slot -> SearchCall] /\ IsLast(searches'[k])
      BY <3>2, <3>3, <3>5 DEF SearchCall
    <3>7. SearchTypeOK'
      BY <2>1, <3>1, <3>6, SearchKinds DEF SearchTypeOK
    <3>8. searchQuery # None => searches' \in [Slot -> LastFor(searchQuery)]
      <4>1. CASE searchQuery # None
        <5>1. call \in LastFor(searchQuery)
          BY <1>3, <3>2, <4>1 DEF doSearch, TimerOfText, LastFor, SearchCall
        <5> QED
          BY <3>3, <3>5, <5>1
      <4> QED
        BY <4>1
    <3> QED
      BY <3>1, <3>6, <3>7, <3>8 DEF TimerOfText, LastOfText
  <2> QED
    BY <2>2, <2>3
<1>4. ASSUME NEW q \in Query \cup {None}, handleInput(q) PROVE SearchInv'
  <2>1. q # Off
    BY SearchAssumption DEF None, Off
  <2> QED
    BY <1>4, <2>1 DEF handleInput, SearchTypeOK, TimerOfText, LastOfText
<1>5. ASSUME NEW n \in Slot, SearchAnswered(n) PROVE SearchInv'
  <2>1. /\ searches' = Over(searches, n) /\ searchResults' = searches[n].do
        /\ searches[n] \in Searching
        /\ UNCHANGED <<searchOpen, searchQuery, searchError, debounce>>
    BY <1>5 DEF SearchAnswered, SearchCall
  <2>2. searchLoading' \in BOOLEAN /\ overtaken' \in BOOLEAN
    BY <1>5 DEF SearchAnswered
  <2>3. searches' \in [Slot -> SearchCall]
    BY <2>1, SearchOver
  <2>4. SearchTypeOK'
    <3>1. searches[n].do \in Query
      BY <2>1 DEF Searching
    <3> QED
      BY <2>1, <2>2, <2>3, <3>1, SearchKinds DEF SearchTypeOK
  <2>5. LastOfText'
    <3> SUFFICES ASSUME searchQuery # None, debounce = Off PROVE LastOfText'
      BY <2>1 DEF LastOfText
    <3>1. searches' \in [Slot -> LastFor(searchQuery)]
      BY <2>1, SearchOver DEF LastOfText
    <3>2. CASE IsLast(searches[n])
      <4>1. searchResults' = searchQuery
        BY <2>1, <3>2 DEF LastOfText, LastFor
      <4> QED
        BY <2>1, <3>1, <4>1 DEF LastOfText
    <3>3. ASSUME NEW k \in Slot, IsLast(searches[k]), ~IsLast(searches[n]) PROVE LastOfText'
      <4>1. \E m \in Slot : IsLast(searches'[m])
        BY <2>1, <3>3, SearchOver
      <4> QED
        BY <2>1, <3>1, <4>1 DEF LastOfText
    <3>4. CASE \A k \in Slot : ~IsLast(searches[k])
      <4>1. overtaken'
        BY <1>5, <3>4 DEF SearchAnswered, IsLast
      <4> QED
        BY <2>1, <3>1, <4>1 DEF LastOfText
    <3> QED
      BY <3>2, <3>3, <3>4
  <2> QED
    BY <2>1, <2>3, <2>4, <2>5 DEF TimerOfText
<1>6. ASSUME NEW n \in Slot, SearchFails(n) PROVE SearchInv'
  <2>1. /\ searches' = Over(searches, n) /\ searchError'
        /\ UNCHANGED <<searchOpen, searchQuery, searchResults, debounce, overtaken>>
    BY <1>6 DEF SearchFails, AfterFault
  <2>2. searchLoading' \in BOOLEAN /\ searchError' \in BOOLEAN
    BY <1>6 DEF SearchFails, AfterFault
  <2>3. searches' \in [Slot -> SearchCall]
    BY <2>1, SearchOver
  <2>4. SearchTypeOK'
    BY <2>1, <2>2, <2>3, SearchKinds DEF SearchTypeOK
  <2>5. LastOfText'
    BY <2>1, SearchOver DEF LastOfText
  <2> QED
    BY <2>1, <2>3, <2>4, <2>5 DEF TimerOfText
<1>7. CASE UNCHANGED searchVars
  BY <1>7 DEF searchVars, SearchTypeOK, TimerOfText, LastOfText
<1> QED
  BY <1>1, <1>2, <1>3, <1>4, <1>5, <1>6, <1>7 DEF SearchNext

(* With nothing under way the results are those of the text.               *)
LEMMA SearchTold == SearchInv => ResultsOfTheText
BY DEF SearchInv, LastOfText, ResultsOfTheText, Quiet, IsLast

-----------------------------------------------------------------------------
(***************************************************************************)
(* The gallery and its lightbox (Gallery).                                 *)
(***************************************************************************)
(* The requests of the pictures' page, and those whose photos the user     *)
(* agreed to delete.                                                       *)
GalleryCall ==
  {Idle} \cup [do : {"batch"}, at : {"sent", "handled"}, ids : SUBSET Photo]
         \cup [do : TagKinds, at : {"waiting", "sent"}, ids : {{p} : p \in Photo}]
Within(S) == {call \in GalleryCall : call.do = "batch" => call.ids \subseteq S}

(* Request n for tags is sent and no fetch of a new photo's is behind it;  *)
(* all these are about photo p.                                            *)
Lasting(calls, n) ==
  /\ calls[n].do \in TagKinds /\ calls[n].at = "sent"
  /\ \A m \in Slot : m > n => calls[m].do # "tags"
LastOf(calls, p) == \A n \in Slot : Lasting(calls, n) => calls[n].ids = {p}

Lightbox == [is : {"box"}, in : SUBSET Photo, photo : Photo, pending : Photo \cup {0}]

(* What is shown, and the press on a card that is there.                   *)
Shown ==
  /\ requests \in [Slot -> GalleryCall] /\ Packed(requests)
  /\ over \in {Bare} \cup Lightbox
  /\ finger \in [card : Photo \cup {0}, timer : BOOLEAN, selectable : BOOLEAN,
                 there : BOOLEAN, held : BOOLEAN]
  /\ finger.timer => finger.card \in Photo
  /\ finger.there => finger.card \in list

(* What is asked to be deleted has been agreed to.                         *)
Agreed == ~astray /\ requests \in [Slot -> Within(agreed)]

(* The last tags on their way are those of the photo in the lightbox, and  *)
(* so are those shown once the first fetch of this photo has been answered.*)
TagsFollow ==
  over.is = "box" /\ ~mixed =>
    /\ LastOf(requests, over.photo)
    /\ Busy(requests, "tags") \/ tagsOf \in {0, over.photo}

GalleryInv == GalleryTypeOK /\ Shown /\ Agreed /\ TagsFollow

-----------------------------------------------------------------------------
(* A set of photos that is not empty has a first one.                      *)
LEMMA FirstPhoto ==
  ASSUME NEW S \in SUBSET Photo, S # {}
  PROVE  (CHOOSE q \in S : \A r \in S : q <= r) \in S
<1> DEFINE Less == OpToRel(<, Nat)
<1>1. S \subseteq Nat
  BY GalleryAssumption
<1>2. IsWellFoundedOn(Less, Nat) /\ \A c, b \in Nat : c < b => <<c, b>> \in Less
  BY NatLessThanWellFounded DEF OpToRel
<1> HIDE DEF Less
<1>3. PICK b \in S : \A c \in S : ~ (<<c, b>> \in Less)
  <2>1. IsWellFoundedOn(Less, Nat)
    BY <1>2
  <2> QED
    BY <1>1, <2>1, WFMin
<1>4. \A c \in S : ~ (c < b)
  BY <1>1, <1>2, <1>3
<1>5. \A c \in S : b <= c
  BY <1>1, <1>4
<1> QED
  BY <1>5

(* When a request is over, the last ones stay so, unless it was a fetch    *)
(* that overtook one of them.                                              *)
LEMMA LastOver ==
  ASSUME NEW calls, NEW n \in Slot, NEW p, LastOf(calls, p),
         \/ calls[n].do # "tags"
         \/ \A m \in Slot : m < n => ~(calls[m].do \in TagKinds /\ calls[m].at = "sent")
  PROVE  LastOf(Over(calls, n), p)
<1> DEFINE later == Over(calls, n)
<1> SUFFICES ASSUME NEW m \in Slot, Lasting(later, m) PROVE later[m].ids = {p}
  BY DEF LastOf
<1>1. later[m] # Idle
  BY DEF Lasting, Idle, TagKinds
<1>2. PICK k \in Slot \ {n} :
         /\ later[m] = calls[k]
         /\ \A i \in Slot \ {n} : i > k => \E j \in Slot : j > m /\ later[j] = calls[i]
  BY <1>1, Following
<1>3. calls[k].do \in TagKinds /\ calls[k].at = "sent"
  BY <1>2 DEF Lasting
<1>4. ASSUME NEW i \in Slot, i > k PROVE calls[i].do # "tags"
  <2>1. CASE i = n
    BY <1>3, <1>4, <2>1, CallsAssumption DEF Slot
  <2>2. CASE i # n
    <3>1. PICK j \in Slot : j > m /\ later[j] = calls[i]
      BY <1>2, <1>4, <2>2
    <3> QED
      BY <3>1 DEF Lasting
  <2> QED
    BY <2>1, <2>2
<1>5. Lasting(calls, k)
  BY <1>3, <1>4 DEF Lasting
<1> QED
  BY <1>2, <1>5 DEF LastOf

(* A fetch that is sent is the last; another request changes nothing if it *)
(* is about the same photo.                                                *)
LEMMA LastSent ==
  ASSUME NEW C, NEW calls \in [Slot -> C], Packed(calls), NEW call, NEW p,
         \E k \in Slot : calls[k] = Idle,
         \/ call.do = "tags" /\ call.ids = {p}
         \/ /\ call.do # "tags" /\ LastOf(calls, p)
            /\ call.do \in TagKinds /\ call.at = "sent" => call.ids = {p}
  PROVE  LastOf(Send(calls, call), p)
<1>1. PICK k \in Slot : calls[k] = Idle /\ Send(calls, call) = [calls EXCEPT ![k] = call]
  BY Sending
<1> DEFINE later == Send(calls, call)
<1>2. later[k] = call /\ \A m \in Slot : m # k => later[m] = calls[m]
  BY <1>1
<1>3. \A m \in Slot : m > k => calls[m] = Idle
  BY <1>1 DEF Packed
<1> HIDE DEF later
<1>4. Idle.do = "idle"
  BY DEF Idle
<1>5. ASSUME NEW n \in Slot, Lasting(later, n) PROVE later[n].ids = {p}
  <2>1. CASE n = k
    BY <1>2, <1>5, <2>1 DEF Lasting
  <2>2. CASE n # k /\ call.do = "tags"
    <3>1. ~(k > n)
      BY <1>2, <1>5, <2>2 DEF Lasting
    <3>2. n > k
      BY <2>2, <3>1, CallsAssumption DEF Slot
    <3>3. later[n] = Idle
      BY <1>2, <1>3, <2>2, <3>2
    <3> QED
      BY <1>4, <1>5, <3>3 DEF Lasting, TagKinds
  <2>3. CASE n # k /\ call.do # "tags"
    <3>1. \A m \in Slot : m > n => calls[m].do # "tags"
      BY <1>1, <1>2, <1>4, <1>5 DEF Lasting
    <3>2. Lasting(calls, n)
      BY <1>2, <1>5, <2>3, <3>1 DEF Lasting
    <3> QED
      BY <1>2, <2>3, <3>2 DEF LastOf
  <2> QED
    BY <2>1, <2>2, <2>3
<1> QED
  BY <1>5 DEF LastOf, later

(* What a request that is sent leaves of the others.                       *)
LEMMA GallerySent ==
  ASSUME NEW calls \in [Slot -> GalleryCall], Packed(calls), NEW call \in GalleryCall,
         \E k \in Slot : calls[k] = Idle
  PROVE  /\ Send(calls, call) \in [Slot -> GalleryCall] /\ Packed(Send(calls, call))
         /\ \A S : calls \in [Slot -> Within(S)] /\ call \in Within(S)
                   => Send(calls, call) \in [Slot -> Within(S)]
         /\ Busy(calls, "tags") \/ call.do = "tags" => Busy(Send(calls, call), "tags")
<1>1. 1 \in Slot
  BY CallsAssumption DEF Slot
<1>2. Idle \in GalleryCall /\ \A S : Idle \in Within(S)
  BY DEF GalleryCall, Within, Idle
<1>3. Send(calls, call) \in [Slot -> GalleryCall]
  BY <1>1, <1>2, CallsKept
<1>4. ASSUME NEW S, calls \in [Slot -> Within(S)], call \in Within(S)
      PROVE  Send(calls, call) \in [Slot -> Within(S)]
  BY <1>1, <1>2, <1>4, CallsKept
<1>5. Packed(Send(calls, call))
  BY PackedSent
<1>6. Busy(calls, "tags") \/ call.do = "tags" => Busy(Send(calls, call), "tags")
  BY BusySent
<1> QED
  BY <1>3, <1>4, <1>5, <1>6

(* What a request that is over leaves of the others.                       *)
LEMMA GalleryOver ==
  ASSUME requests \in [Slot -> GalleryCall], Packed(requests), NEW n \in Slot
  PROVE  /\ Over(requests, n) \in [Slot -> GalleryCall] /\ Packed(Over(requests, n))
         /\ \A S : requests \in [Slot -> Within(S)] => Over(requests, n) \in [Slot -> Within(S)]
         /\ requests[n].do # "tags" => Busy(Over(requests, n), "tags") = Busy(requests, "tags")
<1>1. Idle \in GalleryCall /\ \A S : Idle \in Within(S)
  BY DEF GalleryCall, Within, Idle
<1>2. Over(requests, n) \in [Slot -> GalleryCall]
  BY <1>1, CallsKept
<1>3. ASSUME NEW S, requests \in [Slot -> Within(S)]
      PROVE  Over(requests, n) \in [Slot -> Within(S)]
  BY <1>1, <1>3, CallsKept
<1>4. Packed(Over(requests, n))
  BY PackedOver
<1>5. requests[n].do # "tags" => Busy(Over(requests, n), "tags") = Busy(requests, "tags")
  BY BusyOver
<1> QED
  BY <1>2, <1>3, <1>4, <1>5

(* The lightbox opens on a photo, or goes to another one.                  *)
LEMMA TagsFetched ==
  ASSUME GalleryInv, NEW p \in Photo, FetchTags(p), over'.is = "box", over'.photo = p,
         UNCHANGED <<agreed, astray>>
  PROVE  /\ requests' \in [Slot -> GalleryCall] /\ Packed(requests') /\ mixed' \in BOOLEAN
         /\ Agreed' /\ TagsFollow'
<1> DEFINE call == [do |-> "tags", at |-> "sent", ids |-> {p}]
<1>1. requests' = Send(requests, call) /\ Room(requests, 1)
  BY DEF FetchTags
<1>2. mixed' \in BOOLEAN
  BY DEF FetchTags
<1>3. call \in GalleryCall /\ call.do = "tags" /\ call.ids = {p} /\ \A S : call \in Within(S)
  BY DEF GalleryCall, TagKinds, Within
<1> HIDE DEF call
<1>4. /\ requests \in [Slot -> GalleryCall] /\ Packed(requests)
      /\ requests \in [Slot -> Within(agreed)] /\ ~astray
      /\ \E k \in Slot : requests[k] = Idle
  BY <1>1, FreeSlot DEF GalleryInv, Shown, Agreed
<1>5. requests' \in [Slot -> GalleryCall] /\ Packed(requests')
      /\ requests' \in [Slot -> Within(agreed)] /\ Busy(requests', "tags")
  BY <1>1, <1>3, <1>4, GallerySent
<1>6. LastOf(requests', p)
  BY <1>1, <1>3, <1>4, LastSent
<1>7. Agreed'
  BY <1>4, <1>5 DEF Agreed
<1>8. TagsFollow'
  BY <1>5, <1>6 DEF TagsFollow
<1> QED
  BY <1>2, <1>5, <1>7, <1>8

-----------------------------------------------------------------------------
(* The page begins with all photos shown and nothing asked.                *)
LEMMA GalleryStart == GalleryInit => GalleryInv
<1> SUFFICES ASSUME GalleryInit PROVE GalleryInv
  OBVIOUS
<1>1. requests \in [Slot -> GalleryCall] /\ Packed(requests)
      /\ \A S : requests \in [Slot -> Within(S)]
  BY DEF GalleryInit, Quiet, GalleryCall, Within, Idle, Packed
<1>2. over = Bare /\ over.is = "grid"
  BY DEF GalleryInit, Bare
<1>3. selecting \in BOOLEAN /\ mixed \in BOOLEAN /\ astray \in BOOLEAN
  BY DEF GalleryInit
<1>4. GalleryTypeOK
  BY <1>2, <1>3 DEF GalleryInit, GalleryTypeOK, NoFinger
<1>5. Shown
  BY <1>1, <1>2 DEF GalleryInit, Shown, NoFinger
<1> QED
  BY <1>1, <1>2, <1>4, <1>5 DEF GalleryInit, GalleryInv, Agreed, TagsFollow

(* Every step of the list and of the selection keeps the invariant.        *)
LEMMA SelectionStep ==
  ASSUME GalleryInv, ListAnswered \/ LeaveSelection \/ SelectAll \/ BatchDelete
  PROVE  GalleryInv'
<1> USE DEF GalleryInv
<1>1. CASE ListAnswered
  <2>1. Agreed' /\ TagsFollow'
    BY <1>1 DEF ListAnswered, Agreed, TagsFollow, Busy
  <2>2. Shown'
    BY <1>1 DEF ListAnswered, Shown, NoFinger
  <2>3. GalleryTypeOK'
    BY <1>1, <2>2 DEF ListAnswered, GalleryTypeOK, Shown
  <2> QED
    BY <2>1, <2>2, <2>3
<1>2. CASE LeaveSelection
  <2>1. selecting' = FALSE /\ selecting' \in BOOLEAN /\ selected' = {}
    BY <1>2 DEF LeaveSelection, ExitSelection
  <2>2. over' = Bare \/ over' = over
    BY <1>2 DEF LeaveSelection
  <2>3. UNCHANGED <<list, finger, tagsOf, mixed, requests, agreed, astray>>
    BY <1>2 DEF LeaveSelection
  <2>4. Agreed' /\ TagsFollow' /\ Shown'
    BY <2>2, <2>3 DEF Agreed, TagsFollow, Shown, Busy, Bare
  <2>5. GalleryTypeOK'
    BY <2>1, <2>2, <2>3 DEF GalleryTypeOK, Bare
  <2> QED
    BY <2>4, <2>5
<1>3. CASE SelectAll
  <2>1. UNCHANGED <<list, finger, over, tagsOf, mixed, requests, agreed, astray>>
    BY <1>3 DEF SelectAll
  <2>2. Agreed' /\ TagsFollow' /\ Shown'
    BY <2>1 DEF Agreed, TagsFollow, Shown, Busy
  <2>3. selecting' \in BOOLEAN /\ selected' \in SUBSET Photo /\ (selected' # {} => selecting')
    BY <1>3 DEF SelectAll, ExitSelection, GalleryTypeOK
  <2>4. GalleryTypeOK'
    BY <2>1, <2>3 DEF GalleryTypeOK
  <2> QED
    BY <2>2, <2>4
<1>4. CASE BatchDelete
  <2> DEFINE call == [do |-> "batch", at |-> "sent", ids |-> selected]
  <2>1. /\ requests' = Send(requests, call) /\ Room(requests, 1)
        /\ agreed' = agreed \cup selected /\ over = Bare
        /\ UNCHANGED <<list, selecting, selected, finger, over, tagsOf, mixed, astray>>
    BY <1>4 DEF BatchDelete, Touchable
  <2>2. call \in GalleryCall /\ call \in Within(agreed')
    BY <2>1 DEF GalleryCall, Within, GalleryTypeOK
  <2> HIDE DEF call
  <2>3. /\ requests \in [Slot -> Within(agreed')] /\ requests \in [Slot -> GalleryCall]
        /\ Packed(requests) /\ \E k \in Slot : requests[k] = Idle
    BY <2>1, FreeSlot DEF Shown, Agreed, Within
  <2>4. /\ requests' \in [Slot -> GalleryCall] /\ requests' \in [Slot -> Within(agreed')]
        /\ Packed(requests')
    BY <2>1, <2>2, <2>3, GallerySent
  <2>5. GalleryTypeOK' /\ Shown'
    BY <2>1, <2>4 DEF GalleryTypeOK, Shown
  <2> QED
    BY <2>1, <2>4, <2>5 DEF Agreed, TagsFollow, Bare
<1> QED
  BY <1>1, <1>2, <1>3, <1>4

(* Every step of a press on a card keeps the invariant.                    *)
LEMMA PressStep ==
  ASSUME GalleryInv, LongPress \/ Slide \/ Click \/ \E p \in Photo : Press(p)
  PROVE  GalleryInv'
<1> USE DEF GalleryInv
<1>1. CASE LongPress
  <2>1. UNCHANGED <<list, over, tagsOf, mixed, requests, agreed, astray>>
    BY <1>1 DEF LongPress
  <2>2. Agreed' /\ TagsFollow'
    BY <2>1 DEF Agreed, TagsFollow, Busy
  <2>3. Shown'
    BY <1>1, <2>1 DEF LongPress, Shown, NoFinger
  <2>4. selecting' \in BOOLEAN /\ selected' \in SUBSET Photo /\ (selected' # {} => selecting')
    <3>1. CASE finger.selectable
      BY <1>1, <3>1 DEF LongPress, GalleryTypeOK
    <3>2. CASE ~finger.selectable
      BY <1>1, <3>2 DEF LongPress, Shown
    <3> QED
      BY <3>1, <3>2
  <2>5. GalleryTypeOK'
    BY <2>1, <2>3, <2>4 DEF GalleryTypeOK, Shown
  <2> QED
    BY <2>2, <2>3, <2>5
<1>2. CASE Slide
  <2>1. Agreed' /\ TagsFollow'
    BY <1>2 DEF Slide, Agreed, TagsFollow, Busy
  <2>2. Shown'
    BY <1>2 DEF Slide, Shown, NoFinger
  <2>3. GalleryTypeOK'
    BY <1>2 DEF Slide, GalleryTypeOK, NoFinger
  <2> QED
    BY <2>1, <2>2, <2>3
<1>3. CASE Click
  <2> DEFINE p == finger.card
  <2>1. finger' = NoFinger /\ p \in list /\ p \in Photo
        /\ UNCHANGED <<list, tagsOf, agreed, astray>>
    BY <1>3 DEF Click, Shown, GalleryTypeOK
  <2>2. CASE UNCHANGED <<selecting, selected, over, requests, mixed>>
    <3>1. Agreed' /\ TagsFollow' /\ Shown'
      BY <2>1, <2>2 DEF Agreed, TagsFollow, Shown, NoFinger, Busy
    <3>2. GalleryTypeOK'
      BY <2>1, <2>2 DEF GalleryTypeOK, NoFinger
    <3> QED
      BY <3>1, <3>2
  <2>3. CASE Toggle(p) /\ selecting /\ UNCHANGED <<over, requests, mixed>>
    <3>1. Agreed' /\ TagsFollow' /\ Shown'
      BY <2>1, <2>3 DEF Agreed, TagsFollow, Shown, NoFinger, Busy
    <3>2. selected' \in SUBSET Photo /\ selecting' = (selected' # {})
      BY <2>1, <2>3 DEF Toggle, GalleryTypeOK
    <3>3. GalleryTypeOK'
      BY <2>1, <2>3, <3>2 DEF GalleryTypeOK, NoFinger
    <3> QED
      BY <3>1, <3>3
  <2>4. CASE Show(list, p) /\ UNCHANGED <<selecting, selected>>
    <3>1. over' \in Lightbox /\ over'.is = "box" /\ over'.photo = p /\ over'.in = list
      BY <2>1, <2>4 DEF Show, Box, Lightbox, GalleryTypeOK
    <3>2. requests' \in [Slot -> GalleryCall] /\ Packed(requests') /\ mixed' \in BOOLEAN
          /\ Agreed' /\ TagsFollow'
      BY <2>1, <2>4, <3>1, TagsFetched DEF Show
    <3>3. Shown'
      BY <2>1, <3>1, <3>2 DEF Shown, NoFinger
    <3>4. GalleryTypeOK'
      BY <2>1, <2>4, <3>1, <3>2 DEF GalleryTypeOK, NoFinger
    <3> QED
      BY <3>2, <3>3, <3>4
  <2> QED
    BY <1>3, <2>2, <2>3, <2>4 DEF Click
<1>4. ASSUME NEW p \in Photo, Press(p) PROVE GalleryInv'
  <2>1. Agreed' /\ TagsFollow'
    BY <1>4 DEF Press, Agreed, TagsFollow, Busy
  <2>2. Shown'
    BY <1>4 DEF Press, Shown, GalleryTypeOK
  <2>3. GalleryTypeOK'
    BY <1>4 DEF Press, GalleryTypeOK
  <2> QED
    BY <2>1, <2>2, <2>3
<1> QED
  BY <1>1, <1>2, <1>3, <1>4

(* Every step of the lightbox keeps the invariant.                         *)
LEMMA BoxStep ==
  ASSUME GalleryInv,
         \/ CloseBox \/ EditTag \/ BoxDelete \/ BoxCancel \/ BoxConfirm
         \/ \E p \in Photo : OpenFound(p) \/ Move(p) \/ ToDuplicate(p)
  PROVE  GalleryInv'
<1> USE DEF GalleryInv
<1>1. CASE CloseBox \/ BoxConfirm
  <2>1. over' = Bare
        /\ UNCHANGED <<list, selecting, selected, finger, tagsOf, mixed, requests, agreed, astray>>
    BY <1>1 DEF CloseBox, BoxConfirm
  <2>2. Agreed' /\ TagsFollow' /\ Shown'
    BY <2>1 DEF Agreed, TagsFollow, Shown, Bare
  <2>3. GalleryTypeOK'
    BY <2>1 DEF GalleryTypeOK, Bare
  <2> QED
    BY <2>2, <2>3
<1>2. CASE EditTag
  <2> DEFINE call == [do |-> "retag", at |-> "waiting", ids |-> {over.photo}]
  <2>1. /\ requests' = Send(requests, call) /\ Room(requests, 1) /\ over.photo \in Photo
        /\ UNCHANGED <<list, selecting, selected, finger, over, tagsOf, mixed, agreed, astray>>
    BY <1>2 DEF EditTag, GalleryTypeOK
  <2>2. call \in GalleryCall /\ call.do = "retag" /\ call.at = "waiting" /\ \A S : call \in Within(S)
    BY <2>1 DEF GalleryCall, TagKinds, Within
  <2> HIDE DEF call
  <2>3. /\ requests \in [Slot -> GalleryCall] /\ Packed(requests)
        /\ requests \in [Slot -> Within(agreed)] /\ \E k \in Slot : requests[k] = Idle
    BY <2>1, FreeSlot DEF Shown, Agreed
  <2>4. /\ requests' \in [Slot -> GalleryCall] /\ requests' \in [Slot -> Within(agreed)]
        /\ Packed(requests') /\ (Busy(requests, "tags") => Busy(requests', "tags"))
    BY <2>1, <2>2, <2>3, GallerySent
  <2>5. ASSUME LastOf(requests, over.photo) PROVE LastOf(requests', over.photo)
    BY <2>1, <2>2, <2>3, <2>5, LastSent
  <2>6. TagsFollow'
    BY <2>1, <2>4, <2>5 DEF TagsFollow
  <2>7. GalleryTypeOK' /\ Shown'
    BY <2>1, <2>4 DEF GalleryTypeOK, Shown
  <2> QED
    BY <2>1, <2>4, <2>6, <2>7 DEF Agreed
<1>3. CASE BoxDelete \/ BoxCancel
  <2>1. UNCHANGED <<list, selecting, selected, finger, tagsOf, mixed, requests, agreed, astray>>
        /\ over \in Lightbox
    BY <1>3 DEF BoxDelete, BoxCancel, Shown, Bare
  <2>2. PICK doomed \in Photo \cup {0} : over' = [over EXCEPT !.pending = doomed]
    BY <1>3, <2>1 DEF BoxDelete, BoxCancel, Lightbox
  <2>3. over' \in Lightbox /\ over'.photo = over.photo /\ over'.is = over.is /\ over'.in = over.in
    BY <2>1, <2>2 DEF Lightbox
  <2>4. Agreed' /\ TagsFollow' /\ Shown'
    BY <2>1, <2>3 DEF Agreed, TagsFollow, Shown, Busy
  <2>5. GalleryTypeOK'
    BY <2>1, <2>3 DEF GalleryTypeOK
  <2> QED
    BY <2>4, <2>5
<1>4. ASSUME NEW S \in SUBSET Photo, NEW p \in S, Show(S, p),
             UNCHANGED <<list, selecting, selected, finger, tagsOf, agreed, astray>>
      PROVE  GalleryInv'
  <2>1. over' \in Lightbox /\ over'.is = "box" /\ over'.photo = p /\ over'.in = S
    BY <1>4 DEF Show, Box, Lightbox
  <2>2. requests' \in [Slot -> GalleryCall] /\ Packed(requests') /\ mixed' \in BOOLEAN
          /\ Agreed' /\ TagsFollow'
    BY <1>4, <2>1, TagsFetched DEF Show
  <2>3. Shown'
    BY <1>4, <2>1, <2>2 DEF Shown
  <2>4. GalleryTypeOK'
    BY <1>4, <2>1, <2>2 DEF GalleryTypeOK
  <2> QED
    BY <2>2, <2>3, <2>4
<1>5. ASSUME NEW p \in Photo, OpenFound(p) PROVE GalleryInv'
  <2> DEFINE q == IF p \in list THEN p ELSE CHOOSE r \in list : \A s \in list : r <= s
  <2>1. list \in SUBSET Photo /\ list # {}
    BY <1>5 DEF OpenFound, GalleryTypeOK
  <2>2. q \in list
    BY <2>1, FirstPhoto
  <2>3. Show(list, q) /\ UNCHANGED <<list, selecting, selected, finger, tagsOf, agreed, astray>>
    BY <1>5 DEF OpenFound
  <2> HIDE DEF q
  <2> QED
    BY <1>4, <2>1, <2>2, <2>3
<1>6. ASSUME NEW p \in Photo, Move(p) PROVE GalleryInv'
  <2>1. /\ over \in Lightbox /\ p \in over.in /\ FetchTags(p)
        /\ over' = [over EXCEPT !.photo = p]
        /\ UNCHANGED <<list, selecting, selected, finger, tagsOf, agreed, astray>>
    BY <1>6 DEF Move, Beside, Shown, Bare
  <2>2. over' \in Lightbox /\ over'.is = "box" /\ over'.photo = p /\ over'.in = over.in
    BY <2>1 DEF Lightbox
  <2>3. requests' \in [Slot -> GalleryCall] /\ Packed(requests') /\ mixed' \in BOOLEAN
          /\ Agreed' /\ TagsFollow'
    BY <2>1, <2>2, TagsFetched
  <2>4. Shown'
    BY <2>1, <2>2, <2>3 DEF Shown
  <2>5. GalleryTypeOK'
    BY <2>1, <2>2, <2>3 DEF GalleryTypeOK, Lightbox
  <2> QED
    BY <2>3, <2>4, <2>5
<1>7. ASSUME NEW p \in Photo, ToDuplicate(p) PROVE GalleryInv'
  <2>1. over.in \in SUBSET Photo /\ p \in over.in /\ Show(over.in, p)
        /\ UNCHANGED <<list, selecting, selected, finger, tagsOf, agreed, astray>>
    BY <1>7 DEF ToDuplicate, GalleryTypeOK
  <2> QED
    BY <1>4, <2>1
<1> QED
  BY <1>1, <1>2, <1>3, <1>5, <1>6, <1>7

(* Every step of a request keeps the invariant.                            *)
LEMMA AnswerStep ==
  ASSUME GalleryInv, NEW n \in Slot,
         \/ BatchAnswered(n) \/ BatchFails(n) \/ DeleteHandled(n)
         \/ RetagSent(n) \/ TagsAnswered(n)
  PROVE  GalleryInv'
<1> USE DEF GalleryInv
<1>1. /\ requests \in [Slot -> GalleryCall] /\ Packed(requests)
      /\ requests \in [Slot -> Within(agreed)]
  BY DEF Shown, Agreed
<1>2. CASE BatchAnswered(n) \/ BatchFails(n)
  <2>1. /\ requests' = Over(requests, n) /\ requests[n].do = "batch"
        /\ agreed' = IF Busy(requests', "batch") THEN agreed ELSE {}
        /\ UNCHANGED <<list, finger, over, tagsOf, mixed, astray>>
    BY <1>2 DEF BatchAnswered, BatchFails
  <2>2. \/ selecting' = FALSE /\ selecting' \in BOOLEAN /\ selected' = {}
        \/ UNCHANGED <<selecting, selected>>
    BY <1>2 DEF BatchAnswered, BatchFails, ExitSelection
  <2>3. /\ requests' \in [Slot -> GalleryCall] /\ requests' \in [Slot -> Within(agreed)]
        /\ Packed(requests') /\ Busy(requests', "tags") = Busy(requests, "tags")
    BY <1>1, <2>1, GalleryOver
  <2>4. Agreed'
    <3>1. CASE Busy(requests', "batch")
      BY <2>1, <2>3, <3>1 DEF Agreed
    <3>2. CASE ~Busy(requests', "batch")
      BY <2>1, <2>3, <3>2 DEF Agreed, Within, Busy
    <3> QED
      BY <3>1, <3>2
  <2>5. TagsFollow'
    <3>1. ASSUME LastOf(requests, over.photo) PROVE LastOf(requests', over.photo)
      BY <2>1, <3>1, LastOver
    <3> QED
      BY <2>1, <2>3, <3>1 DEF TagsFollow
  <2>6. Shown'
    BY <2>1, <2>3 DEF Shown
  <2>7. GalleryTypeOK'
    BY <2>1, <2>2 DEF GalleryTypeOK
  <2> QED
    BY <2>4, <2>5, <2>6, <2>7
<1>3. CASE DeleteHandled(n)
  <2>1. /\ requests' = Handled(requests, n, "handled") /\ requests[n].do = "batch"
        /\ UNCHANGED <<list, selecting, selected, finger, over, tagsOf, mixed, agreed>>
    BY <1>3 DEF DeleteHandled
  <2>2. requests[n].ids \subseteq agreed
    BY <1>1, <2>1 DEF Within
  <2>3. astray' = FALSE
    BY <1>3, <2>2 DEF DeleteHandled, Doomed, Agreed
  <2> DEFINE call == [requests[n] EXCEPT !.at = "handled"]
  <2>4. requests' = [requests EXCEPT ![n] = call]
    BY <2>1 DEF Handled
  <2>5. /\ call \in GalleryCall /\ call.do = "batch" /\ call.ids = requests[n].ids
    BY <1>1, <2>1 DEF GalleryCall, Idle
  <2>6. call \in Within(agreed) /\ call # Idle
    BY <2>2, <2>5 DEF Within, Idle
  <2> HIDE DEF call
  <2>7. requests' \in [Slot -> GalleryCall] /\ requests' \in [Slot -> Within(agreed)]
    BY <1>1, <2>4, <2>5, <2>6
  <2>8. /\ requests'[n] = call /\ requests[n] # Idle
        /\ \A m \in Slot : m # n => requests'[m] = requests[m]
    BY <1>1, <2>1, <2>4 DEF Idle
  <2>9. Packed(requests')
    BY <1>1, <2>6, <2>8 DEF Packed
  <2>10. TagsFollow'
    <3>1. Busy(requests, "tags") => Busy(requests', "tags")
      BY <2>1, <2>8 DEF Busy
    <3>2. ASSUME NEW m \in Slot, Lasting(requests', m)
          PROVE  requests'[m] = requests[m] /\ Lasting(requests, m)
      <4>1. m # n
        BY <2>5, <2>8, <3>2 DEF Lasting, TagKinds
      <4>2. \A k \in Slot : k > m => requests[k].do # "tags"
        BY <2>1, <2>8, <3>2 DEF Lasting
      <4> QED
        BY <2>8, <3>2, <4>1, <4>2 DEF Lasting
    <3>3. ASSUME LastOf(requests, over.photo) PROVE LastOf(requests', over.photo)
      BY <3>2, <3>3 DEF LastOf
    <3> QED
      BY <2>1, <3>1, <3>3 DEF TagsFollow
  <2>11. Shown' /\ Agreed'
    BY <2>1, <2>3, <2>7, <2>9 DEF Shown, Agreed
  <2>12. GalleryTypeOK'
    BY <2>1, <2>3 DEF GalleryTypeOK
  <2> QED
    BY <2>10, <2>11, <2>12
<1>4. ASSUME requests[n].do \in TagKinds
      PROVE  requests[n] # Idle /\ \E p \in Photo : requests[n].ids = {p}
  BY <1>1, <1>4 DEF GalleryCall, TagKinds, Idle
<1>5. CASE RetagSent(n)
  <2> DEFINE rest == Over(requests, n)
             call == [requests[n] EXCEPT !.at = "sent"]
  <2>1. /\ requests' = Send(rest, call) /\ requests[n].do = "retag"
        /\ UNCHANGED <<list, selecting, selected, finger, over, tagsOf, agreed, astray>>
    BY <1>5 DEF RetagSent
  <2>2. mixed' \in BOOLEAN
        /\ (over.is = "box" /\ ~mixed' => ~mixed /\ over.photo \in requests[n].ids)
    BY <1>5 DEF RetagSent, GalleryTypeOK
  <2>3. /\ call \in GalleryCall /\ call.do = "retag" /\ call.ids = requests[n].ids
        /\ \A S : call \in Within(S)
    BY <1>1, <2>1 DEF GalleryCall, TagKinds, Idle, Within
  <2>4. /\ rest \in [Slot -> GalleryCall] /\ Packed(rest) /\ rest \in [Slot -> Within(agreed)]
        /\ Busy(rest, "tags") = Busy(requests, "tags")
    BY <1>1, <2>1, GalleryOver
  <2>5. \E k \in Slot : rest[k] = Idle
    <3>1. MaxCalls \in Slot /\ ~(MaxCalls < n) /\ ~(MaxCalls < MaxCalls)
      BY CallsAssumption DEF Slot
    <3>2. rest[MaxCalls] = Idle
      BY <3>1 DEF Over
    <3> QED
      BY <3>1, <3>2
  <2>6. ASSUME over.is = "box", ~mixed'
        PROVE  LastOf(requests', over.photo) /\ (Busy(requests, "tags") => Busy(requests', "tags"))
    <3>1. LastOf(requests, over.photo) /\ call.ids = {over.photo}
      BY <1>4, <2>1, <2>2, <2>3, <2>6 DEF TagsFollow, TagKinds
    <3>2. LastOf(rest, over.photo)
      BY <2>1, <3>1, LastOver
    <3> HIDE DEF rest, call
    <3>3. LastOf(requests', over.photo)
      BY <2>1, <2>3, <2>4, <2>5, <3>1, <3>2, LastSent
    <3>4. Busy(rest, "tags") => Busy(requests', "tags")
      BY <2>1, <2>3, <2>4, <2>5, GallerySent
    <3> QED
      BY <2>4, <3>3, <3>4
  <2> HIDE DEF rest, call
  <2>7. /\ requests' \in [Slot -> GalleryCall] /\ Packed(requests')
        /\ requests' \in [Slot -> Within(agreed)]
    BY <2>1, <2>3, <2>4, <2>5, GallerySent
  <2>8. TagsFollow'
    BY <2>1, <2>2, <2>6 DEF TagsFollow
  <2>9. Shown' /\ Agreed'
    BY <2>1, <2>7 DEF Shown, Agreed
  <2>10. GalleryTypeOK'
    BY <2>1, <2>2 DEF GalleryTypeOK
  <2> QED
    BY <2>8, <2>9, <2>10
<1>6. CASE TagsAnswered(n)
  <2>1. /\ requests' = Over(requests, n) /\ requests[n].do \in TagKinds /\ requests[n].at = "sent"
        /\ UNCHANGED <<list, selecting, selected, finger, over, agreed, astray>>
    BY <1>6 DEF TagsAnswered
  <2>2. \/ tagsOf' \in requests[n].ids
        \/ tagsOf' = 0
        \/ tagsOf' = tagsOf /\ requests[n].do = "retag"
    BY <1>6 DEF TagsAnswered, TagKinds
  <2>3. mixed' \in BOOLEAN /\ (~mixed' => ~mixed /\ ~Overtakes(n))
    BY <1>6 DEF TagsAnswered, Overtakes, GalleryTypeOK
  <2>4. requests[n].ids \subseteq Photo
    BY <1>4, <2>1
  <2>5. /\ requests' \in [Slot -> GalleryCall] /\ requests' \in [Slot -> Within(agreed)]
        /\ Packed(requests')
    BY <1>1, <2>1, GalleryOver
  <2>6. TagsFollow'
    <3> SUFFICES ASSUME over.is = "box", ~mixed'
                 PROVE  /\ LastOf(requests', over.photo)
                        /\ Busy(requests', "tags") \/ tagsOf' \in {0, over.photo}
      BY <2>1 DEF TagsFollow
    <3>1. /\ LastOf(requests, over.photo)
          /\ Busy(requests, "tags") \/ tagsOf \in {0, over.photo}
      BY <2>3 DEF TagsFollow
    <3>2. LastOf(requests', over.photo)
      BY <2>1, <2>3, <3>1, LastOver DEF Overtakes
    <3>3. ASSUME ~Busy(requests', "tags") PROVE tagsOf' \in {0, over.photo}
      <4>1. ASSUME NEW m \in Slot, m > n PROVE requests[m].do # "tags"
        <5>1. m \in Slot \ {n}
          BY <4>1, CallsAssumption DEF Slot
        <5>2. PICK k \in Slot : requests'[k] = requests[m]
          BY <2>1, <5>1, Leaving
        <5> QED
          BY <3>3, <5>2 DEF Busy
      <4>2. requests[n].ids = {over.photo}
        BY <2>1, <3>1, <4>1 DEF LastOf, Lasting
      <4>3. CASE requests[n].do = "retag"
        <5>1. ~Busy(requests, "tags")
          BY <1>1, <2>1, <3>3, <4>3, GalleryOver
        <5> QED
          BY <2>2, <3>1, <4>2, <5>1
      <4>4. CASE requests[n].do # "retag"
        BY <2>2, <4>2, <4>4
      <4> QED
        BY <4>3, <4>4
    <3> QED
      BY <3>2, <3>3
  <2>7. Shown' /\ Agreed'
    BY <2>1, <2>5 DEF Shown, Agreed
  <2>8. GalleryTypeOK'
    BY <2>1, <2>2, <2>3, <2>4 DEF GalleryTypeOK
  <2> QED
    BY <2>6, <2>7, <2>8
<1> QED
  BY <1>2, <1>3, <1>5, <1>6

(* Every step of the pictures' page keeps the invariant.                   *)
LEMMA GalleryStep == GalleryInv /\ [GalleryNext]_galleryVars => GalleryInv'
<1> SUFFICES ASSUME GalleryInv, [GalleryNext]_galleryVars PROVE GalleryInv'
  OBVIOUS
<1>1. CASE UNCHANGED galleryVars
  BY <1>1 DEF galleryVars, GalleryInv, GalleryTypeOK, Shown, Agreed, TagsFollow, Busy
<1>2. CASE GalleryNext
  BY <1>2, SelectionStep, PressStep, BoxStep, AnswerStep DEF GalleryNext
<1> QED
  BY <1>1, <1>2

(* The invariant of the pictures' page tells what is asked of it.          *)
LEMMA GalleryTold == GalleryInv => OnlyAgreed /\ TagsAreOfPhoto
BY DEF GalleryInv, Agreed, TagsFollow, OnlyAgreed, TagsAreOfPhoto, Fetching, TagKinds, Busy

-----------------------------------------------------------------------------
(***************************************************************************)
(* The uploads and the list of recent ones (Uploads).                      *)
(***************************************************************************)
Stage == {"idle", "sent", "kept", "refused", "waiting", "done"}
FileState == {"PENDING", "UPLOADING", "COMPLETE", "FAULT"}

(* The fetches of the list, and one whose answer will show what is now.    *)
ListCall == {Idle} \cup [do : {"list"}, at : {"sent", "fresh", "old"}]
Timely(call) == call # Idle /\ call.at \in {"sent", "fresh"}

(* The tables of the batches, and a file that waits has a try left.        *)
Tables ==
  /\ job \in [Batch -> [at : Stage, file : Nat, attempt : Nat]]
  /\ DOMAIN results = Batch
  /\ \A b \in Batch : results[b] \in [1..Files[b] -> FileState]
  /\ \A b \in Batch : job[b].at = "waiting" => job[b].attempt < MaxRetries
  /\ reads \in [Slot -> ListCall]

(* What has been answered with success has been kept.                      *)
Reported ==
  CompleteIsKept
    /\ \A b \in Batch : job[b].at = "kept" => <<b, job[b].file>> \in kept

(* The list is fresh or will be, or it is known what has become of that.   *)
Coming ==
  event \/ excuse \/ photoList = "fresh" \/ \E n \in Slot : Timely(reads[n])

(* What is displayed without an end set to it belongs to a batch that runs *)
(* and that this page has started.                                         *)
Owner ==
  /\ progress => \E b \in Batch : Running(b)
  /\ showing # 0 /\ ~clearing => \E b \in Batch \ homeless : Running(b)
  /\ \A b \in homeless : job[b].at # "idle"

UploadInv == UploadsTypeOK /\ Tables /\ Reported /\ Coming /\ Owner

-----------------------------------------------------------------------------
(* A fetch that is sent is in time.                                        *)
LEMMA Fetched ==
  ASSUME NEW calls \in [Slot -> ListCall], \E k \in Slot : calls[k] = Idle
  PROVE  /\ fetchPhotos(calls) \in [Slot -> ListCall]
         /\ \E n \in Slot : Timely(fetchPhotos(calls)[n])
<1> DEFINE call == [do |-> "list", at |-> "sent"]
<1>1. call \in ListCall /\ call.at = "sent" /\ call # Idle
  <2>1. DOMAIN call = {"do", "at"} /\ DOMAIN Idle = {"do"}
    BY DEF Idle
  <2>2. call # Idle
    BY <2>1
  <2> QED
    BY <2>2 DEF ListCall
<1>2. fetchPhotos(calls) = Send(calls, call)
  BY DEF fetchPhotos
<1> HIDE DEF call
<1>3. PICK k \in Slot : Send(calls, call) = [calls EXCEPT ![k] = call]
  BY Sending
<1> QED
  BY <1>1, <1>2, <1>3 DEF Timely

(* An answered fetch leaves the others as they were.                       *)
LEMMA FetchOver ==
  ASSUME reads \in [Slot -> ListCall], NEW n \in Slot
  PROVE  /\ Over(reads, n) \in [Slot -> ListCall]
         /\ \A k \in Slot : Timely(reads[k]) /\ k # n
                            => \E m \in Slot : Timely(Over(reads, n)[m])
<1>1. Idle \in ListCall
  BY DEF ListCall
<1>2. Over(reads, n) \in [Slot -> ListCall]
  BY <1>1, CallsKept
<1>3. ASSUME NEW k \in Slot, Timely(reads[k]), k # n
      PROVE  \E m \in Slot : Timely(Over(reads, n)[m])
  <2>1. PICK m \in Slot : Over(reads, n)[m] = reads[k]
    BY <1>3, Leaving
  <2> QED
    BY <1>3, <2>1
<1> QED
  BY <1>2, <1>3

(* A change of the library is announced, or the page knows why not.        *)
LEMMA Announced ==
  ASSUME Tables, UploadsTypeOK, LibraryChanges(reads)
  PROVE  /\ reads' \in [Slot -> ListCall] /\ Coming'
         /\ photoList' = "old" /\ event' \in BOOLEAN /\ excuse' \in BOOLEAN
<1>1. reads \in [Slot -> ListCall]
  BY DEF Tables
<1>2. ASSUME NEW n \in Slot, reads[n] # Idle PROVE Handled(reads, n, "old")[n] \in ListCall
  <2>1. [reads[n] EXCEPT !.at = "old"] \in ListCall
    BY <1>1, <1>2 DEF ListCall
  <2> QED
    BY <1>1, <2>1 DEF Handled
<1>3. reads' \in [Slot -> ListCall]
  BY <1>1, <1>2 DEF LibraryChanges
<1>4. event' \in BOOLEAN /\ excuse' \in BOOLEAN
  BY DEF LibraryChanges
<1>5. event' \/ excuse'
  BY DEF LibraryChanges
<1> QED
  BY <1>3, <1>4, <1>5 DEF LibraryChanges, Coming

(* What the steps of the list leave alone.                                 *)
LEMMA BatchesRest ==
  ASSUME UploadInv, UNCHANGED jobVars
  PROVE  /\ reads' \in [Slot -> ListCall] => Tables'
         /\ Reported' /\ Owner'
         /\ (/\ {loaded', mounted', live', event', excuse'} \subseteq BOOLEAN
             /\ photoList' \in {"fresh", "old"}) => UploadsTypeOK'
<1> USE DEF UploadInv, jobVars
<1>1. reads' \in [Slot -> ListCall] => Tables'
  BY DEF Tables
<1>2. Reported'
  BY DEF Reported, CompleteIsKept
<1>3. Owner'
  BY DEF Owner, Running
<1>4. ASSUME {loaded', mounted', live', event', excuse'} \subseteq BOOLEAN,
             photoList' \in {"fresh", "old"}
      PROVE  UploadsTypeOK'
  BY <1>4 DEF UploadsTypeOK
<1> QED
  BY <1>1, <1>2, <1>3, <1>4

-----------------------------------------------------------------------------
(* The page begins with the first list on its way.                         *)
LEMMA UploadStart == UploadsInit => UploadInv
<1> SUFFICES ASSUME UploadsInit PROVE UploadInv
  OBVIOUS
<1>1. Quiet \in [Slot -> ListCall] /\ \E k \in Slot : Quiet[k] = Idle
  BY CallsAssumption DEF Quiet, ListCall, Slot
<1>2. reads = fetchPhotos(Quiet)
  BY DEF UploadsInit, fetchPhotos
<1>3. reads \in [Slot -> ListCall] /\ \E n \in Slot : Timely(reads[n])
  BY <1>1, <1>2, Fetched
<1>4. \A b \in Batch : Files[b] \in Nat \ {0}
  BY UploadsAssumption DEF Batch
<1>5. Tables
  BY <1>3, <1>4 DEF UploadsInit, Tables, NotStarted, Stage, FileState
<1>6. {clearing, progress, loaded, mounted, live, event, excuse} \subseteq BOOLEAN
  BY DEF UploadsInit
<1>7. UploadsTypeOK
  <2>1. \A b \in Batch : /\ job[b].at = "idle" /\ job[b].file = 1 /\ job[b].attempt = 0
                         /\ \A i \in 1..Files[b] : results[b][i] = "PENDING"
    BY DEF UploadsInit, NotStarted
  <2>2. \A b \in Batch : 1 \in 1..Files[b] /\ 0 \in 0..MaxRetries
    BY <1>4, UploadsAssumption
  <2>3. kept = {} /\ homeless = {} /\ showing = 0 /\ photoList = "old"
    BY DEF UploadsInit
  <2> QED
    BY <1>6, <2>1, <2>2, <2>3 DEF UploadsTypeOK
<1>8. Reported
  BY DEF UploadsInit, Reported, CompleteIsKept, NotStarted
<1>9. Owner
  <2>1. ~progress
    BY DEF UploadsInit
  <2> QED
    BY <2>1 DEF UploadsInit, Owner
<1> QED
  BY <1>3, <1>5, <1>7, <1>8, <1>9 DEF UploadInv, Coming

(* Every step of the list keeps the invariant.                             *)
LEMMA ListStep ==
  ASSUME UploadInv,
         \/ OtherPhone \/ EventArrives \/ PullDown \/ StreamDown \/ StreamUp \/ Mount
         \/ \E n \in Slot : ReadHandled(n) \/ ReadAnswered(n) \/ ReadFails(n)
  PROVE  UploadInv'
<1> USE DEF UploadInv
<1>1. reads \in [Slot -> ListCall]
  BY DEF Tables
<1>2. loaded \in BOOLEAN /\ mounted \in BOOLEAN /\ live \in BOOLEAN /\ event \in BOOLEAN
      /\ excuse \in BOOLEAN /\ photoList \in {"fresh", "old"}
  BY DEF UploadsTypeOK
<1>3. CASE OtherPhone
  BY <1>2, <1>3, Announced, BatchesRest DEF OtherPhone
<1>4. CASE EventArrives \/ PullDown \/ Mount
  <2>1. /\ reads' = fetchPhotos(reads) /\ Room(reads, 1)
        /\ UNCHANGED <<jobVars, loaded, photoList, excuse>>
    BY <1>4 DEF EventArrives, PullDown, Mount, Refresh
  <2>2. reads' \in [Slot -> ListCall] /\ \E n \in Slot : Timely(reads'[n])
    BY <1>1, <2>1, FreeSlot, Fetched
  <2>3. event' \in BOOLEAN /\ mounted' \in BOOLEAN /\ live' \in BOOLEAN
    <3>1. CASE EventArrives
      <4>1. event' \in BOOLEAN
        BY <3>1 DEF EventArrives
      <4> QED
        BY <1>2, <3>1, <4>1 DEF EventArrives
    <3>2. CASE PullDown
      BY <1>2, <3>2 DEF PullDown
    <3>3. CASE Mount
      <4>1. mounted' \in BOOLEAN /\ live' \in BOOLEAN
        BY <3>3 DEF Mount
      <4> QED
        BY <1>2, <3>3, <4>1 DEF Mount
    <3> QED
      BY <1>4, <3>1, <3>2, <3>3
  <2>4. Coming'
    BY <2>2 DEF Coming
  <2> QED
    BY <1>2, <2>1, <2>2, <2>3, <2>4, BatchesRest
<1>5. CASE StreamDown
  <2>1. live' \in BOOLEAN /\ event' \in BOOLEAN /\ excuse' \in BOOLEAN
    BY <1>5 DEF StreamDown
  <2>2. UNCHANGED <<jobVars, loaded, mounted, photoList, reads>>
        /\ excuse' = (excuse \/ event)
    BY <1>5 DEF StreamDown
  <2>3. Coming'
    BY <2>2 DEF Coming
  <2> QED
    BY <1>1, <1>2, <2>1, <2>2, <2>3, BatchesRest
<1>6. CASE StreamUp
  <2>1. live' \in BOOLEAN
    BY <1>6 DEF StreamUp
  <2>2. UNCHANGED <<jobVars, loaded, mounted, event, photoList, reads, excuse>>
    BY <1>6 DEF StreamUp
  <2>3. Coming'
    BY <2>2 DEF Coming
  <2> QED
    BY <1>1, <1>2, <2>1, <2>2, <2>3, BatchesRest
<1>7. ASSUME NEW n \in Slot, ReadHandled(n) PROVE UploadInv'
  <2> DEFINE call == [reads[n] EXCEPT !.at = "fresh"]
  <2>1. reads' = [reads EXCEPT ![n] = call] /\ reads[n] # Idle
        /\ UNCHANGED <<jobVars, loaded, mounted, live, event, photoList, excuse>>
    BY <1>7 DEF ReadHandled, Handled
  <2>2. call \in ListCall /\ call.at = "fresh" /\ call # Idle
    <3>1. reads[n] \in [do : {"list"}, at : {"sent", "fresh", "old"}]
      BY <1>1, <2>1 DEF ListCall
    <3>2. call \in [do : {"list"}, at : {"sent", "fresh", "old"}] /\ call.at = "fresh"
          /\ call.do = "list"
      BY <3>1
    <3>3. Idle.do # "list"
      BY DEF Idle
    <3> QED
      BY <3>2, <3>3 DEF ListCall
  <2> HIDE DEF call
  <2>3. reads' \in [Slot -> ListCall] /\ Timely(reads'[n])
    BY <1>1, <2>1, <2>2 DEF Timely
  <2>4. Coming'
    BY <2>3 DEF Coming
  <2> QED
    BY <1>2, <2>1, <2>3, <2>4, BatchesRest
<1>8. ASSUME NEW n \in Slot, ReadAnswered(n) PROVE UploadInv'
  <2>1. /\ reads' = Over(reads, n) /\ photoList' = reads[n].at
        /\ reads[n].at \in {"fresh", "old"} /\ loaded' = TRUE
        /\ UNCHANGED <<jobVars, mounted, live, event>>
    BY <1>8 DEF ReadAnswered
  <2>2. excuse' = (reads[n].at = "old" /\ (excuse \/ photoList = "fresh"))
    BY <1>8 DEF ReadAnswered
  <2>3. excuse' \in BOOLEAN /\ loaded' \in BOOLEAN
    BY <2>1, <2>2
  <2>4. reads' \in [Slot -> ListCall]
    BY <1>1, <2>1, FetchOver
  <2>5. Coming'
    <3>1. CASE reads[n].at = "fresh"
      BY <2>1, <3>1 DEF Coming
    <3>2. CASE reads[n].at = "old"
      <4>1. ~Timely(reads[n])
        BY <3>2 DEF Timely
      <4>2. ASSUME NEW k \in Slot, Timely(reads[k]) PROVE \E m \in Slot : Timely(reads'[m])
        BY <1>1, <2>1, <4>1, <4>2, FetchOver
      <4>3. excuse' = (excuse \/ photoList = "fresh")
        BY <2>2, <3>2
      <4> QED
        BY <2>1, <4>2, <4>3 DEF Coming
    <3> QED
      BY <2>1, <3>1, <3>2
  <2> QED
    BY <1>2, <2>1, <2>3, <2>4, <2>5, BatchesRest
<1>9. ASSUME NEW n \in Slot, ReadFails(n) PROVE UploadInv'
  <2>1. /\ reads' = Over(reads, n) /\ excuse'
        /\ UNCHANGED <<jobVars, mounted, live, event, photoList>>
    BY <1>9 DEF ReadFails
  <2>2. excuse' \in BOOLEAN /\ loaded' \in BOOLEAN
    BY <1>9 DEF ReadFails
  <2>3. reads' \in [Slot -> ListCall]
    BY <1>1, <2>1, FetchOver
  <2>4. Coming'
    BY <2>1 DEF Coming
  <2> QED
    BY <1>2, <2>1, <2>2, <2>3, <2>4, BatchesRest
<1> QED
  BY <1>3, <1>4, <1>5, <1>6, <1>7, <1>8, <1>9

(* The page that is left takes its display with it.                        *)
LEMMA LeaveStep == UploadInv /\ LeaveUploads => UploadInv'
<1> SUFFICES ASSUME UploadInv, LeaveUploads PROVE UploadInv'
  OBVIOUS
<1> USE DEF UploadInv
<1>1. /\ UNCHANGED <<job, results, kept, progress, loaded, photoList, reads>>
      /\ homeless' = homeless \cup {b \in Batch : Running(b)}
      /\ showing' = 0 /\ excuse' = (excuse \/ event)
  BY DEF LeaveUploads
<1>2. clearing' \in BOOLEAN /\ mounted' \in BOOLEAN /\ live' \in BOOLEAN
      /\ event' \in BOOLEAN /\ excuse' \in BOOLEAN
  BY DEF LeaveUploads
<1>3. Tables' /\ Reported'
  BY <1>1 DEF Tables, Reported, CompleteIsKept
<1>4. Coming'
  BY <1>1 DEF Coming
<1>5. Owner'
  BY <1>1 DEF Owner, Running
<1>6. UploadsTypeOK'
  BY <1>1, <1>2 DEF UploadsTypeOK
<1> QED
  BY <1>3, <1>4, <1>5, <1>6

-----------------------------------------------------------------------------
(* A step of batch b alone, in which no file is reported or kept.          *)
LEMMA JobStep ==
  ASSUME UploadInv, NEW b \in Batch, NEW now \in [at : Stage, file : Nat, attempt : Nat],
         job' = [job EXCEPT ![b] = now], now.file = job[b].file,
         now.attempt \in 0..MaxRetries, now.at \in {"sent", "refused", "waiting"},
         now.at = "waiting" => now.attempt < MaxRetries,
         job[b].at \notin {"idle", "done"},
         UNCHANGED <<results, kept, homeless, showing, clearing, progress, loaded, listVars>>
  PROVE  UploadInv'
<1> USE DEF UploadInv, listVars
<1>1. job \in [Batch -> [at : Stage, file : Nat, attempt : Nat]]
  BY DEF Tables
<1>2. job'[b] = now /\ \A c \in Batch : c # b => job'[c] = job[c]
  BY <1>1
<1>3. Tables'
  BY <1>1, <1>2 DEF Tables
<1>4. Reported'
  BY <1>2 DEF Reported, CompleteIsKept
<1>5. Coming'
  BY DEF Coming
<1>6. Owner'
  <2>1. \A c \in Batch : Running(c)' = Running(c)
    BY <1>2 DEF Running
  <2>2. homeless \subseteq Batch
    BY DEF UploadsTypeOK
  <2> QED
    BY <1>2, <2>1, <2>2 DEF Owner
<1>7. UploadsTypeOK'
  BY <1>2 DEF UploadsTypeOK
<1> QED
  BY <1>3, <1>4, <1>5, <1>6, <1>7

(* The next file, or the end of the batch.                                 *)
LEMMA FinishedStep ==
  ASSUME UploadInv, NEW b \in Batch, NEW outcome \in {"COMPLETE", "FAULT"},
         job[b].at \in {"sent", "kept", "refused"}, Finished(b, outcome),
         outcome = "COMPLETE" => <<b, job[b].file>> \in kept,
         UNCHANGED <<kept, homeless, loaded, mounted, live, event, photoList, excuse>>
  PROVE  UploadInv'
<1> USE DEF UploadInv
<1> DEFINE i == job[b].file
           last == i = Files[b]
           now == IF last THEN [job[b] EXCEPT !.at = "done"]
                  ELSE [at |-> "sent", file |-> i + 1, attempt |-> 0]
<1>1. job \in [Batch -> [at : Stage, file : Nat, attempt : Nat]] /\ Files[b] \in Nat \ {0}
      /\ MaxRetries \in Nat
  BY UploadsAssumption DEF Tables, Batch
<1>2. i \in 1..Files[b] /\ job[b].attempt \in 0..MaxRetries
  BY DEF UploadsTypeOK
<1>3. ~last => i + 1 \in 1..Files[b]
  BY <1>1, <1>2
<1>4. /\ job' = [job EXCEPT ![b] = now]
      /\ showing' = Displayed(b)
      /\ reads' = IF last THEN fetchPhotos(reads) ELSE reads
      /\ last => Room(reads, 1)
  BY DEF Finished
<1>5. progress' = ~last /\ clearing' = (clearing \/ (last /\ b \notin homeless))
  BY DEF Finished
<1>6. progress' \in BOOLEAN /\ clearing' \in BOOLEAN
  BY <1>5
<1>7. DOMAIN results' = Batch /\ (\A c \in Batch : c # b => results'[c] = results[c])
      /\ results'[b] \in [1..Files[b] -> FileState]
      /\ results'[b][i] = outcome
      /\ \A j \in 1..Files[b] : results'[b][j] = "COMPLETE" => j = i \/ results[b][j] = "COMPLETE"
  <2>1. DOMAIN results = Batch /\ results[b] \in [1..Files[b] -> FileState]
    BY DEF Tables
  <2>2. CASE last
    <3>1. results' = [results EXCEPT ![b] = [results[b] EXCEPT ![i] = outcome]]
      BY <2>2 DEF Finished
    <3> QED
      BY <1>2, <2>1, <3>1 DEF FileState
  <2>3. CASE ~last
    <3> DEFINE row == [[results[b] EXCEPT ![i] = outcome] EXCEPT ![i + 1] = "UPLOADING"]
    <3>1. results' = [results EXCEPT ![b] = row]
      <4>1. results' = [results EXCEPT ![b][i] = outcome, ![b][i + 1] = "UPLOADING"]
        BY <2>3 DEF Finished
      <4> QED
        BY <2>1, <4>1
    <3>2. i \in 1..Files[b] /\ i + 1 \in 1..Files[b] /\ i # i + 1
      BY <1>1, <1>2, <1>3, <2>3
    <3> DEFINE k == i + 1
    <3>3. row \in [1..Files[b] -> FileState] /\ row[i] = outcome /\ row[k] = "UPLOADING"
          /\ \A j \in 1..Files[b] : j # i /\ j # k => row[j] = results[b][j]
      <4> HIDE DEF i, k
      <4> QED
        BY <2>1, <3>2 DEF FileState, k
    <3>4. \A j \in 1..Files[b] : row[j] = "COMPLETE" => j = i \/ results[b][j] = "COMPLETE"
      BY <3>3
    <3> HIDE DEF row
    <3> QED
      BY <2>1, <3>1, <3>3, <3>4
  <2> QED
    BY <2>2, <2>3
<1>8. /\ now \in [at : Stage, file : Nat, attempt : Nat]
      /\ now.file \in 1..Files[b] /\ now.attempt \in 0..MaxRetries
      /\ now.at = IF last THEN "done" ELSE "sent"
  BY <1>1, <1>2, <1>3 DEF Stage
<1> HIDE DEF now
<1>9. job'[b] = now /\ \A c \in Batch : c # b => job'[c] = job[c]
  BY <1>1, <1>4
<1>10. reads' \in [Slot -> ListCall] /\ Coming'
  <2>1. CASE last
    <3>1. reads' \in [Slot -> ListCall] /\ \E n \in Slot : Timely(reads'[n])
      BY <1>4, <2>1, FreeSlot, Fetched DEF Tables
    <3> QED
      BY <3>1 DEF Coming
  <2>2. CASE ~last
    BY <1>4, <2>2 DEF Tables, Coming
  <2> QED
    BY <2>1, <2>2
<1>11. Tables'
  BY <1>1, <1>4, <1>7, <1>8, <1>9, <1>10 DEF Tables
<1>12. Reported'
  <2>1. ASSUME NEW c \in Batch PROVE job'[c].at = "kept" => <<c, job'[c].file>> \in kept'
    BY <1>8, <1>9 DEF Reported
  <2>2. ASSUME NEW c \in Batch, NEW j \in 1..Files[c], results'[c][j] = "COMPLETE"
        PROVE  <<c, j>> \in kept'
    <3>1. CASE c = b
      BY <1>7, <2>2, <3>1 DEF Reported, CompleteIsKept
    <3>2. CASE c # b
      BY <1>7, <2>2, <3>2 DEF Reported, CompleteIsKept
    <3> QED
      BY <3>1, <3>2
  <2> QED
    BY <2>1, <2>2 DEF Reported, CompleteIsKept
<1>13. Owner'
  <2>1. \A c \in Batch : c # b => Running(c)' = Running(c)
    BY <1>9 DEF Running
  <2>2. ~last => Running(b)'
    BY <1>8, <1>9 DEF Running
  <2>3. \A c \in homeless : job'[c].at # "idle"
    BY <1>8, <1>9 DEF Owner, UploadsTypeOK
  <2>4. ASSUME showing' # 0, ~clearing' PROVE \E c \in Batch \ homeless : Running(c)'
    <3>1. CASE b \notin homeless
      BY <1>5, <2>2, <2>4, <3>1
    <3>2. CASE b \in homeless
      <4>1. showing # 0 /\ ~clearing
        BY <1>4, <1>5, <2>4, <3>2 DEF Displayed
      <4>2. PICK c \in Batch \ homeless : Running(c)
        BY <4>1 DEF Owner
      <4> QED
        BY <2>1, <3>2, <4>2
    <3> QED
      BY <3>1, <3>2
  <2>5. progress' => \E c \in Batch : Running(c)'
    BY <1>5, <2>2
  <2> QED
    BY <2>3, <2>4, <2>5 DEF Owner
<1>14. UploadsTypeOK'
  <2>1. \A c \in Batch :
          /\ job'[c].at \in Stage
          /\ job'[c].file \in 1..Files[c] /\ job'[c].attempt \in 0..MaxRetries
          /\ \A j \in 1..Files[c] : results'[c][j] \in FileState
    <3>1. ASSUME NEW c \in Batch, c = b
          PROVE  /\ job'[c].at \in Stage
                 /\ job'[c].file \in 1..Files[c] /\ job'[c].attempt \in 0..MaxRetries
                 /\ \A j \in 1..Files[c] : results'[c][j] \in FileState
      BY <1>7, <1>8, <1>9, <3>1
    <3>2. ASSUME NEW c \in Batch, c # b
          PROVE  /\ job'[c].at \in Stage
                 /\ job'[c].file \in 1..Files[c] /\ job'[c].attempt \in 0..MaxRetries
                 /\ \A j \in 1..Files[c] : results'[c][j] \in FileState
      BY <1>7, <1>9, <3>2 DEF UploadsTypeOK, Stage, FileState
    <3> QED
      BY <3>1, <3>2
  <2>2. showing' \in Batch \cup {0}
    BY <1>4 DEF Displayed, UploadsTypeOK
  <2> QED
    BY <1>6, <2>1, <2>2 DEF UploadsTypeOK, Stage, FileState
<1> QED
  BY <1>10, <1>11, <1>12, <1>13, <1>14

(* A batch begins.                                                         *)
LEMMA ChooseStep ==
  ASSUME UploadInv, NEW b \in Batch, Choose(b)
  PROVE  UploadInv'
<1> USE DEF UploadInv
<1>1. job \in [Batch -> [at : Stage, file : Nat, attempt : Nat]] /\ Files[b] \in Nat \ {0}
      /\ b # 0
  BY UploadsAssumption DEF Tables, Batch
<1>2. /\ job[b].at = "idle" /\ job' = [job EXCEPT ![b].at = "sent"]
      /\ results' = [results EXCEPT ![b][1] = "UPLOADING"] /\ showing' = b
      /\ UNCHANGED <<kept, homeless, clearing, loaded, listVars>>
  BY DEF Choose
<1>3. progress' \in BOOLEAN
  BY DEF Choose
<1>4. /\ job'[b] \in [at : Stage, file : Nat, attempt : Nat]
      /\ job'[b].at = "sent" /\ job'[b].file = job[b].file /\ job'[b].attempt = job[b].attempt
      /\ \A c \in Batch : c # b => job'[c] = job[c]
  BY <1>1, <1>2 DEF Stage
<1>5. /\ DOMAIN results' = Batch /\ \A c \in Batch : c # b => results'[c] = results[c]
      /\ results'[b] \in [1..Files[b] -> FileState]
      /\ \A j \in 1..Files[b] : results'[b][j] = "COMPLETE" => results[b][j] = "COMPLETE"
  <2>1. DOMAIN results = Batch /\ results[b] \in [1..Files[b] -> FileState]
    BY DEF Tables
  <2>2. results' = [results EXCEPT ![b] = [results[b] EXCEPT ![1] = "UPLOADING"]]
    BY <1>2
  <2> QED
    BY <1>1, <2>1, <2>2 DEF FileState
<1>6. Tables'
  BY <1>1, <1>2, <1>4, <1>5 DEF Tables, listVars
<1>7. Reported'
  <2>1. ASSUME NEW c \in Batch PROVE job'[c].at = "kept" => <<c, job'[c].file>> \in kept'
    BY <1>2, <1>4 DEF Reported
  <2>2. ASSUME NEW c \in Batch, NEW j \in 1..Files[c], results'[c][j] = "COMPLETE"
        PROVE  <<c, j>> \in kept'
    <3>1. results[c][j] = "COMPLETE"
      BY <1>5, <2>2
    <3> QED
      BY <1>2, <3>1 DEF Reported, CompleteIsKept
  <2> QED
    BY <2>1, <2>2 DEF Reported, CompleteIsKept
<1>8. Coming'
  BY <1>2 DEF Coming, listVars
<1>9. Owner'
  <2>1. b \notin homeless /\ Running(b)'
    BY <1>2, <1>4 DEF Owner, Running
  <2> QED
    BY <1>2, <1>4, <2>1 DEF Owner, UploadsTypeOK
<1>10. UploadsTypeOK'
  <2>1. ASSUME NEW c \in Batch
        PROVE  /\ job'[c].at \in Stage
               /\ job'[c].file \in 1..Files[c] /\ job'[c].attempt \in 0..MaxRetries
               /\ \A j \in 1..Files[c] : results'[c][j] \in FileState
    <3>1. CASE c = b
      BY <1>4, <1>5, <3>1 DEF UploadsTypeOK, Stage
    <3>2. CASE c # b
      BY <1>4, <1>5, <3>2 DEF UploadsTypeOK, Stage, FileState
    <3> QED
      BY <3>1, <3>2
  <2> QED
    BY <1>2, <1>3, <2>1 DEF UploadsTypeOK, Stage, FileState, listVars
<1> QED
  BY <1>6, <1>7, <1>8, <1>9, <1>10

(* A file is kept, and the library has changed.                            *)
LEMMA KeepsStep ==
  ASSUME UploadInv, NEW b \in Batch, Keeps(b)
  PROVE  UploadInv'
<1> USE DEF UploadInv
<1>1. job \in [Batch -> [at : Stage, file : Nat, attempt : Nat]]
  BY DEF Tables
<1>2. /\ job[b].at = "sent" /\ job' = [job EXCEPT ![b].at = "kept"]
      /\ kept' = kept \cup {<<b, job[b].file>>} /\ LibraryChanges(reads)
      /\ UNCHANGED <<results, homeless, showing, clearing, progress, loaded, mounted, live>>
  BY DEF Keeps
<1>3. /\ job'[b] \in [at : Stage, file : Nat, attempt : Nat]
      /\ job'[b].at = "kept" /\ job'[b].file = job[b].file /\ job'[b].attempt = job[b].attempt
      /\ \A c \in Batch : c # b => job'[c] = job[c]
  BY <1>1, <1>2 DEF Stage
<1>4. /\ reads' \in [Slot -> ListCall] /\ Coming'
      /\ photoList' = "old" /\ event' \in BOOLEAN /\ excuse' \in BOOLEAN
  BY <1>2, Announced
<1>5. Tables'
  BY <1>1, <1>2, <1>3, <1>4 DEF Tables
<1>6. Reported'
  <2>1. \A c \in Batch : job'[c].at = "kept" => <<c, job'[c].file>> \in kept'
    BY <1>2, <1>3 DEF Reported
  <2>2. CompleteIsKept'
    BY <1>2 DEF Reported, CompleteIsKept
  <2> QED
    BY <2>1, <2>2 DEF Reported
<1>7. Owner'
  <2>1. \A c \in Batch : Running(c)' = Running(c)
    BY <1>2, <1>3 DEF Running
  <2> QED
    BY <1>2, <1>3, <2>1 DEF Owner, UploadsTypeOK
<1>8. UploadsTypeOK'
  <2>1. \A f \in kept' : f[1] \in Batch /\ f[2] \in 1..Files[f[1]]
    BY <1>2 DEF UploadsTypeOK
  <2>2. ASSUME NEW c \in Batch
        PROVE  /\ job'[c].at \in Stage
               /\ job'[c].file \in 1..Files[c] /\ job'[c].attempt \in 0..MaxRetries
    <3>1. CASE c = b
      BY <1>3, <3>1 DEF UploadsTypeOK, Stage
    <3>2. CASE c # b
      BY <1>3, <3>2 DEF UploadsTypeOK, Stage
    <3> QED
      BY <3>1, <3>2
  <2> QED
    BY <1>2, <1>4, <2>1, <2>2 DEF UploadsTypeOK, Stage
<1> QED
  BY <1>4, <1>5, <1>6, <1>7, <1>8

(* Every other step of a batch keeps the invariant.                        *)
LEMMA BatchStep ==
  ASSUME UploadInv, NEW b \in Batch, Refuses(b) \/ Load(b) \/ Error(b) \/ Again(b)
  PROVE  UploadInv'
<1>1. job \in [Batch -> [at : Stage, file : Nat, attempt : Nat]] /\ MaxRetries \in Nat
      /\ job[b].attempt \in 0..MaxRetries
  BY UploadsAssumption DEF UploadInv, Tables, UploadsTypeOK
<1>2. ASSUME NEW at \in {"sent", "refused", "waiting"}, job' = [job EXCEPT ![b].at = at],
             at = "waiting" => job[b].attempt < MaxRetries,
             job[b].at \notin {"idle", "done"},
             UNCHANGED <<results, kept, homeless, showing, clearing, progress, loaded, listVars>>
      PROVE  UploadInv'
  <2> DEFINE now == [job[b] EXCEPT !.at = at]
  <2>1. job' = [job EXCEPT ![b] = now]
    BY <1>2
  <2>2. now \in [at : Stage, file : Nat, attempt : Nat] /\ now.at = at
        /\ now.file = job[b].file /\ now.attempt = job[b].attempt
    BY <1>1 DEF Stage
  <2> HIDE DEF now
  <2> QED
    BY <1>1, <1>2, <2>1, <2>2, JobStep
<1>3. CASE Refuses(b)
  BY <1>2, <1>3 DEF Refuses
<1>4. CASE Again(b)
  <2> DEFINE now == [job[b] EXCEPT !.at = "sent", !.attempt = @ + 1]
  <2>1. job[b].at = "waiting" /\ job' = [job EXCEPT ![b] = now]
        /\ UNCHANGED <<results, kept, homeless, showing, clearing, progress, loaded, listVars>>
    BY <1>4 DEF Again
  <2>2. job[b].attempt < MaxRetries
    BY <2>1 DEF UploadInv, Tables
  <2>3. now \in [at : Stage, file : Nat, attempt : Nat] /\ now.at = "sent"
        /\ now.file = job[b].file /\ now.attempt \in 0..MaxRetries
    <3>1. job[b].attempt + 1 \in 0..MaxRetries /\ job[b].attempt + 1 \in Nat
      BY <1>1, <2>2
    <3>2. job[b] \in [at : Stage, file : Nat, attempt : Nat]
      BY <1>1
    <3>3. now = [job[b] EXCEPT !.at = "sent", !.attempt = job[b].attempt + 1]
      OBVIOUS
    <3> QED
      BY <3>1, <3>2, <3>3 DEF Stage
  <2> HIDE DEF now
  <2> QED
    BY <2>1, <2>3, JobStep
<1>5. ASSUME NEW outcome \in {"COMPLETE", "FAULT"}, job[b].at \in {"sent", "kept", "refused"},
             (Retries(b) /\ job[b].attempt < MaxRetries) \/ Finished(b, outcome),
             outcome = "COMPLETE" => <<b, job[b].file>> \in kept,
             UNCHANGED <<kept, homeless, loaded, mounted, live, event, photoList, excuse>>
      PROVE  UploadInv'
  <2>1. CASE Retries(b) /\ job[b].attempt < MaxRetries
    BY <1>2, <1>5, <2>1 DEF Retries, listVars
  <2>2. CASE Finished(b, outcome)
    BY <1>5, <2>2, FinishedStep
  <2> QED
    BY <1>5, <2>1, <2>2
<1>6. CASE Load(b)
  <2>1. /\ Outcome(b) \in {"COMPLETE", "FAULT"}
        /\ Outcome(b) = "COMPLETE" => <<b, job[b].file>> \in kept
    BY DEF Outcome, UploadInv, Reported
  <2>2. /\ job[b].at \in {"sent", "kept", "refused"}
        /\ (Retries(b) /\ job[b].attempt < MaxRetries) \/ Finished(b, Outcome(b))
        /\ UNCHANGED <<kept, homeless, loaded, mounted, live, event, photoList, excuse>>
    BY <1>6 DEF Load
  <2> QED
    BY <1>5, <2>1, <2>2
<1>7. CASE Error(b)
  <2>1. /\ job[b].at \in {"sent", "kept", "refused"}
        /\ (Retries(b) /\ job[b].attempt < MaxRetries) \/ Finished(b, "FAULT")
        /\ UNCHANGED <<kept, homeless, loaded, mounted, live, event, photoList, excuse>>
    BY <1>7 DEF Error
  <2> QED
    BY <1>5, <2>1
<1> QED
  BY <1>3, <1>4, <1>6, <1>7

(* The display goes when its time is over, and is of nobody then.          *)
LEMMA ClearStep == UploadInv /\ ClearDisplay => UploadInv'
<1> SUFFICES ASSUME UploadInv, ClearDisplay PROVE UploadInv'
  OBVIOUS
<1>1. /\ showing' = 0
      /\ UNCHANGED <<job, results, kept, homeless, progress, loaded, listVars>>
  BY DEF ClearDisplay
<1>2. clearing' \in BOOLEAN
  BY DEF ClearDisplay
<1>3. Tables' /\ Reported' /\ Coming' /\ Owner'
  BY <1>1 DEF UploadInv, Tables, Reported, CompleteIsKept, Coming, Owner, Running, listVars
<1>4. UploadsTypeOK'
  BY <1>1, <1>2 DEF UploadInv, UploadsTypeOK, listVars
<1> QED
  BY <1>3, <1>4 DEF UploadInv

(* Every step of the uploads keeps the invariant.                          *)
LEMMA UploadStep == UploadInv /\ [UploadsNext]_uploadVars => UploadInv'
<1> SUFFICES ASSUME UploadInv, [UploadsNext]_uploadVars PROVE UploadInv'
  OBVIOUS
<1>1. CASE UNCHANGED uploadVars
  BY <1>1 DEF uploadVars, UploadInv, UploadsTypeOK, Tables, Reported, CompleteIsKept,
     Coming, Owner, Running
<1>2. CASE UploadsNext
  BY <1>2, ListStep, LeaveStep, ChooseStep, KeepsStep, BatchStep, ClearStep DEF UploadsNext
<1> QED
  BY <1>1, <1>2

(* The invariant of the uploads tells what is asked of them.               *)
LEMMA UploadTold == UploadInv => CompleteIsKept /\ ListIsFresh /\ NoGhostBatch
<1> SUFFICES ASSUME UploadInv PROVE CompleteIsKept /\ ListIsFresh /\ NoGhostBatch
  OBVIOUS
<1>1. CompleteIsKept
  BY DEF UploadInv, Reported
<1>2. ListIsFresh
  BY DEF UploadInv, Coming, Timely, ListIsFresh, Quiet
<1>3. NoGhostBatch
  BY DEF UploadInv, Owner, NoGhostBatch
<1> QED
  BY <1>1, <1>2, <1>3

-----------------------------------------------------------------------------
(***************************************************************************)
(* The users and whose photos are whose (Users).                           *)
(***************************************************************************)
UserRow == [id : 1..MaxId, name : UserName]
UserReply == {"sent", "200", "201", "409"}

(* Any user but the default one.                                           *)
OtherUser == {row \in UserRow : row.id # 1}

(* The requests of the page: none asks to delete the default user.         *)
UserCall ==
  {Idle} \cup [do : {"create"}, at : UserReply, who : [id : {0}, name : UserName]]
         \cup [do : {"delete"}, at : UserReply, who : OtherUser]

(* The default user is there; ids and names are unique.                    *)
Rows ==
  /\ table \in SUBSET UserRow /\ Default \in table
  /\ \A row, other \in table : row.id = other.id \/ row.name = other.name => row = other

(* Neither the list nor the dialog of the page names the id of the default *)
(* user for anybody else.                                                  *)
Spared ==
  /\ userList \in SUBSET UserRow
  /\ \A row \in userList : row.id = 1 => row = Default
  /\ userTarget \in OtherUser \cup {Nobody}
  /\ newName \in UserName \cup {NoName}
  /\ userCalls \in [Slot -> UserCall]

(* The flags tell what is under way, and one user is deleted at a time.    *)
Flags ==
  /\ userCreating => Busy(userCalls, "create")
  /\ userDeleting = Busy(userCalls, "delete")
  /\ Single(userCalls, "delete")

(* The user of an upload exists from its first step on.                    *)
Owned ==
  /\ uploads \in [Upload -> [at : {"none", "named", "stored"}, by : UserName]]
  /\ raced \subseteq Upload
  /\ \A u \in Upload : u \in raced \/ uploads[u].at = "none" \/ Named(uploads[u].by)

UserInv == Rows /\ Spared /\ Flags /\ Owned

-----------------------------------------------------------------------------
(* A set of ids has a greatest one.                                        *)
LEMMA GreatestId ==
  ASSUME NEW S \in SUBSET (1..MaxId), S # {}
  PROVE  Max(S) \in S /\ \A i \in S : Max(S) >= i
<1> DEFINE Below == {MaxId - i : i \in S}
<1>1. MaxId \in Nat
  BY UsersAssumption
<1>2. Below \subseteq Nat /\ Below # {}
  <2>1. \A i \in S : MaxId - i \in Nat
    BY <1>1
  <2>2. PICK i \in S : TRUE
    OBVIOUS
  <2>3. MaxId - i \in Below
    BY <2>2
  <2> QED
    BY <2>1, <2>3
<1> DEFINE Less == OpToRel(<, Nat)
<1>3. IsWellFoundedOn(Less, Nat) /\ \A c, b \in Nat : c < b => <<c, b>> \in Less
  BY NatLessThanWellFounded DEF OpToRel
<1> HIDE DEF Less, Below
<1>4. PICK b \in Below : \A c \in Below : ~ (<<c, b>> \in Less)
  <2>1. IsWellFoundedOn(Less, Nat)
    BY <1>3
  <2> QED
    BY <1>2, <2>1, WFMin
<1>5. \A c \in Below : ~ (c < b)
  BY <1>2, <1>3, <1>4
<1> USE DEF Below
<1>6. PICK m \in S : b = MaxId - m
  BY <1>4
<1>7. \A i \in S : m >= i
  BY <1>1, <1>5, <1>6
<1> QED
  BY <1>7 DEF Max

(* Insert() adds a row with an id of its own.                              *)
LEMMA Inserting ==
  ASSUME Rows, CanInsert, NEW n \in UserName
  PROVE  \E row \in UserRow : /\ row.name = n /\ Insert(n) = table \cup {row}
                             /\ \A other \in table : row.id # other.id
<1> DEFINE ids == {row.id : row \in table}
<1>1. ids \in SUBSET (1..MaxId) /\ 1 \in ids
  BY DEF Rows, UserRow, Default
<1>2. Max(ids) \in ids /\ Max(ids) >= 1
  BY <1>1, GreatestId
<1>3. 1 + Max(ids) \in 1..MaxId /\ 1 + Max(ids) # 1
  BY <1>1, <1>2, UsersAssumption DEF CanInsert
<1>4. [id |-> 1 + Max(ids), name |-> n] \in UserRow
  BY <1>3 DEF UserRow
<1>5. \A other \in table : other.id \in ids /\ 1 + Max(ids) # other.id
  BY <1>1, <1>2, GreatestId, UsersAssumption
<1> QED
  BY <1>4, <1>5 DEF Insert

(* A new user leaves every owner where it is.                              *)
LEMMA Added ==
  ASSUME Rows, Owned, CanInsert, NEW n \in UserName, ~Named(n), table' = Insert(n),
         uploads' = uploads, raced' = raced
  PROVE  Rows' /\ Owned'
<1>1. PICK row \in UserRow : /\ row.name = n /\ table' = table \cup {row}
                            /\ \A other \in table : row.id # other.id
  BY Inserting
<1>2. Rows'
  BY <1>1 DEF Rows, Named
<1> QED
  BY <1>1, <1>2 DEF Owned, Named

(* A user who is deleted leaves its photos to the default user, or the     *)
(* upload is noted.                                                        *)
LEMMA Deleted ==
  ASSUME Rows, Owned, NEW id, id # 1, DeleteUser(id)
  PROVE  Rows' /\ Owned'
<1>1. table' = {row \in table : row.id # id} /\ uploads' = Reassigned(id)
  BY DEF DeleteUser
<1>2. Rows'
  BY <1>1 DEF Rows, Default
<1>6. raced' \subseteq Upload
  BY DEF DeleteUser, Owned
<1>3. "default" \in UserName /\ Default.name = "default" /\ Default \in table'
  BY <1>2, UsersAssumption DEF Default, Rows
<1>4. uploads' \in [Upload -> [at : {"none", "named", "stored"}, by : UserName]]
  BY <1>1, <1>3 DEF Owned, Reassigned
<1>5. ASSUME NEW u \in Upload
      PROVE  u \in raced' \/ uploads'[u].at = "none" \/ Named(uploads[u].by)'
  <2> DEFINE row == [id |-> id, name |-> uploads[u].by]
  <2>1. CASE uploads[u].at = "stored" /\ row \in table
    <3>1. uploads'[u].by = "default"
      BY <1>1, <2>1 DEF Reassigned, Owned
    <3> QED
      BY <1>3, <3>1 DEF Named
  <2>2. CASE uploads[u].at = "named" /\ row \in table
    BY <2>2 DEF DeleteUser
  <2>3. CASE row \notin table
    <3>1. uploads'[u] = uploads[u] /\ raced \subseteq raced'
      BY <1>1, <2>3 DEF Reassigned, DeleteUser
    <3>2. ASSUME NEW r \in table, r.name = uploads[u].by PROVE r \in table'
      <4>1. r = [id |-> r.id, name |-> r.name]
        BY DEF Rows, UserRow
      <4> QED
        BY <1>1, <2>3, <3>2, <4>1
    <3> QED
      BY <3>1, <3>2 DEF Owned, Named
  <2>4. CASE uploads[u].at = "none"
    BY <1>1, <2>4 DEF Reassigned
  <2> QED
    BY <2>1, <2>2, <2>3, <2>4 DEF Owned
<1> QED
  BY <1>2, <1>4, <1>5, <1>6 DEF Owned

(* A step that leaves the server alone keeps what it knows.                *)
LEMMA ServerRests ==
  ASSUME Rows, Owned, UNCHANGED serverVars
  PROVE  Rows' /\ Owned'
BY DEF serverVars, Rows, Owned, Named

(* A step that leaves the requests and their flags alone keeps the latter. *)
LEMMA FlagsRest ==
  ASSUME Flags, UNCHANGED <<userCreating, userDeleting, userCalls>>
  PROVE  Flags'
BY DEF Flags, Busy, Single

(* A request to delete is sent while there is none, one to create at any   *)
(* time; the flags follow.                                                 *)
LEMMA FlagsSent ==
  ASSUME Spared, Flags, Room(userCalls, 1), NEW call \in UserCall,
         userCalls' = Send(userCalls, call),
         \/ call.do = "create" /\ userCreating' = TRUE /\ userDeleting' = userDeleting
         \/ /\ call.do = "delete" /\ ~userDeleting
            /\ userDeleting' = TRUE /\ userCreating' = userCreating
  PROVE  Flags' /\ userCalls' \in [Slot -> UserCall]
<1>1. userCalls \in [Slot -> UserCall] /\ Idle \in UserCall /\ 1 \in Slot
  BY CallsAssumption DEF Spared, UserCall, Slot
<1>2. userCalls' \in [Slot -> UserCall]
  BY <1>1, CallsKept
<1>3. \E k \in Slot : userCalls[k] = Idle
  BY FreeSlot
<1> DEFINE later == Send(userCalls, call)
<1>4. /\ call.do = "create" => Busy(later, "create")
      /\ call.do # "create" => Busy(later, "create") = Busy(userCalls, "create")
  BY <1>1, <1>3, BusySent
<1>5. /\ call.do = "delete" => Busy(later, "delete")
      /\ call.do # "delete" => Busy(later, "delete") = Busy(userCalls, "delete")
      /\ call.do # "delete" => Single(later, "delete")
      /\ ~Busy(userCalls, "delete") => Single(later, "delete")
  BY <1>1, <1>3, BusySent DEF Flags
<1>6. later = userCalls'
  OBVIOUS
<1> HIDE DEF later
<1>7. userCreating' => Busy(userCalls', "create")
  BY <1>4, <1>6 DEF Flags
<1>8. userDeleting' = Busy(userCalls', "delete")
  <2>1. CASE call.do = "create"
    BY <1>5, <1>6, <2>1 DEF Flags
  <2>2. CASE call.do = "delete"
    <3>1. userDeleting' = TRUE /\ Busy(userCalls', "delete")
      BY <1>5, <1>6, <2>2
    <3> QED
      BY <3>1 DEF Busy
  <2> QED
    BY <2>1, <2>2
<1>9. Single(userCalls', "delete")
  BY <1>5, <1>6 DEF Flags
<1> QED
  BY <1>2, <1>6, <1>7, <1>8, <1>9 DEF Flags, Busy, Single

(* The answer to a request ends it, and its flag with it.                  *)
LEMMA FlagsOver ==
  ASSUME Spared, Flags, NEW n \in Slot, userCalls' = Over(userCalls, n),
         \/ /\ userCalls[n].do = "create"
            /\ userCreating' = FALSE /\ userDeleting' = userDeleting
         \/ /\ userCalls[n].do = "delete"
            /\ userDeleting' = FALSE /\ userCreating' = userCreating
  PROVE  Flags' /\ userCalls' \in [Slot -> UserCall]
<1> DEFINE later == Over(userCalls, n)
<1>1. userCalls' \in [Slot -> UserCall]
  BY CallsKept DEF Spared, UserCall
<1>2. userCalls[n].do # "create" => Busy(later, "create") = Busy(userCalls, "create")
  BY BusyOver
<1>3. userCalls[n].do # "delete" => Busy(later, "delete") = Busy(userCalls, "delete")
  BY BusyOver
<1>4. /\ Single(later, "delete")
      /\ userCalls[n].do = "delete" => ~Busy(later, "delete")
  BY SingleOver DEF Flags
<1>5. later = userCalls'
  OBVIOUS
<1> HIDE DEF later
<1>6. userCreating' => Busy(userCalls', "create")
  BY <1>2, <1>5 DEF Flags
<1>7. userDeleting' = Busy(userCalls', "delete")
  <2>1. CASE userCalls[n].do = "create"
    BY <1>3, <1>5, <2>1 DEF Flags
  <2>2. CASE userCalls[n].do = "delete"
    <3>1. userDeleting' = FALSE /\ ~Busy(userCalls', "delete")
      BY <1>4, <1>5, <2>2
    <3> QED
      BY <3>1 DEF Busy
  <2> QED
    BY <2>1, <2>2
<1> QED
  BY <1>1, <1>4, <1>5, <1>6, <1>7 DEF Flags, Busy, Single

-----------------------------------------------------------------------------
(* The handling of a request changes nothing but how far it is.            *)
LEMMA UserCallKept ==
  ASSUME NEW calls \in [Slot -> UserCall], NEW n \in Slot, calls[n] # Idle,
         NEW reply \in UserReply
  PROVE  /\ Handled(calls, n, reply) \in [Slot -> UserCall]
         /\ \A k \in Slot : Handled(calls, n, reply)[k].do = calls[k].do
<1>1. [calls[n] EXCEPT !.at = reply] \in UserCall
      /\ [calls[n] EXCEPT !.at = reply].do = calls[n].do
  BY DEF UserCall, UserReply, OtherUser, UserRow
<1> QED
  BY <1>1 DEF Handled

(* What the server does when it handles a request of the page.             *)
LEMMA UserHandledStep ==
  ASSUME UserInv, NEW n \in Slot, UserCallHandled(n)
  PROVE  UserInv'
<1> DEFINE call == userCalls[n]
<1>1. call # Idle /\ call \in UserCall
  BY DEF UserCallHandled, UserInv, Spared
<1>2. Spared' /\ Flags'
  <2>1. PICK reply \in UserReply : userCalls' = Handled(userCalls, n, reply)
    BY DEF UserCallHandled, UserReply
  <2>2. /\ userCalls' \in [Slot -> UserCall]
        /\ \A k \in Slot : userCalls'[k].do = userCalls[k].do
    BY <1>1, <2>1, UserCallKept DEF UserInv, Spared
  <2>3. UNCHANGED <<userList, userTarget, newName, userCreating, userDeleting>>
    BY DEF UserCallHandled, formVars, dialogVars
  <2>4. Busy(userCalls, "create") = Busy(userCalls', "create")
        /\ Busy(userCalls, "delete") = Busy(userCalls', "delete")
    BY <2>2 DEF Busy
  <2>5. Single(userCalls', "delete")
    BY <2>2 DEF UserInv, Flags, Single
  <2>6. Flags'
    BY <2>3, <2>4, <2>5 DEF UserInv, Flags, Busy, Single
  <2> QED
    BY <2>2, <2>3, <2>6 DEF UserInv, Spared
<1>3. CASE /\ call.do = "create" /\ ~Named(call.who.name) /\ CanInsert
           /\ table' = Insert(call.who.name)
           /\ UNCHANGED <<uploads, raced>>
  <2>1. call.who.name \in UserName
    BY <1>1, <1>3 DEF UserCall, Idle
  <2> QED
    BY <1>2, <1>3, <2>1, Added DEF UserInv
<1>4. CASE UNCHANGED serverVars
  BY <1>2, <1>4, ServerRests DEF UserInv
<1>5. CASE call.do = "delete" /\ DeleteUser(call.who.id)
  <2>1. call.who.id # 1
    BY <1>1, <1>5 DEF UserCall, OtherUser, Idle
  <2> QED
    BY <1>2, <1>5, <2>1, Deleted DEF UserInv
<1> QED
  BY <1>3, <1>4, <1>5 DEF UserCallHandled

(* At the start there is the default user and nothing under way.           *)
LEMMA UserStart == UsersInit => UserInv
<1> SUFFICES ASSUME UsersInit PROVE UserInv
  OBVIOUS
<1>1. Default \in UserRow
  BY UsersAssumption DEF Default, UserRow
<1>2. Rows
  BY <1>1 DEF UsersInit, Rows
<1>3. Spared
  BY DEF UsersInit, Spared, UserCall, Quiet
<1>4. \A n \in Slot : userCalls[n].do = "idle"
  BY DEF UsersInit, Quiet, Idle
<1>5. ~Busy(userCalls, "create") /\ ~Busy(userCalls, "delete")
      /\ Single(userCalls, "delete")
  BY <1>4 DEF Busy, Single
<1>6. userDeleting = Busy(userCalls, "delete")
  BY <1>5 DEF UsersInit, Busy
<1>7. Flags
  BY <1>5, <1>6 DEF UsersInit, Flags
<1>8. Owned
  BY UsersAssumption DEF UsersInit, Owned
<1> QED
  BY <1>2, <1>3, <1>7, <1>8 DEF UserInv

(* Every step keeps the invariant.                                         *)
LEMMA UserStep == UserInv /\ [UsersNext]_userVars => UserInv'
<1> SUFFICES ASSUME UserInv, [UsersNext]_userVars PROVE UserInv'
  OBVIOUS
<1>0. Rows /\ Spared /\ Flags /\ Owned
  BY DEF UserInv
<1>1. ASSUME UNCHANGED <<userList, newName, userTarget, userCalls>> PROVE Spared'
  BY <1>0, <1>1 DEF Spared
<1>2. CASE fetchUsers
  <2>1. Spared' /\ Flags'
    BY <1>0, <1>2, FlagsRest DEF fetchUsers, formVars, dialogVars, Spared, Rows, Default
  <2> QED
    BY <1>0, <1>2, <2>1, ServerRests DEF fetchUsers, UserInv
<1>3. CASE createUser
  <2>1. [do |-> "create", at |-> "sent", who |-> [id |-> 0, name |-> newName]] \in UserCall
    BY <1>0, <1>3 DEF createUser, Spared, UserCall, UserReply
  <2>2. userCalls' \in [Slot -> UserCall] /\ Flags'
    BY <1>0, <1>3, <2>1, FlagsSent DEF createUser, dialogVars
  <2>3. Spared' /\ Flags'
    BY <1>0, <1>3, <2>2 DEF createUser, dialogVars, Spared
  <2> QED
    BY <1>0, <1>3, <2>3, ServerRests DEF createUser, UserInv
<1>4. CASE CancelDeleteUser
  <2>1. Spared' /\ Flags'
    BY <1>0, <1>4, FlagsRest DEF CancelDeleteUser, formVars, Spared
  <2> QED
    BY <1>0, <1>4, <2>1, ServerRests DEF CancelDeleteUser, UserInv
<1>5. CASE confirmDelete
  <2>1. [do |-> "delete", at |-> "sent", who |-> userTarget] \in UserCall
    BY <1>0, <1>5 DEF confirmDelete, Spared, UserCall, UserReply
  <2>2. userCalls' \in [Slot -> UserCall] /\ Flags'
    BY <1>0, <1>5, <2>1, FlagsSent DEF confirmDelete, formVars
  <2>3. Spared' /\ Flags'
    BY <1>0, <1>5, <2>2 DEF confirmDelete, formVars, Spared
  <2> QED
    BY <1>0, <1>5, <2>3, ServerRests DEF confirmDelete, UserInv
<1>6. ASSUME NEW n \in UserName \cup {NoName}, EnterName(n) PROVE UserInv'
  <2>1. Spared' /\ Flags'
    BY <1>0, <1>6, FlagsRest DEF EnterName, dialogVars, Spared
  <2> QED
    BY <1>0, <1>6, <2>1, ServerRests DEF EnterName, UserInv
<1>7. ASSUME NEW n \in UserName, OthersCreate(n) PROVE UserInv'
  BY <1>0, <1>1, <1>7, Added, FlagsRest DEF OthersCreate, formVars, dialogVars, UserInv
<1>8. ASSUME NEW row \in table, OthersDelete(row) PROVE UserInv'
  <2>1. row.id # 1
    BY <1>0, <1>8 DEF OthersDelete, Rows, Default
  <2> QED
    BY <1>0, <1>1, <1>8, <2>1, Deleted, FlagsRest DEF OthersDelete, formVars, dialogVars, UserInv
<1>9. ASSUME NEW u \in Upload, NEW n \in UserName, UploadBegins(u, n) PROVE UserInv'
  <2>1. Spared' /\ Flags'
    BY <1>0, <1>1, <1>9, FlagsRest DEF UploadBegins, formVars, dialogVars
  <2>2. Rows' /\ Named(n)' /\ table \subseteq table'
    <3>1. CASE Named(n)
      BY <1>0, <1>9, <3>1 DEF UploadBegins, Rows, Named
    <3>2. CASE ~Named(n)
      <4>1. CanInsert /\ table' = Insert(n)
        BY <1>9, <3>2 DEF UploadBegins
      <4>2. PICK row \in UserRow : /\ row.name = n /\ table' = table \cup {row}
                                /\ \A other \in table : row.id # other.id
        BY <1>0, <4>1, Inserting
      <4> QED
        BY <1>0, <3>2, <4>2 DEF Rows, Named
    <3> QED
      BY <3>1, <3>2
  <2>3. Owned'
    BY <1>0, <1>9, <2>2 DEF UploadBegins, Owned, Named
  <2> QED
    BY <2>1, <2>2, <2>3 DEF UserInv
<1>10. ASSUME NEW u \in Upload, UploadStored(u) PROVE UserInv'
  <2>1. Spared' /\ Rows' /\ Flags'
    BY <1>0, <1>1, <1>10, FlagsRest DEF UploadStored, formVars, dialogVars, Rows
  <2>2. Owned'
    BY <1>0, <1>10 DEF UploadStored, Owned, Named
  <2> QED
    BY <2>1, <2>2 DEF UserInv
<1>11. ASSUME NEW n \in Slot, UserCallHandled(n) PROVE UserInv'
  BY <1>11, UserHandledStep
<1>12. ASSUME NEW n \in Slot, CreateUserAnswered(n) \/ DeleteUserAnswered(n)
       PROVE  UserInv'
  <2>1. userCalls' \in [Slot -> UserCall] /\ Flags'
    BY <1>0, <1>12, FlagsOver DEF CreateUserAnswered, DeleteUserAnswered, formVars,
       dialogVars
  <2>2. Spared'
    BY <1>0, <1>12, <2>1 DEF CreateUserAnswered, DeleteUserAnswered, formVars,
       dialogVars, Spared
  <2> QED
    BY <1>0, <1>12, <2>1, <2>2, ServerRests DEF CreateUserAnswered,
       DeleteUserAnswered, UserInv
<1>13. ASSUME NEW user \in userList, AskDeleteUser(user) PROVE UserInv'
  <2>1. user \in OtherUser
    BY <1>0, <1>13 DEF AskDeleteUser, Spared, Default, OtherUser
  <2>2. Spared' /\ Flags'
    BY <1>0, <1>13, <2>1, FlagsRest DEF AskDeleteUser, formVars, Spared
  <2> QED
    BY <1>0, <1>13, <2>2, ServerRests DEF AskDeleteUser, UserInv
<1>14. CASE UNCHANGED userVars
  BY <1>0, <1>1, <1>14, ServerRests, FlagsRest DEF userVars, serverVars, UserInv
<1> QED
  BY <1>2, <1>3, <1>4, <1>5, <1>6, <1>7, <1>8, <1>9, <1>10, <1>11, <1>12, <1>13,
     <1>14 DEF UsersNext

(* The types, and that each upload has its owner.                          *)
LEMMA UserTold == UserInv => UsersTypeOK /\ OwnersExist
<1> SUFFICES ASSUME UserInv PROVE UsersTypeOK /\ OwnersExist
  OBVIOUS
<1>1. UsersTypeOK
  BY DEF UserInv, Rows, Spared, Flags, Owned, UsersTypeOK, UserRow
<1> QED
  BY <1>1 DEF UserInv, Owned, OwnersExist, HasOwner

-----------------------------------------------------------------------------
(***************************************************************************)
(* The screen of the TV (Display).                                         *)
(***************************************************************************)
Event == Told \cup {"wifi:connected", "wifi:failed", "sync"}
Reason == {"photo:deleted", "sync", "poll", "wifi:connected", "boot"}
StatusCall == {Idle} \cup [do : Reason, at : {"sent", "handled"}, said : BOOLEAN]
Screens == {"boot", "setup", "welcome", "slideshow"}
Kind == {"stale", "crossed", "other"}

OnTheWay == arriving \in Seq(Event) /\ asks \in [Slot -> StatusCall]

(* An event or a request of one of some kinds is on its way, or owed.      *)
Pending(kinds) ==
  \/ \E i \in 1..Len(arriving) : arriving[i] \in kinds
  \/ \E n \in Slot : asks[n].do \in kinds
  \/ \E sign \in Told : sign \in kinds /\ owed[sign] > 0

(* When the library is empty, each photo:added is followed by a            *)
(* photo:deleted, perhaps one that is still owed.                          *)
NoLateAddition ==
  ~media /\ owed["photo:deleted"] = 0 =>
    \A i \in 1..Len(arriving) : arriving[i] = "photo:added" =>
      \E j \in 1..Len(arriving) : j > i /\ arriving[j] = "photo:deleted"

(* A slideshow of nothing, and a welcome although there are photos, will   *)
(* be corrected by something that is on its way.                           *)
WillEmpty == ~media /\ displayState = "slideshow" => Pending({"photo:deleted", "sync"})
WillFill == media /\ displayState = "welcome" => Pending({"photo:added", "sync"})

Corrected == NoLateAddition /\ WillEmpty /\ WillFill

DisplayInv == DisplayTypeOK /\ OnTheWay /\ (misled = "no" => Corrected)

Settled == /\ displayState = Screen(media)
           /\ owed = NothingOwed /\ arriving = <<>> /\ asks = Quiet

-----------------------------------------------------------------------------
(* A step that notes an incident or none.                                  *)
LEMMA Noted ==
  ASSUME NEW incident \in Kind, NEW happens, Note(incident, happens),
         misled \in {"no"} \cup Kind, misled = "no" /\ ~happens => Corrected'
  PROVE  misled' \in {"no"} \cup Kind /\ (misled' = "no" => Corrected')
<1> DEFINE settled == /\ displayState' = Screen(media')
                      /\ owed' = NothingOwed /\ arriving' = <<>> /\ asks' = Quiet
<1>1. misled' = IF settled THEN "no" ELSE IF ~happens THEN misled
                ELSE IF misled \in {"no", incident} THEN incident ELSE "other"
  BY DEF Note
<1>2. settled = Settled'
  BY DEF Settled, Quiet, Screen, NothingOwed
<1> HIDE DEF settled
<1>3. misled' \in {"no"} \cup Kind
  BY <1>1 DEF Kind
<1>4. ASSUME misled' = "no" PROVE Corrected'
  <2>1. CASE settled
    <3>1. Settled'
      BY <1>2, <2>1
    <3> QED
      BY <3>1 DEF Settled, Corrected, NoLateAddition, WillEmpty, WillFill, Screen
  <2>2. CASE ~settled
    BY <1>1, <1>4, <2>2 DEF Kind
  <2> QED
    BY <2>1, <2>2
<1> QED
  BY <1>3, <1>4

(* What the invariant says of the types.                                   *)
LEMMA DisplayTypes ==
  ASSUME DisplayInv
  PROVE  /\ media \in BOOLEAN /\ displayState \in Screens
         /\ bootStatus \in {{}, {TRUE}, {FALSE}}
         /\ misled \in {"no"} \cup Kind /\ owed \in [Told -> Nat]
         /\ arriving \in Seq(Event) /\ asks \in [Slot -> StatusCall]
         /\ Len(arriving) <= MaxEvents /\ MaxEvents \in Nat /\ MaxHandlers \in Nat
         /\ (misled = "no" => Corrected)
BY DisplayAssumption DEF DisplayInv, DisplayTypeOK, Screens, Kind, OnTheWay

(* The invariant, part by part.                                            *)
LEMMA DisplayParts ==
  ASSUME media' \in BOOLEAN, bootStatus' \in {{}, {TRUE}, {FALSE}},
         displayState' \in Screens, booting' \in {"typing", "greeting", "done"},
         stream' \in {"closed", "open"}, Len(arriving') <= MaxEvents,
         owed' \in [Told -> Nat], Handling' <= MaxHandlers,
         displayState' = "boot" => booting' # "done" \/ Busy(asks', "boot"),
         arriving' \in Seq(Event), asks' \in [Slot -> StatusCall],
         misled' \in {"no"} \cup Kind, misled' = "no" => Corrected'
  PROVE  DisplayInv'
BY DEF DisplayInv, DisplayTypeOK, OnTheWay, Screens, Kind, Busy

(* A request that is sent is on its way from then on, next to the rest.    *)
LEMMA StatusSent ==
  ASSUME OnTheWay, NEW why \in Reason, Room(asks, 1)
  PROVE  /\ AskStatus(why) \in [Slot -> StatusCall]
         /\ \E k \in Slot : AskStatus(why)[k].do = why
         /\ \A kinds : (\E n \in Slot : asks[n].do \in kinds) /\ "idle" \notin kinds
                       => \E n \in Slot : AskStatus(why)[n].do \in kinds
         /\ Busy(asks, "boot") => Busy(AskStatus(why), "boot")
<1> DEFINE call == [do |-> why, at |-> "sent", said |-> FALSE]
<1>1. call \in StatusCall /\ call.do = why
  BY DEF StatusCall
<1>2. AskStatus(why) = Send(asks, call)
  BY DEF AskStatus
<1> HIDE DEF call
<1>3. asks \in [Slot -> StatusCall]
  BY DEF OnTheWay
<1>4. PICK k \in Slot : asks[k] = Idle /\ Send(asks, call) = [asks EXCEPT ![k] = call]
  BY FreeSlot, Sending
<1>5. AskStatus(why) \in [Slot -> StatusCall] /\ AskStatus(why)[k].do = why
      /\ \A n \in Slot : n # k => AskStatus(why)[n] = asks[n]
  BY <1>1, <1>2, <1>3, <1>4
<1>6. asks[k].do = "idle"
  BY <1>4 DEF Idle
<1>7. ASSUME NEW kinds, NEW n \in Slot, asks[n].do \in kinds, "idle" \notin kinds
      PROVE  \E m \in Slot : AskStatus(why)[m].do \in kinds
  BY <1>5, <1>6, <1>7
<1>8. Busy(asks, "boot") => Busy(AskStatus(why), "boot")
  BY <1>5, <1>6 DEF Busy
<1> QED
  BY <1>5, <1>7, <1>8

(* A request that is over leaves the others on their way.                  *)
LEMMA StatusOver ==
  ASSUME OnTheWay, NEW n \in Slot
  PROVE  /\ Over(asks, n) \in [Slot -> StatusCall]
         /\ \A kinds : (\E k \in Slot : asks[k].do \in kinds) /\ asks[n].do \notin kinds
                       => \E m \in Slot : Over(asks, n)[m].do \in kinds
         /\ asks[n].do # "boot" /\ Busy(asks, "boot") => Busy(Over(asks, n), "boot")
<1>1. asks \in [Slot -> StatusCall] /\ Idle \in StatusCall
  BY DEF OnTheWay, StatusCall
<1>2. Over(asks, n) \in [Slot -> StatusCall]
  BY <1>1, CallsKept
<1>3. ASSUME NEW kinds, NEW k \in Slot, asks[k].do \in kinds, asks[n].do \notin kinds
      PROVE  \E m \in Slot : Over(asks, n)[m].do \in kinds
  <2>1. k \in Slot \ {n}
    BY <1>3
  <2>2. PICK m \in Slot : Over(asks, n)[m] = asks[k]
    BY <2>1, Leaving
  <2> QED
    BY <1>3, <2>2
<1>4. asks[n].do # "boot" /\ Busy(asks, "boot") => Busy(Over(asks, n), "boot")
  BY BusyOver
<1> QED
  BY <1>2, <1>3, <1>4

-----------------------------------------------------------------------------
(* The TV begins to boot with nothing on its way.                          *)
LEMMA DisplayStart == DisplayInit => DisplayInv
<1> SUFFICES ASSUME DisplayInit PROVE DisplayInv
  OBVIOUS
<1>1. OnTheWay
  BY DEF DisplayInit, OnTheWay, Quiet, StatusCall
<1>2. owed["photo:added"] = 0 /\ owed["photo:deleted"] = 0 /\ owed \in [Told -> Nat]
  BY DEF DisplayInit, NothingOwed, Told
<1>3. DisplayTypeOK
  BY <1>2, DisplayAssumption DEF DisplayInit, DisplayTypeOK, Handling
<1>4. Corrected
  BY DEF DisplayInit, Corrected, NoLateAddition, WillEmpty, WillFill
<1> QED
  BY <1>1, <1>3, <1>4 DEF DisplayInv

(* A change whose event is owed is pending.                                *)
LEMMA ChangeStep ==
  ASSUME DisplayInv, PhotoAdded \/ PhotoDeleted
  PROVE  DisplayInv'
<1>1. PICK m \in BOOLEAN, sign \in Told :
         Changes(m, sign) /\ (m # media => sign = IF m THEN "photo:added" ELSE "photo:deleted")
  <2>1. CASE PhotoAdded
    BY <2>1 DEF PhotoAdded, Told
  <2>2. CASE PhotoDeleted
    <3>1. PICK m \in {FALSE, media} : Changes(m, "photo:deleted")
      BY <2>2 DEF PhotoDeleted
    <3>2. media \in BOOLEAN
      BY DisplayTypes
    <3> QED
      BY <3>1, <3>2 DEF Told
  <2> QED
    BY <2>1, <2>2
<1>2. /\ media' = m /\ Handling < MaxHandlers /\ owed' = [owed EXCEPT ![sign] = @ + 1]
      /\ UNCHANGED <<displayState, booting, bootStatus, stream, arriving, asks, misled>>
  BY <1>1 DEF Changes, bootVars
<1>3. /\ owed \in [Told -> Nat] /\ media \in BOOLEAN /\ MaxHandlers \in Nat
      /\ (misled = "no" => NoLateAddition /\ WillEmpty /\ WillFill)
  BY DisplayTypes DEF Corrected
<1>4. /\ owed' \in [Told -> Nat] /\ owed'[sign] = owed[sign] + 1 /\ owed'[sign] > 0
      /\ \A other \in Told : other # sign => owed'[other] = owed[other]
  BY <1>2, <1>3
<1>5. Handling' <= MaxHandlers
  <2>1. owed["photo:added"] \in Nat /\ owed["photo:deleted"] \in Nat
    BY <1>3 DEF Told
  <2>2. CASE sign = "photo:added"
    BY <1>2, <1>3, <1>4, <2>1, <2>2 DEF Handling, Told
  <2>3. CASE sign = "photo:deleted"
    BY <1>2, <1>3, <1>4, <2>1, <2>3 DEF Handling, Told
  <2> QED
    BY <2>2, <2>3 DEF Told
<1>6. ASSUME NEW kinds, Pending(kinds) \/ sign \in kinds PROVE Pending(kinds)'
  <2>1. CASE sign \in kinds
    BY <1>4, <2>1 DEF Pending
  <2>2. CASE \E other \in Told : other \in kinds /\ owed[other] > 0
    <3>1. PICK other \in Told : other \in kinds /\ owed[other] > 0
      BY <2>2
    <3>2. owed'[other] > 0
      BY <1>3, <1>4, <3>1
    <3>3. \E one \in Told : one \in kinds /\ owed'[one] > 0
      BY <3>1, <3>2
    <3> QED
      BY <3>3 DEF Pending
  <2>3. CASE \/ \E i \in 1..Len(arriving) : arriving[i] \in kinds
             \/ \E n \in Slot : asks[n].do \in kinds
    BY <1>2, <2>3 DEF Pending
  <2> QED
    BY <1>6, <2>1, <2>2, <2>3 DEF Pending
<1>7. ASSUME misled = "no" PROVE Corrected'
  <2>1. NoLateAddition'
    <3> SUFFICES ASSUME ~media', owed'["photo:deleted"] = 0 PROVE NoLateAddition'
      BY DEF NoLateAddition
    <3>1. ~media /\ owed["photo:deleted"] = 0
      BY <1>1, <1>2, <1>3, <1>4 DEF Told
    <3> QED
      BY <1>2, <1>3, <1>7, <3>1 DEF NoLateAddition
  <2>2. WillEmpty'
    <3> SUFFICES ASSUME ~media', displayState' = "slideshow" PROVE Pending({"photo:deleted", "sync"})'
      BY DEF WillEmpty
    <3>1. Pending({"photo:deleted", "sync"}) \/ sign = "photo:deleted"
      BY <1>1, <1>2, <1>3, <1>7 DEF WillEmpty
    <3>2. Pending({"photo:deleted", "sync"}) \/ sign \in {"photo:deleted", "sync"}
      BY <3>1
    <3> QED
      BY <1>6, <3>2
  <2>3. WillFill'
    <3> SUFFICES ASSUME media', displayState' = "welcome" PROVE Pending({"photo:added", "sync"})'
      BY DEF WillFill
    <3>1. Pending({"photo:added", "sync"}) \/ sign = "photo:added"
      BY <1>1, <1>2, <1>3, <1>7 DEF WillFill
    <3>2. Pending({"photo:added", "sync"}) \/ sign \in {"photo:added", "sync"}
      BY <3>1
    <3> QED
      BY <1>6, <3>2
  <2> QED
    BY <2>1, <2>2, <2>3 DEF Corrected
<1>8. displayState' = "boot" => booting' # "done" \/ Busy(asks', "boot")
  BY <1>2 DEF DisplayInv, DisplayTypeOK
<1> QED
  BY <1>2, <1>4, <1>5, <1>7, <1>8, DisplayTypes, DisplayParts DEF DisplayInv, DisplayTypeOK

(* A change that nothing is sent for is an incident.                       *)
LEMMA SilentStep ==
  ASSUME DisplayInv, PhotosGone \/ DeletionUndone
  PROVE  DisplayInv'
<1>1. /\ owed \in [Told -> Nat] /\ MaxHandlers \in Nat /\ media \in BOOLEAN
      /\ owed["photo:added"] \in Nat /\ owed["photo:deleted"] \in Nat
      /\ Handling <= MaxHandlers
  BY DisplayTypes DEF DisplayInv, DisplayTypeOK, Told
<1>2. PICK m \in BOOLEAN : ChangesSilently(m) /\ (m = media => m)
  BY <1>1 DEF PhotosGone, DeletionUndone
<1>3. /\ media' = m /\ Note("other", m # media)
      /\ UNCHANGED <<displayState, booting, bootStatus, stream, arriving, asks>>
  BY <1>2 DEF ChangesSilently, bootVars
<1>4. /\ owed' \in [Told -> Nat] /\ Handling' <= MaxHandlers
      /\ owed'["photo:added"] = owed["photo:added"]
  <2>1. CASE owed' = owed
    BY <1>1, <2>1 DEF Handling
  <2>2. CASE DeletionUndone
    <3>1. /\ owed["photo:deleted"] > 0
          /\ owed' = [owed EXCEPT !["photo:deleted"] = @ - 1]
      BY <2>2 DEF DeletionUndone
    <3> QED
      BY <1>1, <3>1 DEF Handling, Told
  <2> QED
    BY <2>1, <2>2 DEF PhotosGone
<1>5. ASSUME misled = "no", ~(m # media) PROVE Corrected'
  <2>1. media /\ media'
    BY <1>2, <1>3, <1>5
  <2>2. WillFill
    BY <1>5, DisplayTypes DEF Corrected
  <2>3. Pending({"photo:added", "sync"}) => Pending({"photo:added", "sync"})'
    BY <1>3, <1>4 DEF Pending, Told
  <2> QED
    BY <1>3, <2>1, <2>2, <2>3 DEF Corrected, NoLateAddition, WillEmpty, WillFill
<1>6. misled' \in {"no"} \cup Kind /\ (misled' = "no" => Corrected')
  BY <1>3, <1>5, DisplayTypes, Noted DEF Kind
<1>7. displayState' = "boot" => booting' # "done" \/ Busy(asks', "boot")
  BY <1>3 DEF DisplayInv, DisplayTypeOK
<1> QED
  BY <1>3, <1>4, <1>6, <1>7, DisplayTypes, DisplayParts DEF DisplayInv, DisplayTypeOK

(* An event is queued behind those on their way.                           *)
LEMMA Queuing ==
  ASSUME DisplayInv, NEW sign \in Event, Queue(sign)
  PROVE  /\ arriving' \in Seq(Event) /\ Len(arriving') <= MaxEvents
         /\ Len(arriving') = Len(arriving) + 1 /\ Len(arriving) \in Nat
         /\ arriving'[Len(arriving) + 1] = sign
         /\ \A i \in 1..Len(arriving) : arriving'[i] = arriving[i]
<1>1. arriving \in Seq(Event) /\ MaxEvents \in Nat
  BY DisplayTypes
<1>2. Len(arriving) < MaxEvents /\ arriving' = Append(arriving, sign)
  BY DEF Queue
<1> QED
  BY <1>1, <1>2

(* Whatever is queued, what was to be corrected still will be.             *)
LEMMA QueuedIsCorrect ==
  ASSUME DisplayInv, NEW sign \in Event, Queue(sign), misled = "no",
         UNCHANGED <<media, displayState, asks>>, owed' \in [Told -> Nat],
         \A other \in Told : other # sign => owed'[other] = owed[other],
         sign = "photo:added" /\ ~media => owed["photo:deleted"] > 0
  PROVE  Corrected'
<1>1. /\ Len(arriving') = Len(arriving) + 1 /\ Len(arriving) \in Nat
      /\ arriving'[Len(arriving) + 1] = sign
      /\ \A i \in 1..Len(arriving) : arriving'[i] = arriving[i]
  BY Queuing
<1>2. NoLateAddition /\ WillEmpty /\ WillFill /\ owed \in [Told -> Nat]
  BY DisplayTypes DEF Corrected
<1>3. \E i \in 1..Len(arriving') : arriving'[i] = sign
  BY <1>1
<1>4. ASSUME NEW kinds, Pending(kinds) \/ sign \in kinds PROVE Pending(kinds)'
  <2>1. CASE sign \in kinds
    BY <1>3, <2>1 DEF Pending
  <2>2. CASE sign \notin kinds /\ \E other \in Told : other \in kinds /\ owed[other] > 0
    <3>1. \E other \in Told : other \in kinds /\ owed'[other] > 0
      BY <2>2
    <3> QED
      BY <3>1 DEF Pending
  <2>3. CASE \E i \in 1..Len(arriving) : arriving[i] \in kinds
    <3>1. \E i \in 1..Len(arriving') : arriving'[i] \in kinds
      BY <1>1, <2>3
    <3> QED
      BY <3>1 DEF Pending
  <2>4. CASE \E n \in Slot : asks[n].do \in kinds
    BY <2>4 DEF Pending
  <2> QED
    BY <1>4, <2>1, <2>2, <2>3, <2>4 DEF Pending
<1>5. NoLateAddition'
  <2> SUFFICES ASSUME ~media, owed'["photo:deleted"] = 0,
                      NEW i \in 1..Len(arriving'), arriving'[i] = "photo:added"
               PROVE  \E j \in 1..Len(arriving') : j > i /\ arriving'[j] = "photo:deleted"
    BY DEF NoLateAddition
  <2>1. CASE sign = "photo:deleted"
    <3>1. i # Len(arriving) + 1
      BY <1>1, <2>1
    <3>2. Len(arriving) + 1 \in 1..Len(arriving') /\ Len(arriving) + 1 > i
      BY <1>1, <3>1
    <3> QED
      BY <1>1, <2>1, <3>2
  <2>2. CASE sign # "photo:deleted"
    <3>1. owed["photo:deleted"] = 0 /\ sign # "photo:added"
      BY <2>2 DEF Told
    <3>2. i \in 1..Len(arriving) /\ arriving[i] = "photo:added"
      BY <1>1, <3>1
    <3>3. PICK j \in 1..Len(arriving) : j > i /\ arriving[j] = "photo:deleted"
      BY <1>2, <3>1, <3>2 DEF NoLateAddition
    <3>4. j \in 1..Len(arriving') /\ arriving'[j] = "photo:deleted"
      BY <1>1, <3>3
    <3> QED
      BY <3>3, <3>4
  <2> QED
    BY <2>1, <2>2
<1>6. Pending({"photo:deleted", "sync"}) => Pending({"photo:deleted", "sync"})'
  BY <1>4
<1>7. Pending({"photo:added", "sync"}) => Pending({"photo:added", "sync"})'
  BY <1>4
<1>8. WillEmpty' /\ WillFill'
  BY <1>2, <1>6, <1>7 DEF WillEmpty, WillFill
<1> QED
  BY <1>5, <1>8 DEF Corrected

(* An owed event is queued, or lost.                                       *)
LEMMA NotifyStep ==
  ASSUME DisplayInv, NEW sign \in Told, Notify(sign)
  PROVE  DisplayInv'
<1>1. /\ owed[sign] > 0 /\ owed' = [owed EXCEPT ![sign] = @ - 1]
      /\ UNCHANGED <<media, displayState, booting, bootStatus, stream, asks>>
  BY DEF Notify, bootVars
<1>2. /\ owed \in [Told -> Nat] /\ MaxHandlers \in Nat /\ Handling <= MaxHandlers
      /\ misled \in {"no"} \cup Kind
  BY DisplayTypes DEF DisplayInv, DisplayTypeOK
<1>3. /\ owed' \in [Told -> Nat] /\ owed'[sign] = owed[sign] - 1
      /\ \A other \in Told : other # sign => owed'[other] = owed[other]
  BY <1>1, <1>2
<1>4. Handling' <= MaxHandlers
  <2>1. owed["photo:added"] \in Nat /\ owed["photo:deleted"] \in Nat
    BY <1>2 DEF Told
  <2>2. CASE sign = "photo:added"
    BY <1>2, <1>3, <2>1, <2>2 DEF Handling, Told
  <2>3. CASE sign = "photo:deleted"
    BY <1>2, <1>3, <2>1, <2>3 DEF Handling, Told
  <2> QED
    BY <2>2, <2>3 DEF Told
<1>5. displayState' = "boot" => booting' # "done" \/ Busy(asks', "boot")
  BY <1>1 DEF DisplayInv, DisplayTypeOK
<1>6. CASE stream = "open"
  <2> DEFINE late == sign = "photo:added" /\ ~media /\ owed["photo:deleted"] = 0
  <2>1. Queue(sign) /\ Note("crossed", late)
    BY <1>6 DEF Notify
  <2>2. sign \in Event
    BY DEF Event
  <2>3. ASSUME misled = "no", ~late PROVE Corrected'
    <3>1. sign = "photo:added" /\ ~media => owed["photo:deleted"] > 0
      BY <1>2, <2>3 DEF Told
    <3> QED
      BY <1>1, <1>3, <2>1, <2>2, <2>3, <3>1, QueuedIsCorrect
  <2> HIDE DEF late
  <2>4. misled' \in {"no"} \cup Kind /\ (misled' = "no" => Corrected')
    BY <1>2, <2>1, <2>3, Noted DEF Kind
  <2>5. arriving' \in Seq(Event) /\ Len(arriving') <= MaxEvents
    BY <2>1, <2>2, Queuing
  <2> QED
    BY <1>1, <1>3, <1>4, <1>5, <2>4, <2>5, DisplayTypes, DisplayParts
    DEF DisplayInv, DisplayTypeOK
<1>7. CASE stream # "open"
  <2>1. arriving' = arriving /\ Note("other", TRUE)
    BY <1>7 DEF Notify
  <2>2. misled' \in {"no"} \cup Kind /\ (misled' = "no" => Corrected')
    BY <1>2, <2>1, Noted DEF Kind
  <2> QED
    BY <1>1, <1>3, <1>4, <1>5, <2>1, <2>2, DisplayTypes, DisplayParts
    DEF DisplayInv, DisplayTypeOK
<1> QED
  BY <1>6, <1>7

(* Every step of the stream, and the events of the network, keep the       *)
(* invariant.                                                              *)
LEMMA StreamStep ==
  ASSUME DisplayInv, WifiTold \/ Sync \/ Evicted \/ StreamOpens \/ StreamBreaks
  PROVE  DisplayInv'
<1>1. /\ UNCHANGED <<media, displayState, booting, bootStatus, owed, asks>>
      /\ stream' \in {"closed", "open"}
  BY DEF WifiTold, Sync, Evicted, StreamOpens, StreamBreaks, bootVars, DisplayInv, DisplayTypeOK
<1>2. /\ displayState' = "boot" => booting' # "done" \/ Busy(asks', "boot")
      /\ Handling' <= MaxHandlers /\ misled \in {"no"} \cup Kind
      /\ MaxEvents \in Nat /\ Len(arriving) <= MaxEvents /\ arriving \in Seq(Event)
      /\ owed \in [Told -> Nat]
  BY <1>1, DisplayTypes DEF DisplayInv, DisplayTypeOK, Handling
<1>3. ASSUME arriving' \in Seq(Event), Len(arriving') <= MaxEvents,
             misled' \in {"no"} \cup Kind, misled' = "no" => Corrected'
      PROVE  DisplayInv'
  BY <1>1, <1>2, <1>3, DisplayTypes, DisplayParts DEF DisplayInv, DisplayTypeOK
<1>4. CASE WifiTold
  <2>1. PICK sign \in {"wifi:connected", "wifi:failed"} : Queue(sign)
    BY <1>4 DEF WifiTold
  <2>2. sign \in Event /\ sign \notin Told /\ misled' = misled
    BY <1>4, <2>1 DEF WifiTold, Event, Told
  <2>3. misled = "no" => Corrected'
    BY <1>1, <1>2, <2>1, <2>2, QueuedIsCorrect
  <2>4. arriving' \in Seq(Event) /\ Len(arriving') <= MaxEvents
    BY <2>1, <2>2, Queuing
  <2> QED
    BY <1>2, <1>3, <2>2, <2>3, <2>4
<1>5. CASE Sync
  <2>1. Queue("sync") /\ misled' = misled /\ "sync" \in Event /\ "sync" \notin Told
    BY <1>5 DEF Sync, Event, Told
  <2>2. misled = "no" => Corrected'
    BY <1>1, <1>2, <2>1, QueuedIsCorrect
  <2>3. arriving' \in Seq(Event) /\ Len(arriving') <= MaxEvents
    BY <2>1, Queuing
  <2> QED
    BY <1>2, <1>3, <2>1, <2>2, <2>3
<1>6. CASE StreamOpens \/ Evicted
  <2>1. UNCHANGED <<arriving, misled>>
    BY <1>6 DEF StreamOpens, Evicted
  <2>2. misled = "no" => Corrected'
    BY <1>1, <2>1 DEF DisplayInv, Corrected, NoLateAddition, WillEmpty, WillFill, Pending
  <2> QED
    BY <1>2, <1>3, <2>1, <2>2
<1>7. CASE StreamBreaks
  <2>1. arriving' = <<>> /\ Note("other", arriving # <<>>)
    BY <1>7 DEF StreamBreaks
  <2>2. ASSUME misled = "no", ~(arriving # <<>>) PROVE Corrected'
    BY <1>1, <2>1, <2>2 DEF DisplayInv, Corrected, NoLateAddition, WillEmpty, WillFill, Pending
  <2>3. misled' \in {"no"} \cup Kind /\ (misled' = "no" => Corrected')
    BY <1>2, <2>1, <2>2, Noted DEF Kind
  <2>4. arriving' \in Seq(Event) /\ Len(arriving') <= MaxEvents
    BY <1>2, <2>1
  <2> QED
    BY <1>3, <2>3, <2>4
<1> QED
  BY <1>4, <1>5, <1>6, <1>7

(* An event that arrives changes the screen or asks for the status.        *)
LEMMA EventStep == DisplayInv /\ EventReceived => DisplayInv'
<1> SUFFICES ASSUME DisplayInv, EventReceived PROVE DisplayInv'
  OBVIOUS
<1> DEFINE came == Head(arriving)
<1>1. arriving \in Seq(Event) /\ asks \in [Slot -> StatusCall] /\ Len(arriving) <= MaxEvents
      /\ MaxEvents \in Nat
  BY DisplayAssumption DEF DisplayInv, OnTheWay, DisplayTypeOK
<1>2. /\ arriving # <<>> /\ arriving' = Tail(arriving)
      /\ UNCHANGED <<media, booting, bootStatus, stream, owed>>
      /\ Note("other", FALSE)
  BY DEF EventReceived, bootVars
<1>3. /\ came \in Event /\ came = arriving[1]
      /\ arriving' \in Seq(Event) /\ Len(arriving') = Len(arriving) - 1
      /\ Len(arriving) \in Nat \ {0}
      /\ \A i \in 1..Len(arriving') : arriving'[i] = arriving[i + 1]
  BY <1>1, <1>2
<1>4. Len(arriving') <= MaxEvents
  BY <1>1, <1>3
<1>5. \/ came = "photo:added" /\ displayState' = AfterAdded /\ asks' = asks
      \/ came = "wifi:failed" /\ displayState' = "setup" /\ asks' = asks
      \/ /\ came \in {"photo:deleted", "wifi:connected", "sync"}
         /\ Room(asks, 1) /\ asks' = AskStatus(came) /\ displayState' = displayState
  BY <1>3 DEF EventReceived, Event, Told
<1> HIDE DEF came
<1>6. /\ asks' \in [Slot -> StatusCall]
      /\ \A kinds : (\E n \in Slot : asks[n].do \in kinds) /\ "idle" \notin kinds
                    => \E n \in Slot : asks'[n].do \in kinds
      /\ came \in {"photo:deleted", "sync"} => \E n \in Slot : asks'[n].do = came
      /\ Busy(asks, "boot") => Busy(asks', "boot")
  <2>1. CASE asks' = asks /\ came \notin {"photo:deleted", "sync"}
    BY <1>1, <2>1
  <2>2. CASE came \in {"photo:deleted", "wifi:connected", "sync"} /\ Room(asks, 1)
             /\ asks' = AskStatus(came)
    <3>1. OnTheWay /\ came \in Reason
      BY <2>2 DEF DisplayInv, Reason
    <3> QED
      BY <2>2, <3>1, StatusSent
  <2> QED
    BY <1>5, <2>1, <2>2
<1>7. ASSUME NEW kinds, NEW i \in 1..Len(arriving), i > 1, arriving[i] \in kinds
      PROVE  \E k \in 1..Len(arriving') : k + 1 = i /\ arriving'[k] \in kinds
  <2>1. i - 1 \in 1..Len(arriving') /\ (i - 1) + 1 = i
    BY <1>3, <1>7
  <2> QED
    BY <1>3, <1>7, <2>1
<1>8. \A kinds : (Pending(kinds) /\ came \notin kinds /\ "idle" \notin kinds) =>
         \/ \E i \in 1..Len(arriving') : arriving'[i] \in kinds
         \/ \E n \in Slot : asks'[n].do \in kinds
         \/ \E sign \in Told : sign \in kinds /\ owed'[sign] > 0
  <2> SUFFICES ASSUME NEW kinds, Pending(kinds), came \notin kinds, "idle" \notin kinds
               PROVE  \/ \E i \in 1..Len(arriving') : arriving'[i] \in kinds
                      \/ \E n \in Slot : asks'[n].do \in kinds
                      \/ \E sign \in Told : sign \in kinds /\ owed'[sign] > 0
    OBVIOUS
  <2>1. ASSUME NEW i \in 1..Len(arriving), arriving[i] \in kinds
        PROVE  \E k \in 1..Len(arriving') : arriving'[k] \in kinds
    <3>1. i > 1
      BY <1>3, <2>1
    <3> QED
      BY <1>7, <2>1, <3>1
  <2> QED
    BY <1>2, <1>6, <2>1 DEF Pending
<1>9. ASSUME misled = "no" PROVE Corrected'
  <2>1. NoLateAddition /\ WillEmpty /\ WillFill
    BY <1>9 DEF DisplayInv, Corrected
  <2>2. NoLateAddition'
    <3> SUFFICES ASSUME ~media, owed["photo:deleted"] = 0,
                        NEW i \in 1..Len(arriving'), arriving'[i] = "photo:added"
                 PROVE  \E j \in 1..Len(arriving') : j > i /\ arriving'[j] = "photo:deleted"
      BY <1>2 DEF NoLateAddition
    <3>1. i + 1 \in 1..Len(arriving) /\ arriving[i + 1] = "photo:added"
      BY <1>3
    <3>2. PICK j \in 1..Len(arriving) : j > i + 1 /\ arriving[j] = "photo:deleted"
      BY <2>1, <3>1 DEF NoLateAddition
    <3>3. j - 1 \in 1..Len(arriving') /\ j - 1 > i /\ (j - 1) + 1 = j
      BY <1>3, <3>2
    <3> QED
      BY <1>3, <3>2, <3>3
  <2>3. WillEmpty'
    <3> SUFFICES ASSUME ~media, displayState' = "slideshow"
                 PROVE  Pending({"photo:deleted", "sync"})'
      BY <1>2 DEF WillEmpty
    <3>1. CASE came = "photo:added"
      <4>1. 1 \in 1..Len(arriving) /\ arriving[1] = "photo:added"
        BY <1>3, <3>1
      <4>2. CASE owed["photo:deleted"] = 0
        <5>1. PICK j \in 1..Len(arriving) : j > 1 /\ arriving[j] = "photo:deleted"
          BY <2>1, <4>1, <4>2 DEF NoLateAddition
        <5>2. \E k \in 1..Len(arriving') : arriving'[k] \in {"photo:deleted", "sync"}
          BY <1>7, <5>1
        <5> QED
          BY <5>2 DEF Pending
      <4>3. CASE owed["photo:deleted"] # 0
        <5>1. "photo:deleted" \in Told /\ owed'["photo:deleted"] > 0
          BY <1>2, <4>3, DisplayTypes DEF Told
        <5>2. \E sign \in Told : sign \in {"photo:deleted", "sync"} /\ owed'[sign] > 0
          BY <5>1
        <5> QED
          BY <5>2 DEF Pending
      <4> QED
        BY <4>2, <4>3
    <3>2. CASE came \in {"photo:deleted", "sync"}
      <4>1. \E n \in Slot : asks'[n].do \in {"photo:deleted", "sync"}
        BY <1>6, <3>2
      <4> QED
        BY <4>1 DEF Pending
    <3>3. CASE came \in {"wifi:connected", "wifi:failed"}
      <4>1. displayState = "slideshow"
        BY <1>5, <3>3
      <4>2. Pending({"photo:deleted", "sync"})
        BY <2>1, <4>1 DEF WillEmpty
      <4>3. \/ \E i \in 1..Len(arriving') : arriving'[i] \in {"photo:deleted", "sync"}
            \/ \E n \in Slot : asks'[n].do \in {"photo:deleted", "sync"}
            \/ \E sign \in Told : sign \in {"photo:deleted", "sync"} /\ owed'[sign] > 0
        BY <1>8, <3>3, <4>2
      <4> QED
        BY <4>3 DEF Pending
    <3> QED
      BY <1>3, <3>1, <3>2, <3>3 DEF Event, Told
  <2>4. WillFill'
    <3> SUFFICES ASSUME media, displayState' = "welcome"
                 PROVE  Pending({"photo:added", "sync"})'
      BY <1>2 DEF WillFill
    <3>1. displayState = "welcome" /\ came # "photo:added"
      BY <1>5 DEF AfterAdded
    <3>2. Pending({"photo:added", "sync"})
      BY <2>1, <3>1 DEF WillFill
    <3>3. CASE came = "sync"
      <4>1. \E n \in Slot : asks'[n].do \in {"photo:added", "sync"}
        BY <1>6, <3>3
      <4> QED
        BY <4>1 DEF Pending
    <3>4. CASE came # "sync"
      <4>1. \/ \E i \in 1..Len(arriving') : arriving'[i] \in {"photo:added", "sync"}
            \/ \E n \in Slot : asks'[n].do \in {"photo:added", "sync"}
            \/ \E sign \in Told : sign \in {"photo:added", "sync"} /\ owed'[sign] > 0
        BY <1>8, <3>1, <3>2, <3>4
      <4> QED
        BY <4>1 DEF Pending
    <3> QED
      BY <3>3, <3>4
  <2> QED
    BY <2>2, <2>3, <2>4 DEF Corrected
<1>10. misled' \in {"no"} \cup Kind /\ (misled' = "no" => Corrected')
  BY <1>2, <1>9, DisplayTypes, Noted DEF Kind
<1>11. displayState' \in Screens /\ (displayState' = "boot" => displayState = "boot")
  BY <1>5, DisplayTypes DEF AfterAdded, Screens
<1>12. displayState' = "boot" => booting' # "done" \/ Busy(asks', "boot")
  BY <1>2, <1>6, <1>11 DEF DisplayInv, DisplayTypeOK
<1>13. Handling' <= MaxHandlers
  BY <1>2 DEF DisplayInv, DisplayTypeOK, Handling
<1> QED
  BY <1>2, <1>3, <1>4, <1>6, <1>10, <1>11, <1>12, <1>13, DisplayTypes, DisplayParts
     DEF DisplayInv, DisplayTypeOK

(* The timer of the setup screen asks once more.                           *)
LEMMA PollStep == DisplayInv /\ Poll => DisplayInv'
<1> SUFFICES ASSUME DisplayInv, Poll PROVE DisplayInv'
  OBVIOUS
<1>1. /\ displayState = "setup" /\ Room(asks, 1) /\ asks' = AskStatus("poll")
      /\ UNCHANGED <<media, displayState, booting, bootStatus, stream, owed, arriving, misled>>
  BY DEF Poll, bootVars
<1>2. asks' \in [Slot -> StatusCall]
  BY <1>1, StatusSent DEF DisplayInv, Reason
<1>3. misled = "no" => Corrected'
  BY <1>1 DEF DisplayInv, Corrected, NoLateAddition, WillEmpty, WillFill
<1>4. Handling' <= MaxHandlers
  BY <1>1 DEF DisplayInv, DisplayTypeOK, Handling
<1> QED
  BY <1>1, <1>2, <1>3, <1>4, DisplayTypes, DisplayParts DEF DisplayInv, DisplayTypeOK

(* A request that is handled stays on its way.                             *)
LEMMA HandledStep ==
  ASSUME DisplayInv, NEW n \in Slot, StatusHandled(n)
  PROVE  DisplayInv'
<1> DEFINE call == [asks[n] EXCEPT !.at = "handled", !.said = media]
<1>1. /\ asks[n] # Idle /\ asks' = [asks EXCEPT ![n] = call]
      /\ UNCHANGED <<media, displayState, booting, bootStatus, stream, owed, arriving, misled>>
  BY DEF StatusHandled, bootVars
<1>2. asks \in [Slot -> StatusCall] /\ media \in BOOLEAN
  BY DisplayTypes
<1>3. asks[n] \in [do : Reason, at : {"sent", "handled"}, said : BOOLEAN]
  BY <1>1, <1>2 DEF StatusCall
<1>4. call \in StatusCall /\ call.do = asks[n].do
  BY <1>2, <1>3 DEF StatusCall
<1> HIDE DEF call
<1>5. asks' \in [Slot -> StatusCall] /\ \A k \in Slot : asks'[k].do = asks[k].do
  BY <1>1, <1>2, <1>4
<1>6. misled = "no" => Corrected'
  BY <1>1, <1>5 DEF DisplayInv, Corrected, NoLateAddition, WillEmpty, WillFill, Pending
<1>7. displayState' = "boot" => booting' # "done" \/ Busy(asks', "boot")
  BY <1>1, <1>5 DEF DisplayInv, DisplayTypeOK, Busy
<1>8. Handling' <= MaxHandlers
  BY <1>1 DEF DisplayInv, DisplayTypeOK, Handling
<1> QED
  BY <1>1, <1>5, <1>6, <1>7, <1>8, DisplayTypes, DisplayParts DEF DisplayInv, DisplayTypeOK

(* What is pending stays so when an answer to something else comes.        *)
LEMMA StillPending ==
  ASSUME DisplayInv, NEW n \in Slot, asks' = Over(asks, n), UNCHANGED <<owed, arriving>>,
         NEW kinds, Pending(kinds), asks[n].do \notin kinds
  PROVE  Pending(kinds)'
<1>1. (\E k \in Slot : asks[k].do \in kinds) => \E m \in Slot : asks'[m].do \in kinds
  BY StatusOver DEF DisplayInv
<1> QED
  BY <1>1 DEF Pending

(* An answer that is not out of date corrects what it was asked for.       *)
LEMMA AnsweredStep ==
  ASSUME DisplayInv, NEW n \in Slot, StatusAnswered(n) \/ StatusFails(n)
  PROVE  DisplayInv'
<1>1. asks \in [Slot -> StatusCall] /\ OnTheWay
  BY DEF DisplayInv, OnTheWay
<1>2. /\ asks[n] # Idle /\ asks' = Over(asks, n)
      /\ UNCHANGED <<media, booting, bootStatus, stream, owed, arriving>>
  BY DEF StatusAnswered, StatusFails, bootVars
<1> DEFINE why == asks[n].do
           said == asks[n].said
<1>3. why \in Reason /\ said \in BOOLEAN
  BY <1>1, <1>2 DEF StatusCall
<1>4. media \in BOOLEAN /\ displayState \in Screens /\ misled \in {"no"} \cup Kind
  BY DisplayTypes
<1>5. asks' \in [Slot -> StatusCall]
  BY <1>1, <1>2, StatusOver
<1>6. ASSUME misled' \in {"no"} \cup Kind, misled' = "no" => Corrected', displayState' \in Screens,
             displayState' = "boot" => displayState = "boot" /\ why # "boot"
      PROVE  DisplayInv'
  <2>1. why # "boot" /\ Busy(asks, "boot") => Busy(asks', "boot")
    BY <1>1, <1>2, StatusOver
  <2>2. displayState' = "boot" => booting' # "done" \/ Busy(asks', "boot")
    BY <1>2, <1>6, <2>1 DEF DisplayInv, DisplayTypeOK
  <2>3. Handling' <= MaxHandlers
    BY <1>2 DEF DisplayInv, DisplayTypeOK, Handling
  <2> QED
    BY <1>2, <1>5, <1>6, <2>2, <2>3, DisplayTypes, DisplayParts DEF DisplayInv, DisplayTypeOK
<1>7. ASSUME misled = "no" PROVE NoLateAddition' /\ WillEmpty /\ WillFill
  BY <1>2, <1>7 DEF DisplayInv, Corrected, NoLateAddition
<1>8. why \notin {"photo:deleted", "sync"} /\ Pending({"photo:deleted", "sync"})
        => Pending({"photo:deleted", "sync"})'
  BY <1>2, StillPending
<1>9. why \notin {"photo:added", "sync"} /\ Pending({"photo:added", "sync"})
        => Pending({"photo:added", "sync"})'
  BY <1>2, StillPending
<1>10. CASE StatusAnswered(n)
  <2>1. displayState' = ScreenAfter(why, said) /\ Note("stale", said # media)
    BY <1>10 DEF StatusAnswered
  <2> HIDE DEF why, said
  <2>2. /\ displayState' \in Screens
        /\ displayState' = "boot" => displayState = "boot" /\ why # "boot"
    BY <1>3, <1>4, <2>1 DEF ScreenAfter, Screen, Screens, Reason
  <2>3. ASSUME misled = "no", ~(said # media) PROVE Corrected'
    <3>1. WillEmpty'
      <4> SUFFICES ASSUME ~media, displayState' = "slideshow"
                   PROVE  Pending({"photo:deleted", "sync"})'
        BY <1>2 DEF WillEmpty
      <4>1. displayState = "slideshow" /\ why \notin {"photo:deleted", "sync"}
        BY <1>3, <1>4, <2>1, <2>3 DEF ScreenAfter, Screen, Reason
      <4> QED
        BY <1>7, <1>8, <2>3, <4>1 DEF WillEmpty
    <3>2. WillFill'
      <4> SUFFICES ASSUME media, displayState' = "welcome"
                   PROVE  Pending({"photo:added", "sync"})'
        BY <1>2 DEF WillFill
      <4>1. displayState = "welcome" /\ why \notin {"photo:added", "sync"}
        BY <1>3, <1>4, <2>1, <2>3 DEF ScreenAfter, Screen, Reason
      <4> QED
        BY <1>7, <1>9, <2>3, <4>1 DEF WillFill
    <3> QED
      BY <1>7, <2>3, <3>1, <3>2 DEF Corrected
  <2>4. misled' \in {"no"} \cup Kind /\ (misled' = "no" => Corrected')
    BY <1>4, <2>1, <2>3, Noted DEF Kind
  <2> QED
    BY <1>6, <2>2, <2>4
<1>11. CASE StatusFails(n)
  <2>1. /\ displayState' = (IF why = "boot" THEN "setup" ELSE displayState)
        /\ Note("other", why \in {"photo:deleted", "sync"})
    BY <1>11 DEF StatusFails
  <2> HIDE DEF why, said
  <2>2. ASSUME misled = "no", ~(why \in {"photo:deleted", "sync"}) PROVE Corrected'
    <3>1. why \notin {"photo:added", "sync"}
      BY <1>3, <2>2 DEF Reason
    <3>2. WillEmpty' /\ WillFill'
      BY <1>2, <1>7, <1>8, <1>9, <2>1, <2>2, <3>1 DEF WillEmpty, WillFill
    <3> QED
      BY <1>7, <2>2, <3>2 DEF Corrected
  <2>3. misled' \in {"no"} \cup Kind /\ (misled' = "no" => Corrected')
    BY <1>4, <2>1, <2>2, Noted DEF Kind
  <2>4. displayState' \in Screens /\ (displayState' = "boot" => displayState = "boot" /\ why # "boot")
    BY <1>4, <2>1 DEF Screens
  <2> QED
    BY <1>6, <2>3, <2>4
<1> QED
  BY <1>10, <1>11

(* Every step of the boot keeps the invariant.                             *)
LEMMA BootStep ==
  ASSUME DisplayInv, Greet \/ BootCut \/ BootComplete
  PROVE  DisplayInv'
<1>1. OnTheWay /\ media \in BOOLEAN /\ displayState \in Screens /\ misled \in {"no"} \cup Kind
      /\ bootStatus \in {{}, {TRUE}, {FALSE}}
  BY DisplayTypes DEF DisplayInv
<1>2. UNCHANGED owed => Handling' <= MaxHandlers
  BY DEF DisplayInv, DisplayTypeOK, Handling
<1>3. CASE Greet \/ BootCut
  <2>1. /\ UNCHANGED <<media, displayState, stream, owed, arriving, asks, misled>>
        /\ booting' \in {"greeting", "done"}
        /\ displayState = "boot" => booting' # "done"
        /\ bootStatus' \in {{}, {media}, bootStatus}
    BY <1>3 DEF Greet, BootCut
  <2>2. misled' = "no" => Corrected'
    BY <2>1 DEF DisplayInv, Corrected, NoLateAddition, WillEmpty, WillFill, Pending
  <2>3. bootStatus' \in {{}, {TRUE}, {FALSE}}
    BY <1>1, <2>1
  <2> QED
    BY <1>2, <2>1, <2>2, <2>3, DisplayTypes, DisplayParts DEF DisplayInv, DisplayTypeOK
<1>4. CASE BootComplete
  <2>1. /\ booting' = "done" /\ bootStatus' = {}
        /\ UNCHANGED <<media, stream, owed, arriving>>
        /\ Note("stale", bootStatus # {} /\ media \notin bootStatus)
    BY <1>4 DEF BootComplete
  <2>2. CASE bootStatus # {}
    <3>1. PICK any \in bootStatus : displayState' \in {"setup", Screen(any)}
      BY <1>4, <2>2 DEF BootComplete
    <3>2. asks' = asks /\ any \in BOOLEAN /\ bootStatus = {any}
      <4>1. asks' = asks
        BY <1>4, <2>2 DEF BootComplete
      <4>2. CASE bootStatus = {TRUE}
        BY <3>1, <4>1, <4>2
      <4>3. CASE bootStatus = {FALSE}
        BY <3>1, <4>1, <4>3
      <4> QED
        BY <1>1, <2>2, <4>2, <4>3
    <3>3. displayState' \in {"welcome", "slideshow", "setup"}
      BY <3>1 DEF Screen
    <3>4. ASSUME misled = "no", ~(bootStatus # {} /\ media \notin bootStatus) PROVE Corrected'
      <4>1. NoLateAddition'
        BY <2>1, <3>4 DEF DisplayInv, Corrected, NoLateAddition
      <4>2. displayState' = "setup" \/ displayState' = Screen(media)
        BY <3>1, <3>2, <3>4
      <4>3. WillEmpty' /\ WillFill'
        BY <2>1, <4>2 DEF WillEmpty, WillFill, Screen
      <4> QED
        BY <4>1, <4>3 DEF Corrected
    <3>5. misled' \in {"no"} \cup Kind /\ (misled' = "no" => Corrected')
      BY <1>1, <2>1, <3>4, Noted DEF Kind
    <3>6. displayState' \in Screens /\ displayState' # "boot"
      BY <3>3 DEF Screens
    <3> QED
      BY <1>2, <2>1, <3>2, <3>5, <3>6, DisplayTypes, DisplayParts DEF DisplayInv, DisplayTypeOK
  <2>3. CASE bootStatus = {}
    <3>1. Room(asks, 1) /\ asks' = AskStatus("boot") /\ displayState' = displayState
      BY <1>4, <2>3 DEF BootComplete
    <3>2. /\ asks' \in [Slot -> StatusCall]
          /\ \E k \in Slot : asks'[k].do = "boot"
          /\ \A kinds : (\E k \in Slot : asks[k].do \in kinds) /\ "idle" \notin kinds
                        => \E k \in Slot : asks'[k].do \in kinds
      BY <1>1, <3>1, StatusSent DEF Reason
    <3>3. \A kinds : Pending(kinds) /\ "idle" \notin kinds => Pending(kinds)'
      <4> SUFFICES ASSUME NEW kinds, Pending(kinds), "idle" \notin kinds PROVE Pending(kinds)'
        OBVIOUS
      <4>1. (\E k \in Slot : asks[k].do \in kinds) => \E k \in Slot : asks'[k].do \in kinds
        BY <3>2
      <4> QED
        BY <2>1, <4>1 DEF Pending
    <3>4. ASSUME misled = "no" PROVE Corrected'
      <4>1. NoLateAddition' /\ WillEmpty /\ WillFill
        BY <2>1, <3>4 DEF DisplayInv, Corrected, NoLateAddition
      <4>2. Pending({"photo:deleted", "sync"}) => Pending({"photo:deleted", "sync"})'
        BY <3>3
      <4>3. Pending({"photo:added", "sync"}) => Pending({"photo:added", "sync"})'
        BY <3>3
      <4> QED
        BY <2>1, <3>1, <4>1, <4>2, <4>3 DEF Corrected, WillEmpty, WillFill
    <3>5. misled' \in {"no"} \cup Kind /\ (misled' = "no" => Corrected')
      BY <1>1, <2>1, <3>4, Noted DEF Kind
    <3>6. Busy(asks', "boot")
      BY <3>2 DEF Busy
    <3> QED
      BY <1>1, <1>2, <2>1, <3>1, <3>2, <3>5, <3>6, DisplayTypes, DisplayParts
      DEF DisplayInv, DisplayTypeOK
  <2> QED
    BY <2>2, <2>3
<1> QED
  BY <1>3, <1>4

(* Every step of the display router keeps the invariant.                   *)
LEMMA DisplayStep == DisplayInv /\ [DisplayNext]_displayVars => DisplayInv'
<1> SUFFICES ASSUME DisplayInv, [DisplayNext]_displayVars PROVE DisplayInv'
  OBVIOUS
<1>1. CASE UNCHANGED displayVars
  BY <1>1 DEF displayVars, DisplayInv, DisplayTypeOK, OnTheWay, Corrected, NoLateAddition,
     WillEmpty, WillFill, Pending, Busy, Handling
<1>2. CASE DisplayNext
  BY <1>2, ChangeStep, SilentStep, NotifyStep, StreamStep, EventStep, PollStep, HandledStep,
     AnsweredStep, BootStep DEF DisplayNext
<1> QED
  BY <1>1, <1>2

(* With nothing on its way there is nothing left to correct.               *)
LEMMA DisplayTold == DisplayInv => ScreenFits
<1> SUFFICES ASSUME DisplayInv, Rests, misled = "no"
             PROVE  displayState = Screen(media)
  BY DEF ScreenFits
<1>1. \A kinds : "idle" \notin kinds => ~Pending(kinds)
  BY DEF Pending, Rests, Quiet, Idle, NothingOwed
<1>2. ~Pending({"photo:deleted", "sync"}) /\ ~Pending({"photo:added", "sync"})
  BY <1>1
<1>3. displayState \in {"welcome", "slideshow"}
  BY DisplayTypes DEF Screens, Rests
<1>4. media \in BOOLEAN /\ WillEmpty /\ WillFill
  BY DisplayTypes DEF Corrected
<1> QED
  BY <1>2, <1>3, <1>4 DEF WillEmpty, WillFill, Screen

-----------------------------------------------------------------------------
(***************************************************************************)
(* The wizard (Onboard).                                                   *)
(***************************************************************************)
(* The requests of the wizard.                                             *)
WizardCall == [do : {"idle", "settings", "scan", "connect"}]

(* One scan and one connection are under way at most, and a connection is  *)
(* asked for only where there are networks to choose from.                 *)
WizardInv ==
  /\ OnboardTypeOK
  /\ wizardCalls \in [Slot -> WizardCall]
  /\ Single(wizardCalls, "scan") /\ Single(wizardCalls, "connect")
  /\ connecting => networks # {}

(* A request is sent while none of its kind is under way.                  *)
LEMMA WizardSent ==
  ASSUME WizardInv, Room(wizardCalls, 1), NEW kind \in {"scan", "connect"},
         ~Busy(wizardCalls, kind), wizardCalls' = Send(wizardCalls, [do |-> kind])
  PROVE  /\ wizardCalls' \in [Slot -> WizardCall]
         /\ Single(wizardCalls', "scan") /\ Single(wizardCalls', "connect")
         /\ Busy(wizardCalls', kind)
         /\ \A other \in {"scan", "connect"} \ {kind} :
              Busy(wizardCalls', other) = Busy(wizardCalls, other)
<1> DEFINE call == [do |-> kind]
<1>1. wizardCalls \in [Slot -> WizardCall] /\ Idle \in WizardCall /\ call \in WizardCall
      /\ 1 \in Slot
  BY CallsAssumption DEF WizardInv, WizardCall, Idle, Slot
<1>2. \E k \in Slot : wizardCalls[k] = Idle
  BY FreeSlot
<1>3. call.do = kind
  OBVIOUS
<1>4. Single(wizardCalls, "scan") /\ Single(wizardCalls, "connect")
  BY DEF WizardInv
<1> HIDE DEF call
<1>5. wizardCalls' = Send(wizardCalls, call)
  BY DEF call
<1>6. wizardCalls' \in [Slot -> WizardCall]
  <2>1. Send(wizardCalls, call) \in [Slot -> WizardCall]
    BY <1>1, CallsKept
  <2> QED
    BY <1>5, <2>1
<1>7. ASSUME NEW other \in {"scan", "connect"}
      PROVE  /\ kind = other => Busy(wizardCalls', other)
             /\ kind # other => Busy(wizardCalls', other) = Busy(wizardCalls, other)
             /\ Single(wizardCalls', other)
  BY <1>1, <1>2, <1>3, <1>4, <1>5, BusySent
<1> QED
  BY <1>6, <1>7

(* A request that is over leaves none of its kind behind.                  *)
LEMMA WizardOver ==
  ASSUME WizardInv, NEW n \in Slot, wizardCalls' = Over(wizardCalls, n)
  PROVE  /\ wizardCalls' \in [Slot -> WizardCall]
         /\ Single(wizardCalls', "scan") /\ Single(wizardCalls', "connect")
         /\ \A kind \in {"scan", "connect"} :
              /\ wizardCalls[n].do = kind => ~Busy(wizardCalls', kind)
              /\ wizardCalls[n].do # kind => Busy(wizardCalls', kind) = Busy(wizardCalls, kind)
<1>1. wizardCalls \in [Slot -> WizardCall] /\ Idle \in WizardCall
      /\ Single(wizardCalls, "scan") /\ Single(wizardCalls, "connect")
  BY DEF WizardInv, WizardCall, Idle
<1>2. wizardCalls' \in [Slot -> WizardCall]
  BY <1>1, CallsKept
<1>3. ASSUME NEW kind \in {"scan", "connect"}
      PROVE  /\ wizardCalls[n].do = kind => ~Busy(wizardCalls', kind)
             /\ wizardCalls[n].do # kind => Busy(wizardCalls', kind) = Busy(wizardCalls, kind)
             /\ Single(wizardCalls', kind)
  BY <1>1, SingleOver, BusyOver
<1> QED
  BY <1>2, <1>3

(* Two requests are under way at the start, of two kinds.                  *)
LEMMA WizardStart == OnboardInit => WizardInv
<1> SUFFICES ASSUME OnboardInit PROVE WizardInv
  OBVIOUS
<1> DEFINE first == Send(Quiet, [do |-> "settings"])
<1>1. 1 \in Slot /\ 2 \in Slot /\ Idle \in WizardCall /\ Quiet \in [Slot -> WizardCall]
  BY CallsAssumption, OnboardAssumption DEF Slot, WizardCall, Idle, Quiet
<1>2. PICK k \in Slot : first = [Quiet EXCEPT ![k] = [do |-> "settings"]]
  BY <1>1, Sending DEF Quiet
<1>3. first[k] = [do |-> "settings"] /\ \A m \in Slot : m # k => first[m] = Idle
  BY <1>2 DEF Quiet
<1>4. \E m \in Slot : first[m] = Idle
  BY <1>1, <1>3
<1>5. first \in [Slot -> WizardCall]
  <2>1. [do |-> "settings"] \in WizardCall
    BY DEF WizardCall
  <2> QED
    BY <1>1, <2>1, CallsKept
<1>6. \A m \in Slot : first[m].do \notin {"scan", "connect"}
  BY <1>3 DEF Idle
<1> DEFINE scan == [do |-> "scan"]
<1>7. wizardCalls = Send(first, scan) /\ scan.do = "scan" /\ scan \in WizardCall
  BY DEF OnboardInit, WizardCall
<1> HIDE DEF first, scan
<1>8. /\ ~Busy(first, "scan") /\ ~Busy(first, "connect")
      /\ Single(first, "scan") /\ Single(first, "connect")
  BY <1>6 DEF Busy, Single
<1>9. /\ Busy(wizardCalls, "scan") /\ Single(wizardCalls, "scan")
  BY <1>4, <1>5, <1>7, <1>8, BusySent
<1>10. ~Busy(wizardCalls, "connect") /\ Single(wizardCalls, "connect")
  BY <1>4, <1>5, <1>7, <1>8, BusySent
<1>11. wizardCalls \in [Slot -> WizardCall]
  BY <1>1, <1>5, <1>7, CallsKept
<1>12. scanning = Busy(wizardCalls, "scan")
  BY <1>9 DEF OnboardInit, Busy
<1>13. connecting = Busy(wizardCalls, "connect")
  BY <1>10 DEF OnboardInit, Busy
<1>14. errorStep \in BOOLEAN
  BY DEF OnboardInit
<1> QED
  BY <1>9, <1>10, <1>11, <1>12, <1>13, <1>14 DEF OnboardInit, OnboardTypeOK, WizardInv

(* Every step keeps the invariant.                                         *)
LEMMA WizardStep == WizardInv /\ [OnboardNext]_wizardVars => WizardInv'
<1> SUFFICES ASSUME WizardInv, [OnboardNext]_wizardVars PROVE WizardInv'
  OBVIOUS
<1>0. /\ wizard \in {"WIFI", "left"} /\ networks \subseteq Network
      /\ selectedNet \in Network \cup {NoNetwork} /\ errorStep \in BOOLEAN
      /\ scanning = Busy(wizardCalls, "scan")
      /\ connecting = Busy(wizardCalls, "connect")
      /\ ~(scanning /\ connecting)
      /\ connecting => networks # {}
  BY DEF WizardInv, OnboardTypeOK
<1>1. CASE Rescan
  <2>1. /\ wizardCalls' \in [Slot -> WizardCall]
        /\ Single(wizardCalls', "scan") /\ Single(wizardCalls', "connect")
        /\ Busy(wizardCalls', "scan")
        /\ Busy(wizardCalls', "connect") = Busy(wizardCalls, "connect")
    BY <1>0, <1>1, WizardSent DEF Rescan
  <2>2. ~connecting
    BY <1>0, <1>1 DEF Rescan
  <2>3. scanning' = Busy(wizardCalls', "scan")
    BY <1>1, <2>1 DEF Rescan, Busy
  <2>4. connecting' = Busy(wizardCalls', "connect") /\ ~connecting'
    BY <1>0, <1>1, <2>1, <2>2 DEF Rescan
  <2>5. errorStep' \in BOOLEAN
    BY <1>1 DEF Rescan
  <2>6. UNCHANGED <<wizard, networks, selectedNet>>
    BY <1>1 DEF Rescan
  <2> QED
    BY <1>0, <2>1, <2>3, <2>4, <2>5, <2>6 DEF WizardInv, OnboardTypeOK, Busy, Single
<1>2. ASSUME doConnect, Listed, networks' = networks, scanning' = scanning,
             wizard' = wizard, selectedNet' \in Network \cup {NoNetwork},
             errorStep' \in BOOLEAN
      PROVE  WizardInv'
  <2>1. /\ wizardCalls' \in [Slot -> WizardCall]
        /\ Single(wizardCalls', "scan") /\ Single(wizardCalls', "connect")
        /\ Busy(wizardCalls', "connect")
        /\ Busy(wizardCalls', "scan") = Busy(wizardCalls, "scan")
    BY <1>0, <1>2, WizardSent DEF doConnect, Listed
  <2>2. ~scanning /\ networks # {}
    BY <1>2 DEF Listed
  <2>3. connecting' = Busy(wizardCalls', "connect")
    BY <1>2, <2>1 DEF doConnect, Busy
  <2>4. scanning' = Busy(wizardCalls', "scan") /\ ~scanning'
    BY <1>0, <1>2, <2>1, <2>2
  <2> QED
    BY <1>0, <1>2, <2>1, <2>2, <2>3, <2>4 DEF WizardInv, OnboardTypeOK, Busy, Single
<1>3. CASE handleConnect
  <2>1. errorStep' \in BOOLEAN
    BY <1>3 DEF handleConnect
  <2> QED
    BY <1>0, <1>2, <1>3, <2>1 DEF handleConnect
<1>4. ASSUME UNCHANGED <<wizard, scanning, networks, connecting, wizardCalls>>,
             selectedNet' \in Network \cup {NoNetwork}, errorStep' \in BOOLEAN
      PROVE  WizardInv'
  BY <1>0, <1>4 DEF WizardInv, OnboardTypeOK, Busy, Single
<1>5. CASE BackToNetworks
  BY <1>0, <1>4, <1>5 DEF BackToNetworks
<1>6. ASSUME NEW net \in Network, handleSelect(net) PROVE WizardInv'
  <2>1. errorStep' \in BOOLEAN
    BY <1>6 DEF handleSelect
  <2> QED
    BY <1>0, <1>2, <1>4, <1>6, <2>1 DEF handleSelect
<1>7. ASSUME NEW n \in Slot, WizardSettings(n) PROVE WizardInv'
  <2>1. /\ wizardCalls' \in [Slot -> WizardCall]
        /\ Single(wizardCalls', "scan") /\ Single(wizardCalls', "connect")
        /\ Busy(wizardCalls', "scan") = Busy(wizardCalls, "scan")
        /\ Busy(wizardCalls', "connect") = Busy(wizardCalls, "connect")
    BY <1>7, WizardOver DEF WizardSettings
  <2> QED
    BY <1>0, <1>7, <2>1 DEF WizardSettings, WizardInv, OnboardTypeOK, Busy, Single
<1>8. ASSUME NEW n \in Slot, ScanAnswered(n) PROVE WizardInv'
  <2>1. /\ wizardCalls' \in [Slot -> WizardCall]
        /\ Single(wizardCalls', "scan") /\ Single(wizardCalls', "connect")
        /\ ~Busy(wizardCalls', "scan")
        /\ Busy(wizardCalls', "connect") = Busy(wizardCalls, "connect")
    BY <1>8, WizardOver DEF ScanAnswered
  <2>2. ~connecting
    <3>1. Busy(wizardCalls, "scan")
      BY <1>8 DEF ScanAnswered, Busy
    <3> QED
      BY <1>0, <3>1
  <2>3. scanning' = Busy(wizardCalls', "scan")
    BY <1>8, <2>1 DEF ScanAnswered, Busy
  <2>4. connecting' = Busy(wizardCalls', "connect") /\ ~connecting'
    BY <1>0, <1>8, <2>1, <2>2 DEF ScanAnswered
  <2>5. errorStep' \in BOOLEAN
    BY <1>0, <1>8 DEF ScanAnswered
  <2>6. networks' \subseteq Network
    BY <1>0, <1>8 DEF ScanAnswered
  <2> QED
    BY <1>0, <1>8, <2>1, <2>3, <2>4, <2>5, <2>6 DEF ScanAnswered, WizardInv,
       OnboardTypeOK, Busy, Single
<1>9. ASSUME NEW n \in Slot, ConnectAnswered(n) PROVE WizardInv'
  <2>1. /\ wizardCalls' \in [Slot -> WizardCall]
        /\ Single(wizardCalls', "scan") /\ Single(wizardCalls', "connect")
        /\ ~Busy(wizardCalls', "connect")
        /\ Busy(wizardCalls', "scan") = Busy(wizardCalls, "scan")
    BY <1>9, WizardOver DEF ConnectAnswered
  <2>2. connecting' = Busy(wizardCalls', "connect") /\ ~connecting'
    BY <1>9, <2>1 DEF ConnectAnswered, Busy
  <2>3. scanning' = Busy(wizardCalls', "scan")
    BY <1>0, <1>9, <2>1 DEF ConnectAnswered
  <2>4. errorStep' \in BOOLEAN
    BY <1>9 DEF ConnectAnswered
  <2>5. UNCHANGED <<wizard, networks, selectedNet>>
    BY <1>9 DEF ConnectAnswered
  <2> QED
    BY <1>0, <2>1, <2>2, <2>3, <2>4, <2>5 DEF WizardInv, OnboardTypeOK, Busy, Single
<1>10. CASE UNCHANGED wizardVars
  BY <1>0, <1>4, <1>10 DEF wizardVars
<1> QED
  BY <1>1, <1>3, <1>5, <1>6, <1>7, <1>8, <1>9, <1>10 DEF OnboardNext

-----------------------------------------------------------------------------
(***************************************************************************)
(* The pages side by side (Pages).                                         *)
(***************************************************************************)
PagesInv ==
  /\ GalleryInv /\ SearchInv /\ UploadInv /\ AlbumInv /\ UserInv
  /\ DisplayInv /\ WizardInv
  /\ page \in Page

(* A step is one of the chosen page, and leaves the others alone.          *)
LEMMA EachPage ==
  ASSUME [Next /\ UNCHANGED page]_pagesVars
  PROVE  /\ [GalleryNext]_galleryVars /\ [SearchNext]_searchVars
         /\ [UploadsNext]_uploadVars /\ [AlbumsNext]_albumVars
         /\ [UsersNext]_userVars /\ [DisplayNext]_displayVars
         /\ [OnboardNext]_wizardVars
         /\ page' = page
BY DEF Next, pagesVars

(* The invariants of the pages hold side by side in every reachable state. *)
THEOREM Invariance == Spec => []PagesInv
<1>1. Init => PagesInv
  BY GalleryStart, SearchStart, UploadStart, AlbumStart, UserStart, DisplayStart,
     WizardStart DEF Init, PagesInv
<1>2. PagesInv /\ [Next /\ UNCHANGED page]_pagesVars => PagesInv'
  <2> SUFFICES ASSUME PagesInv, [Next /\ UNCHANGED page]_pagesVars PROVE PagesInv'
    OBVIOUS
  <2>1. GalleryInv' /\ SearchInv'
    BY EachPage, GalleryStep, SearchStep DEF PagesInv
  <2>2. UploadInv' /\ AlbumInv'
    BY EachPage, UploadStep, AlbumStep DEF PagesInv
  <2>3. UserInv' /\ DisplayInv'
    BY EachPage, UserStep, DisplayStep DEF PagesInv
  <2>4. WizardInv' /\ page' \in Page
    BY EachPage, WizardStep DEF PagesInv
  <2> QED
    BY <2>1, <2>2, <2>3, <2>4 DEF PagesInv
<1> QED
  BY <1>1, <1>2, PTL DEF Spec

(* The state of every page has its type, and a flag that disables a button *)
(* or shows that it waits tells what is under way: creating, deleting      *)
(* (Albums.jsx, Users.jsx), scanning and connecting (Onboard.jsx).         *)
THEOREM PagesTypes == Spec => []TypeOK
<1>1. PagesInv => TypeOK
  <2> SUFFICES ASSUME PagesInv PROVE TypeOK
    OBVIOUS
  <2>1. GalleryTypeOK /\ SearchTypeOK /\ UploadsTypeOK /\ AlbumsTypeOK
    BY DEF PagesInv, GalleryInv, SearchInv, UploadInv, AlbumInv
  <2>2. UsersTypeOK /\ DisplayTypeOK /\ OnboardTypeOK
    BY UserTold DEF PagesInv, DisplayInv, WizardInv
  <2> QED
    BY <2>1, <2>2 DEF PagesInv, TypeOK
<1> QED
  BY <1>1, Invariance, PTL

(* The dialog to delete an album is about the album that is open, and the  *)
(* photos shown are its own unless it was opened while others were on      *)
(* their way, whatever order the answers come in (Albums.jsx).             *)
THEOREM AlbumShown == Spec => []RightAlbum
<1>1. PagesInv => RightAlbum
  BY AlbumTold DEF PagesInv
<1> QED
  BY <1>1, Invariance, PTL

(* Once nothing is under way, the results are those of the text in the     *)
(* field, unless an older answer came last or an error is shown            *)
(* (SearchModal.jsx).                                                      *)
THEOREM TextSearched == Spec => []ResultsOfTheText
<1>1. PagesInv => ResultsOfTheText
  BY SearchTold DEF PagesInv
<1> QED
  BY <1>1, Invariance, PTL

(* No request deletes a photo that the user did not tell the page to       *)
(* delete (Gallery.jsx, Lightbox.jsx).                                     *)
THEOREM NothingAstray == Spec => []OnlyAgreed
<1>1. PagesInv => OnlyAgreed
  BY GalleryTold DEF PagesInv
<1> QED
  BY <1>1, Invariance, PTL

(* However often the user swipes: once no tags are being fetched, those    *)
(* under a photo are its own, as long as no answer overtook an earlier one *)
(* and none was asked for of a photo left before (Lightbox.jsx).           *)
THEOREM TagsOfPhoto == Spec => []TagsAreOfPhoto
<1>1. PagesInv => TagsAreOfPhoto
  BY GalleryTold DEF PagesInv
<1> QED
  BY <1>1, Invariance, PTL

(* A file the page shows as COMPLETE is in the library, whatever was lost  *)
(* and tried again before (Upload.jsx).                                    *)
THEOREM CompleteKept == Spec => []CompleteIsKept
<1>1. PagesInv => CompleteIsKept
  BY UploadTold DEF PagesInv
<1> QED
  BY <1>1, Invariance, PTL

(* With no event and no request under way, the list of photos is that of   *)
(* the library, unless an event was missed, a fetch failed, or an old      *)
(* answer came last (Upload.jsx).                                          *)
THEOREM RecentIsFresh == Spec => []ListIsFresh
<1>1. PagesInv => ListIsFresh
  BY UploadTold DEF PagesInv
<1> QED
  BY <1>1, Invariance, PTL

(* The progress and the display of a batch do not outlive the batches,     *)
(* however two of them overlap (Upload.jsx).                               *)
THEOREM NoBatchHaunts == Spec => []NoGhostBatch
<1>1. PagesInv => NoGhostBatch
  BY UploadTold DEF PagesInv
<1> QED
  BY <1>1, Invariance, PTL

(* A stored photo belongs to a user there is, unless the user was deleted  *)
(* between the two steps of the upload (users.py, api.py, db.py).          *)
THEOREM OwnersStay == Spec => []OwnersExist
<1>1. PagesInv => OwnersExist
  BY UserTold DEF PagesInv
<1> QED
  BY <1>1, Invariance, PTL

(* When every request that changed the library has sent its event, and all *)
(* events and answers have arrived, in whatever order, the TV shows the    *)
(* slideshow if there is a photo and the welcome if there is none, unless  *)
(* since the right screen last showed an answer was applied late, an event *)
(* was lost or never sent, or photo:added was sent after the photo:deleted *)
(* of an emptied library (web_upload.py, api.py, DisplayRouter.jsx).       *)
THEOREM ScreenIsRight == Spec => []ScreenFits
<1>1. PagesInv => ScreenFits
  BY DisplayTold DEF PagesInv
<1> QED
  BY <1>1, Invariance, PTL
=============================================================================
