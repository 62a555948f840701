---------------------------- MODULE SearchModal -----------------------------
(***************************************************************************)
(* The search overlay (SearchModal.jsx): 300 ms after the last key the     *)
(* query is sent, and the answers are shown in the order they arrive.  A   *)
(* query is one of a few words, or None for an empty box; a result is      *)
(* abstracted to the query it answers.                                     *)
(***************************************************************************)
EXTENDS PageCalls

CONSTANT Query   \* the texts that are searched for

ASSUME SearchAssumption == {"none", "off"} \cap Query = {}

VARIABLES
  searchOpen,     \* searchOpen
  searchQuery,    \* searchQuery
  searchResults,  \* the query that the results shown answer
  searchLoading,  \* searchLoading
  searchError,    \* searchError # ""
  debounce,       \* the query the pending timer will send, Off if none
  searches,       \* requests under way
  overtaken       \* history: the answer to an older search came after that
                  \* to the last one

searchVars == <<searchOpen, searchQuery, searchResults, searchLoading,
                searchError, debounce, searches, overtaken>>

None == "none"
Off == "off"

SearchInit ==
  /\ searchOpen = FALSE /\ searchQuery = None /\ searchResults = None
  /\ searchLoading = FALSE /\ searchError = FALSE
  /\ debounce = Off /\ searches = Quiet /\ overtaken = FALSE

openSearch ==
  /\ ~searchOpen
  /\ searchOpen' = TRUE
  /\ UNCHANGED <<searchQuery, searchResults, searchLoading, searchError,
                 debounce, searches, overtaken>>

(* The X, Escape, the space around it, or a result that was tapped.  The   *)
(* timer and the requests are not cancelled, and the error stays.          *)
closeSearch ==
  /\ searchOpen
  /\ searchOpen' = FALSE /\ searchQuery' = None /\ searchResults' = None
  /\ searchLoading' = FALSE
  /\ UNCHANGED <<searchError, debounce, searches, overtaken>>

(* handleInput(): a key replaces the timer by one for the whole text.      *)
handleInput(q) ==
  /\ searchOpen /\ q # searchQuery
  /\ searchQuery' = q
  /\ debounce' = q
  /\ UNCHANGED <<searchOpen, searchResults, searchLoading, searchError,
                 searches, overtaken>>

(* History: the searches under way are no longer the last one.             *)
Older == [n \in Slot |-> IF searches[n] = Idle THEN Idle
                         ELSE [searches[n] EXCEPT !.last = FALSE]]

(* Mutant: no second request while one is under way.                       *)
AskOnce(q) ==
  /\ searchLoading' = TRUE
  /\ searches' = IF searchLoading THEN searches
                 ELSE Send(Older, [do |-> q, last |-> TRUE])
  /\ UNCHANGED searchResults

(* doSearch(): a new request, whatever is under way.                       *)
Ask(q) ==
  /\ searchLoading' = TRUE
  /\ searches' = Send(Older, [do |-> q, last |-> TRUE])
  /\ UNCHANGED searchResults

(* The timer fires; an empty text just clears the results.                 *)
doSearch ==
  /\ debounce # Off /\ Room(searches, 1)
  /\ debounce' = Off
  /\ searchError' = FALSE
  /\ overtaken' = FALSE
  /\ IF debounce = None
     THEN searchResults' = None /\ searchLoading' = FALSE /\ searches' = Older
     ELSE Ask(debounce)
  /\ UNCHANGED <<searchOpen, searchQuery>>

SearchAnswered(n) ==
  /\ searches[n] # Idle
  /\ searchResults' = searches[n].do
  /\ searchLoading' = FALSE
  /\ searches' = Over(searches, n)
  /\ overtaken' = (~searches[n].last
                     /\ (overtaken \/ \A m \in Slot : searches[m] # Idle
                                                      => ~searches[m].last))
  /\ UNCHANGED <<searchOpen, searchQuery, searchError, debounce>>

(* A fault, a refusal or 15 s without an answer; the results stay.         *)
AfterFault == searchError' = TRUE /\ searchLoading' = FALSE

SearchFails(n) ==
  /\ searches[n] # Idle
  /\ AfterFault
  /\ searches' = Over(searches, n)
  /\ UNCHANGED <<searchOpen, searchQuery, searchResults, debounce, overtaken>>

SearchNext ==
  \/ openSearch \/ closeSearch \/ doSearch
  \/ \E q \in Query \cup {None} : handleInput(q)
  \/ \E n \in Slot : SearchAnswered(n) \/ SearchFails(n)

SearchSpec == SearchInit /\ [][SearchNext]_searchVars

-----------------------------------------------------------------------------
SearchTypeOK ==
  /\ searchOpen \in BOOLEAN /\ searchLoading \in BOOLEAN
  /\ searchError \in BOOLEAN /\ overtaken \in BOOLEAN
  /\ {searchQuery, searchResults} \subseteq Query \cup {None}
  /\ debounce \in Query \cup {None, Off}
  /\ \A n \in Slot : searches[n].do \in Query \cup {"idle"}

(* Once the text has been searched for, with no request left under way,    *)
(* the results are those of the text in the box, however the overlay was   *)
(* closed, opened and typed into meanwhile, unless an older answer came    *)
(* last or an error is shown.                                              *)
ResultsOfTheText ==
  searchOpen /\ searchQuery # None /\ debounce = Off /\ searches = Quiet
    => searchError \/ overtaken \/ searchResults = searchQuery
=============================================================================
