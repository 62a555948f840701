------------------------------- MODULE Config -------------------------------
(***************************************************************************)
(* The settings of the service (modules/config.py): a file .env, a copy of *)
(* it in memory, and the environment, which goes before both.  systemd     *)
(* reads the same file into the environment when it starts the service     *)
(* (EnvironmentFile).  Handlers that change settings (api.py) run in       *)
(* several threads: each saves, reloads, reads all the settings and sends  *)
(* them to the TV.                                                         *)
(*                                                                         *)
(* A setting that is nowhere has a default.  Reading the file may fail     *)
(* half-way, which is logged and leaves what has been read; writing it may *)
(* fail too; and the service may stop at any moment.                       *)
(* Left out: comments and the order of the lines, and the repair of a file *)
(* that is empty, and a new PIN, which is saved and told to nobody.        *)
(***************************************************************************)
EXTENDS Naturals, FiniteSets, Functions

CONSTANTS
  Option,    \* the settings
  Value,     \* what a user may choose
  Default,   \* what a setting is that nobody has chosen
  Listed,    \* the settings that are in the file from the first
  Handler,   \* the threads that handle requests
  Faults,    \* which of "read" and "write" may fail
  MaxSaves,  \* bound: requests that change a setting
  MaxStarts  \* bound: times the service is started again

ASSUME ConfigAssumption ==
  /\ Default \notin Value
  /\ Listed \subseteq Option
  /\ Faults \subseteq {"read", "write"}
  /\ {MaxSaves, MaxStarts} \subseteq Nat

VARIABLES
  file,     \* .env: a value for some settings
  cache,    \* _cache
  environ,  \* os.environ, as far as it names settings
  lock,     \* the threads that hold _lock: at most one
  doing,    \* doing[t]: step of a handler
  update,   \* update[t]: the settings it saves, of one user's choice
  lines,    \* lines[t]: the file as save() has read it
  answer,   \* answer[t]: the settings it has read so far
  told,     \* the settings that were last sent to the TV, if any
  choice,   \* history: the last value of each setting that was saved
  misread,  \* history: the copy in memory was read in part only
  last,     \* history: the thread that saved last, if any
  partly,   \* history: threads that have read settings from such a copy
  sure,     \* history: the settings sent last were read, from a whole copy,
            \* by the thread that saved last
  saves, starts

procVars == <<lock, doing, update, lines, answer>>
memoryVars == <<cache, environ, misread>>
toldVars == <<told, last, partly, sure>>
configVars == <<file, memoryVars, procVars, toldVars, choice, saves, starts>>

Settings == {[k \in S |-> c[k]] : S \in SUBSET Option, c \in [Option -> Value \cup {Default}]}
Nothing == << >>

(* The settings of new, and those of old that it does not have.            *)
Merged(old, new) ==
  [k \in DOMAIN old \cup DOMAIN new |-> IF k \in DOMAIN new THEN new[k] ELSE old[k]]

(* What load_env() may give: the file, or the part before an error.        *)
Loads == IF "read" \in Faults THEN {Restrict(file, S) : S \in SUBSET DOMAIN file}
         ELSE {file}

(* The copy in memory is what has been loaded.                             *)
Holds(loaded) == cache' = loaded /\ misread' = (loaded # file)

ConfigInit ==
  /\ file = [k \in Listed |-> Default]
  /\ environ = file /\ cache = file /\ misread = FALSE
  /\ lock = {}
  /\ doing = [t \in Handler |-> "idle"]
  /\ update = [t \in Handler |-> Nothing]
  /\ lines = [t \in Handler |-> Nothing]
  /\ answer = [t \in Handler |-> Nothing]
  /\ told = Nothing /\ last = {} /\ partly = {} /\ sure = FALSE
  /\ choice = file
  /\ saves = 0 /\ starts = 0

Goto(t, step) == doing' = [doing EXCEPT ![t] = step]

-----------------------------------------------------------------------------
(* save()                                                                  *)

(* Mutant: the file is read without the lock.                              *)
AcquireNot(t) == UNCHANGED lock

(* with _lock                                                              *)
Acquire(t) == lock = {} /\ lock' = {t}

(* POST /api/settings or an import: save() reads the file.                 *)
Begin(t, k, v) ==
  /\ doing[t] = "idle" /\ saves < MaxSaves
  /\ Acquire(t)
  /\ Goto(t, "writing")
  /\ update' = [update EXCEPT ![t] = [j \in {k} |-> v]]
  /\ lines' = [lines EXCEPT ![t] = file]
  /\ saves' = saves + 1
  /\ UNCHANGED <<file, memoryVars, answer, toldVars, choice, starts>>

(* _cache.update()                                                         *)
Remember(t) == cache' = Merged(cache, update[t])

(* Mutant: the file is written from the copy in memory.                    *)
RewrittenFromCache(t) == Merged(cache, update[t])

(* The lines that were read, with the new values.                          *)
Rewritten(t) == Merged(lines[t], update[t])

(* The new file takes the place of the old, and the lock is released.      *)
Written(t) ==
  /\ doing[t] = "writing"
  /\ file' = Rewritten(t)
  /\ choice' = Merged(choice, update[t])
  /\ Remember(t)
  /\ lock' = lock \ {t}
  /\ last' = {t}
  /\ Goto(t, "reload")
  /\ UNCHANGED <<environ, misread, update, lines, answer, told, partly, sure,
                 saves, starts>>


(* The handler is over, for good or ill.                                   *)
Ends(t) ==
  /\ Goto(t, "idle")
  /\ update' = [update EXCEPT ![t] = Nothing]
  /\ lines' = [lines EXCEPT ![t] = Nothing]
  /\ partly' = partly \ {t}
  /\ answer' = [answer EXCEPT ![t] = Nothing]

(* It cannot be written: the file stays, and the request is refused.       *)
WriteFails(t) ==
  /\ "write" \in Faults
  /\ doing[t] = "writing"
  /\ lock' = lock \ {t}
  /\ Ends(t)
  /\ UNCHANGED <<file, memoryVars, told, last, sure, choice, saves, starts>>

-----------------------------------------------------------------------------
(* reload()                                                                *)
Reload(t) ==
  /\ doing[t] = "reload" /\ lock = {}
  /\ \E loaded \in Loads : Holds(loaded)
  /\ Goto(t, "telling")
  /\ UNCHANGED <<file, environ, lock, update, lines, answer, toldVars,
                 choice, saves, starts>>

(* get() of a setting that is loaded, or never will be.                    *)
Get(k, held) ==
  IF k \in DOMAIN environ THEN environ[k]
  ELSE IF k \in DOMAIN held THEN held[k] ELSE Default

(* _current_settings() gets one setting after the other, with the lock     *)
(* released between them.  An empty copy is loaded first.                  *)
ReadSetting(t, k) ==
  /\ doing[t] = "telling" /\ lock = {}
  /\ k \notin DOMAIN answer[t]
  /\ IF cache = Nothing THEN \E loaded \in Loads : Holds(loaded)
     ELSE UNCHANGED <<cache, misread>>
  /\ answer' = [answer EXCEPT ![t] = Merged(@, [j \in {k} |-> Get(k, cache')])]
  /\ partly' = IF misread' THEN partly \cup {t} ELSE partly
  /\ UNCHANGED <<file, environ, lock, doing, update, lines, told, last, sure,
                 choice, saves, starts>>

(* notify("settings:changed"), and the answer.                             *)
Tell(t) ==
  /\ doing[t] = "telling" /\ DOMAIN answer[t] = Option
  /\ told' = answer[t]
  /\ sure' = (last = {t} /\ t \notin partly)
  /\ Ends(t)
  /\ UNCHANGED <<file, memoryVars, lock, last, choice, saves, starts>>

-----------------------------------------------------------------------------
(* The service stops, whatever it was doing, and systemd starts it: the    *)
(* environment is read from the file, and so is the copy in memory.        *)
Restart ==
  /\ starts < MaxStarts
  /\ starts' = starts + 1
  /\ environ' = file
  /\ \E loaded \in Loads : Holds(loaded)
  /\ lock' = {}
  /\ doing' = [t \in Handler |-> "idle"]
  /\ update' = [t \in Handler |-> Nothing]
  /\ lines' = [t \in Handler |-> Nothing]
  /\ answer' = [t \in Handler |-> Nothing]
  /\ told' = Nothing /\ last' = {} /\ partly' = {} /\ sure' = FALSE
  /\ UNCHANGED <<file, choice, saves>>

ConfigNext ==
  \/ Restart
  \/ \E t \in Handler :
       \/ \E k \in Option, v \in Value : Begin(t, k, v)
       \/ Written(t) \/ WriteFails(t) \/ Reload(t) \/ Tell(t)
       \/ \E k \in Option : ReadSetting(t, k)

ConfigSpec == ConfigInit /\ [][ConfigNext]_configVars

-----------------------------------------------------------------------------
(* The types; the lock is held exactly by the thread that saves.           *)
ConfigTypeOK ==
  /\ {file, cache, environ, choice, told} \subseteq Settings
  /\ lock = {t \in Handler : doing[t] = "writing"} /\ Cardinality(lock) <= 1
  /\ doing \in [Handler -> {"idle", "writing", "reload", "telling"}]
  /\ update \in [Handler -> Settings] /\ lines \in [Handler -> Settings]
  /\ answer \in [Handler -> Settings]
  /\ {misread, sure} \subseteq BOOLEAN
  /\ last \subseteq Handler /\ partly \subseteq Handler
  /\ saves \in 0..MaxSaves /\ starts \in 0..MaxStarts

(* "prevent concurrent settings saves from clobbering each other" (save):  *)
(* whatever threads save at once, fail, or are stopped, the file holds the *)
(* last value of every setting that was saved.                             *)
NoneClobbered == file = choice

(* "Fires settings:changed SSE event with the new settings object"         *)
(* (API.md): when all requests are over, the settings sent last are those  *)
(* that were saved, but for those that the environment hides until the     *)
(* service is started again.  This is said of what the thread that saved   *)
(* last sends; a thread that saved before it and sends after it may send   *)
(* older settings, which stay (see the README).                            *)
Saved(k) == IF k \in DOMAIN environ THEN environ[k]
            ELSE IF k \in DOMAIN choice THEN choice[k] ELSE Default
=============================================================================
