---------------------------- MODULE MenuSettings ----------------------------
(***************************************************************************)
(* menu_settings.json: menu_settings.cpp, loaded when the mod starts,      *)
(* saved by the main thread each second and at the end (main.cpp), loaded  *)
(* again by Reload Setting in the menu, on the render thread.  Neither     *)
(* thread locks anything.                                                  *)
(*                                                                         *)
(* The settings are a flat function: a section that is missing or is no    *)
(* object misses all of its keys, an array that is too short is missing.   *)
(* A file is written in two steps, the first of which empties it.  Two     *)
(* writes of one json object at a time are undefined; here each of the     *)
(* steps below is taken whole.                                             *)
(***************************************************************************)
EXTENDS Naturals, Functions

CONSTANTS
  Keys,        \* the settings
  Values,      \* what each of them may be
  Defaults,    \* the settings as they are declared
  Wrong,       \* a value of another type than the setting's
  MaxChanges,  \* bound: changes in the menu and edits of the file
  MaxFailures, \* bound: times the file cannot be opened for writing
  MaxEnds      \* bound: ends of the game or the mod

ASSUME MenuSettingsAssumption ==
  /\ Defaults \in [Keys -> Values] /\ Wrong \notin Values
  /\ MaxChanges \in Nat /\ MaxFailures \in Nat /\ MaxEnds \in Nat

VARIABLES
  file,      \* menu_settings.json: what can be read from it, at most one text
  mem,       \* the settings of g_settings
  options,   \* options, what the file is taken to hold
  at,        \* where each thread is in load or save
  output,    \* what a thread is about to write
  phase,     \* main_thread: "starting", "running" (the hooks are on) or "stopping"
  changes,   \* bound: changes so far
  failures,  \* bound: failures so far
  ends,      \* bound: ends so far
  last,      \* history: the value each setting was last given, in the menu or in a file read
  edited,    \* history: settings edited in the file since it was read or written
  upset      \* history: a mishap came to pass

fileVars    == <<file, output>>
programVars == <<mem, options, phase>>
boundVars   == <<changes, failures, ends>>
historyVars == <<last, edited, upset>>
vars == <<fileVars, programVars, at, boundVars, historyVars>>

Threads == {"main", "menu"}

(* No file, a file no json can be read from, such as an empty one, and a   *)
(* file with a text.                                                       *)
Absent   == [exists |-> FALSE, json |-> {}]
Broken   == [exists |-> TRUE, json |-> {}]
Whole(f) == [exists |-> TRUE, json |-> {f}]
Texts    == UNION {[S -> Values \cup {Wrong}] : S \in SUBSET Keys}

(* The mishaps: the game ended between the two steps of a write, two       *)
(* threads wrote the file at once, it could not be opened, a save and a    *)
(* reload came into each other's midst, a setting was changed between the  *)
(* comparison that asked for a save and the save, or a value of another    *)
(* type was read.                                                          *)

Nothing == [k \in {} |-> Wrong]
Held(g)    == [k \in Keys |-> IF \E f \in file.json : k \in DOMAIN f
                              THEN (CHOOSE f \in file.json : TRUE)[k] ELSE g[k]]
Over(f, g) == [k \in DOMAIN f \cup DOMAIN g |-> IF k \in DOMAIN f THEN f[k] ELSE g[k]]

Init ==
  /\ file \in {Absent} \cup {Whole(f) : f \in UNION {[S -> Values] : S \in SUBSET Keys}}
  /\ mem = Defaults
  /\ options = Nothing
  /\ at = [t \in Threads |-> IF t = "main" THEN "off" ELSE "idle"]
  /\ output = [t \in Threads |-> Nothing]
  /\ phase = "starting"
  /\ changes = 0 /\ failures = 0 /\ ends = 0
  /\ last = Held(Defaults)
  /\ edited = {}
  /\ upset = FALSE

-----------------------------------------------------------------------------
Go(t, to) == at' = [at EXCEPT ![t] = to]
Other(t)  == IF t = "main" THEN "menu" ELSE "main"
Up        == at["main"] \notin {"off", "failed"}
Writing(t) == at[t] \in {"save", "remake", "write", "rewrite"}

(* load() reads the file.  One that is not there or cannot be parsed is    *)
(* written anew, with the settings as they are, and load begins again.     *)
Read(t) ==
  /\ at[t] = "read"
  /\ \/ /\ file.json = {}
        /\ Go(t, "remake")
        /\ UNCHANGED <<options, historyVars>>
     \/ /\ options' \in file.json
        /\ Go(t, "assign")
        /\ upset' = (upset \/ Writing(Other(t)))
        /\ last' = [k \in Keys |-> IF k \in edited \cup (IF t = "menu" THEN DOMAIN options' ELSE {})
                                    THEN options'[k] ELSE last[k]]
        /\ edited' = {}
  /\ UNCHANGED <<fileVars, mem, phase, boundVars>>

(* Mutant of Completed: a file that lacks a setting is not used.           *)
Completed_Anew == IF DOMAIN options = Keys THEN options ELSE mem

(* deep_compare puts what the file lacks into the options.                 *)
Completed == Over(options, mem)

Mistyped == {k \in DOMAIN options : options[k] = Wrong}

(* deep_compare with the settings, and from_json into them; a file that    *)
(* lacked some is saved.  from_json throws at a value of another type,     *)
(* past the settings it has already set; on the main thread that ends the  *)
(* start of the mod, in the menu the render hook catches it.               *)
Assign(t) ==
  /\ at[t] = "assign"
  /\ options' = Completed
  /\ IF Mistyped = {}
     THEN /\ mem' = Completed
          /\ Go(t, IF DOMAIN options = Keys THEN "idle" ELSE "save")
          /\ UNCHANGED upset
     ELSE /\ \E S \in SUBSET (Keys \ Mistyped) :
               mem' = [k \in Keys |-> IF k \in S THEN Completed[k] ELSE mem[k]]
          /\ Go(t, IF t = "main" THEN "failed" ELSE "idle")
          /\ upset' = TRUE
  /\ UNCHANGED <<fileVars, phase, boundVars, last, edited>>

(* save() and write_default_config(): the file is opened, which empties    *)
(* it, and the settings are taken.  A save takes them as they are by now,  *)
(* not as the comparison put them into the options.  A file that cannot be *)
(* opened stays as it is, and nobody is told.                              *)
OpenFile(t) ==
  /\ at[t] \in {"save", "remake"}
  /\ \/ /\ file' = Broken
        /\ output' = [output EXCEPT ![t] = mem]
        /\ Go(t, IF at[t] = "save" THEN "write" ELSE "rewrite")
        /\ upset' = (upset \/ (at[t] = "save" /\ mem # options))
        /\ UNCHANGED failures
     \/ /\ failures < MaxFailures
        /\ failures' = failures + 1
        /\ Go(t, IF at[t] = "save" THEN "idle" ELSE "read")
        /\ upset' = TRUE
        /\ UNCHANGED fileVars
  /\ UNCHANGED <<programVars, changes, ends, last, edited>>

(* What is written over what another thread has written meanwhile is a     *)
(* mixture of the two, unless they are the same or as long.                *)
WriteFile(t) ==
  /\ at[t] \in {"write", "rewrite"}
  /\ \/ /\ file \in {Broken, Whole(output[t])}
        /\ file' = Whole(output[t])
        /\ UNCHANGED upset
     \/ /\ file \notin {Broken, Whole(output[t])}
        /\ file' \in {Whole(output[t]), Broken}
        /\ upset' = TRUE
  /\ output' = [output EXCEPT ![t] = Nothing]
  /\ Go(t, IF at[t] = "write" THEN "idle" ELSE "read")
  /\ edited' = {}
  /\ UNCHANGED <<programVars, boundVars, last>>

-----------------------------------------------------------------------------
(* The main thread.                                                        *)

(* Mutant of Differs: attempt_save compares without the values.            *)
Differs_Keys == DOMAIN options # Keys

(* deep_compare with compare_value.                                        *)
Differs == options # mem

(* attempt_save, each second and at the end.  The options are what is to   *)
(* be saved from here on, whether the save succeeds or not.                *)
AttemptSave ==
  /\ at["main"] = "idle"
  /\ phase # "starting"
  /\ Differs
  /\ options' = mem
  /\ Go("main", "save")
  /\ upset' = (upset \/ at["menu"] = "assign")
  /\ UNCHANGED <<fileVars, mem, phase, boundVars, last, edited>>

StartMod ==
  /\ at["main"] = "off"
  /\ mem' = Defaults
  /\ options' = Nothing
  /\ phase' = "starting"
  /\ Go("main", "read")
  /\ UNCHANGED <<fileVars, boundVars, historyVars>>

(* load is done, and the hooks go on.                                      *)
Enable ==
  /\ phase = "starting"
  /\ at["main"] = "idle"
  /\ phase' = "running"
  /\ UNCHANGED <<fileVars, mem, options, at, boundVars, historyVars>>

Stop ==
  /\ phase = "running"
  /\ phase' = "stopping"
  /\ UNCHANGED <<fileVars, mem, options, at, boundVars, historyVars>>

(* The attempt_save at the end found nothing left to save.                 *)
LastSave == ~Differs

(* The end of main_thread: the hooks are off, so the menu is idle.         *)
Leave ==
  /\ ends < MaxEnds
  /\ phase = "stopping"
  /\ at = [t \in Threads |-> "idle"]
  /\ LastSave
  /\ ends' = ends + 1
  /\ Go("main", "off")
  /\ UNCHANGED <<fileVars, programVars, changes, failures, historyVars>>

(* The game ends, in the midst of anything; what was not saved is lost.    *)
GameEnds ==
  /\ ends < MaxEnds
  /\ at["main"] # "off"
  /\ ends' = ends + 1
  /\ at' = [t \in Threads |-> IF t = "main" THEN "off" ELSE "idle"]
  /\ output' = [t \in Threads |-> Nothing]
  /\ upset' = (upset \/ file = Broken)
  /\ last' = Held(Defaults)
  /\ UNCHANGED <<file, programVars, changes, failures, edited>>

-----------------------------------------------------------------------------
(* The menu, and whoever else edits the file.                              *)

MenuRuns == at["main"] # "off" /\ phase = "running" /\ at["menu"] = "idle"

Change(k, v) ==
  /\ MenuRuns
  /\ changes < MaxChanges
  /\ changes' = changes + 1
  /\ mem' = [mem EXCEPT ![k] = v]
  /\ last' = [last EXCEPT ![k] = v]
  /\ UNCHANGED <<fileVars, options, at, phase, failures, ends, edited, upset>>

(* Reload Setting.                                                         *)
Reload ==
  /\ MenuRuns
  /\ Go("menu", "read")
  /\ UNCHANGED <<fileVars, programVars, boundVars, historyVars>>

(* The user, or the Astra loader, edits a setting in the file.             *)
Edit(k, v) ==
  /\ changes < MaxChanges
  /\ changes' = changes + 1
  /\ \E f \in file.json : file' = Whole(Over([key \in {k} |-> v], f))
  /\ edited' = edited \cup {k}
  /\ UNCHANGED <<output, programVars, at, failures, ends, last, upset>>

Thread(t) == Read(t) \/ Assign(t) \/ OpenFile(t) \/ WriteFile(t)

Next ==
  \/ \E t \in Threads : Thread(t)
  \/ AttemptSave \/ StartMod \/ Enable \/ Stop \/ Leave \/ GameEnds \/ Reload
  \/ \E k \in Keys, v \in Values : Change(k, v)
  \/ \E k \in Keys, v \in Values \cup {Wrong} : Edit(k, v)

Spec == Init /\ [][Next]_vars

(* The threads run, and a second passes.                                   *)
FairSpec ==
  /\ Spec
  /\ \A t \in Threads : WF_vars(Thread(t))
  /\ WF_vars(AttemptSave) /\ WF_vars(Enable)

-----------------------------------------------------------------------------
(* Each variable has its type.                                             *)
TypeOK ==
  /\ file \in {Absent, Broken} \cup {Whole(f) : f \in Texts}
  /\ mem \in [Keys -> Values]
  /\ options \in Texts
  /\ at \in [Threads -> {"off", "failed", "idle", "read", "assign", "remake", "rewrite", "save",
                       "write"}]
  /\ at["menu"] \notin {"off", "failed"}
  /\ output \in [Threads -> Texts]
  /\ phase \in {"starting", "running", "stopping"}
  /\ changes \in 0..MaxChanges /\ failures \in 0..MaxFailures /\ ends \in 0..MaxEnds
  /\ last \in [Keys -> Values \cup {Wrong}]
  /\ edited \subseteq Keys
  /\ upset \in BOOLEAN

(* A setting has the value it was last given, over any number of ends and  *)
(* starts, reloads and versions that lack some settings, as long as no     *)
(* mishap came to pass.  What was edited in the file counts from the next  *)
(* load on, if it is not overwritten before.                               *)
SettingsStay ==
  at["main"] # "off" /\ phase # "starting" /\ at["menu"] = "idle" /\ ~upset
    => \A k \in Keys : mem[k] = last[k]

(* A change in the menu is in the file in the end, unless it is changed    *)
(* again, the mod ends, or a mishap comes to pass.                         *)
ChangeIsSaved ==
  \A k \in Keys, v \in Values :
    Up /\ mem[k] = v ~> \/ \E f \in file.json : k \in DOMAIN f /\ f[k] = v
                        \/ mem[k] # v \/ ~Up \/ upset \/ k \in edited

=============================================================================
