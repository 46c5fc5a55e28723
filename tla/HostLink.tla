------------------------------ MODULE HostLink ------------------------------
(***************************************************************************)
(* The link between the mod of a lobby's clients and that of its host:     *)
(* features/host_link.cpp, with turn_off_host_only of events/              *)
(* main_event.cpp, which runs before its tick in every update.             *)
(*                                                                         *)
(* Each game's handlers and tick run on its game thread, so each is one    *)
(* step; the menu switches toggles from the render thread, between them.   *)
(* Requests and answers go over two reliable calls of the engine, kept in  *)
(* order, which may take any time.  The five-second waits are a choice.    *)
(* client_toggles() are told apart by what their apply and remove do.  The *)
(* damage ones, instant_cuff and no_stun have no remove, and act within an *)
(* update or when a pawn is hit.  infinite_tactical makes gear unlimited,  *)
(* which its remove leaves as it is.  The others undo what they did.       *)
(* A weak_object of an object that is gone compares equal to nothing, so   *)
(* an entry of a controller that went is left out at once.  A game is a    *)
(* client or the host throughout.  Notifications are left out.             *)
(***************************************************************************)
EXTENDS Naturals, Sequences, SequencesExt

CONSTANTS
  Clients,
  WorldToggles,     \* world_toggles: the host's own, turned for everyone
  PawnToggles,      \* client_toggles(): run by the host on the client's pawn
  Lasting,          \* of them, whose apply leaves something on the pawn
  Undone,           \* of these, whose remove takes that off again
  HostOnly,         \* host_only of main_event.cpp
  MaxValue,         \* bound: values of a toggle, 0 for off
  MaxPieces,        \* the pieces of 4096 characters of a request
  MaxEvents,        \* bound: things users and the engine do by themselves
  MaySwitchAccept,  \* whether the host switches Accept Client Requests
  MayUnload,        \* whether the host unloads the mod and loads it again
  MayTravel,        \* whether a client gets a new controller or pawn
  MayTimeOut        \* whether an answer may take longer than five seconds

Toggles == WorldToggles \cup PawnToggles

ASSUME HostLinkAssumption ==
  /\ IsFiniteSet(Toggles)
  /\ WorldToggles \cap PawnToggles = {}
  /\ Undone \subseteq Lasting /\ Lasting \subseteq PawnToggles
  /\ WorldToggles \subseteq HostOnly /\ HostOnly \subseteq Toggles
  /\ MaxValue \in Nat /\ MaxPieces \in Nat \ {0} /\ MaxEvents \in Nat
  /\ {MaySwitchAccept, MayUnload, MayTravel, MayTimeOut} \subseteq BOOLEAN

VARIABLES
  want,       \* client: the value of each toggle in its menu, 0 for off
  answered,   \* client: g_answered is its controller, i.e. ready()
  linked,     \* client: g_linked
  known,      \* client: g_asked is its controller
  asks,       \* client: g_asks
  waiting,    \* client: g_waiting is set
  sent,       \* client: g_sent, 0 for what is not in it
  loaded,     \* host: the mod is in its game
  accept,     \* host: the state of accept_client_requests
  accepting,  \* host: g_accepting
  modded,     \* host: g_modded
  pieces,     \* host: g_pieces
  settings,   \* host: g_client_settings, 0 for a toggle a client has not on
  pawn,       \* host: the client has a pawn
  effect,     \* host: what apply left on that pawn and nothing took off
  toHost,     \* ServerExecRPC calls on their way, by client
  toClient,   \* Client_SendChatMessage calls on their way, by client
  events,     \* bound: what users and the engine did so far
  upsets      \* history: what happened some time that a host may not live through

menuVars   == <<want>>
linkVars   == <<answered, linked, known, asks, waiting>>
hostVars   == <<accepting, modded, pieces, settings, effect>>
engineVars == <<loaded, accept, pawn, upsets>>
vars == <<menuVars, linkVars, sent, hostVars, engineVars, toHost, toClient, events>>

Off  == [t \in Toggles |-> 0]
None == [t \in PawnToggles |-> 0]

(* What a request reads, and whether more of it follows.                   *)
Ping       == [kind |-> "ping"]
Set(t, v)  == [kind |-> "set", toggle |-> t, value |-> v]
RunPart(n) == [kind |-> "run", part |-> n]
Whole(text) == [more |-> FALSE, text |-> text]
Piece(text) == [more |-> TRUE, text |-> text]

(* A request of more than 100 characters, in two pieces.                   *)
LongRun == <<RunPart(1), RunPart(2)>>

Init ==
  /\ want = [c \in Clients |-> Off]
  /\ answered = [c \in Clients |-> FALSE]
  /\ linked = [c \in Clients |-> FALSE]
  /\ known = [c \in Clients |-> FALSE]
  /\ asks = [c \in Clients |-> 0]
  /\ waiting = [c \in Clients |-> FALSE]
  /\ sent = [c \in Clients |-> Off]
  /\ loaded = TRUE
  /\ accept \in BOOLEAN
  /\ accepting = FALSE
  /\ modded = {}
  /\ pieces = [c \in Clients |-> <<>>]
  /\ settings = [c \in Clients |-> None]
  /\ pawn = [c \in Clients |-> TRUE]
  /\ effect = [c \in Clients |-> None]
  /\ toHost = [c \in Clients |-> <<>>]
  /\ toClient = [c \in Clients |-> <<>>]
  /\ events = 0
  /\ upsets = {}

-----------------------------------------------------------------------------
(* The client's update: turn_off_host_only, then host_link::tick.          *)

(* forwards, of a toggle the host knows.                                   *)
Forwards(c) == answered[c] \/ linked[c]

(* turn_off_host_only.                                                     *)
TurnedOff(c) ==
  [t \in Toggles |-> IF t \in HostOnly /\ ~Forwards(c) THEN 0 ELSE want[c][t]]

(* Mutant of Forgotten: what was sent is kept for the next host.           *)
Forgotten_Kept(c) == sent[c]

(* g_sent.clear().                                                         *)
Forgotten(c) == Off

(* Mutant of AsksSoFar: a new controller goes on with the old one's asks.  *)
AsksSoFar_Kept(c) == asks[c]

AsksSoFar(c) == IF known[c] THEN asks[c] ELSE 0

AsksLeft(c) == AsksSoFar(c) < 3

(* Not ready: nothing counts as sent or as waiting for an answer.          *)
NotReady(c) ==
  /\ ~answered[c]
  /\ want' = [want EXCEPT ![c] = TurnedOff(c)]
  /\ sent' = [sent EXCEPT ![c] = Forgotten(c)]
  /\ waiting' = [waiting EXCEPT ![c] = FALSE]
  /\ known' = [known EXCEPT ![c] = TRUE]
  /\ UNCHANGED <<answered, hostVars, engineVars, toClient, events>>

(* It asks up to three times, five seconds apart.                          *)
Ask(c) ==
  /\ NotReady(c)
  /\ AsksLeft(c)
  /\ asks' = [asks EXCEPT ![c] = AsksSoFar(c) + 1]
  /\ toHost' = [toHost EXCEPT ![c] = Append(@, Whole(Ping))]
  /\ UNCHANGED linked

(* Not one answer five seconds after the third.                            *)
GiveUp(c) ==
  /\ NotReady(c)
  /\ AsksSoFar(c) = 3
  /\ linked' = [linked EXCEPT ![c] = FALSE]
  /\ UNCHANGED <<asks, toHost>>

(* Five seconds have not passed.                                           *)
Wait(c) ==
  /\ NotReady(c)
  /\ asks' = [asks EXCEPT ![c] = AsksSoFar(c)]
  /\ UNCHANGED <<linked, toHost>>

(* Ready, but a request has had no answer for five seconds.  As long as it *)
(* is ready, TurnedOff leaves all as it is.                                *)
TimeOut(c) ==
  /\ MayTimeOut
  /\ answered[c]
  /\ waiting[c]
  /\ answered' = [answered EXCEPT ![c] = FALSE]
  /\ linked' = [linked EXCEPT ![c] = FALSE]
  /\ upsets' = upsets \cup {"slow"}
  /\ UNCHANGED <<menuVars, known, asks, waiting, sent, hostVars, loaded, accept, pawn, toHost, toClient, events>>

(* Ready: each toggle that changed is sent.                                *)
Sync(c) ==
  LET changed == {t \in Toggles : sent[c][t] # want[c][t]} IN
  /\ answered[c]
  /\ changed # {}
  /\ sent' = [sent EXCEPT ![c] = want[c]]
  /\ toHost' = [toHost EXCEPT ![c] = @ \o SetToSeq({Whole(Set(t, want[c][t])) : t \in changed})]
  /\ waiting' = [waiting EXCEPT ![c] = TRUE]
  /\ UNCHANGED <<menuVars, answered, linked, known, asks, hostVars, engineVars, toClient, events>>

-----------------------------------------------------------------------------
(* What the client's user does, in tasks that run after the update.        *)

(* A toggle is switched, or the value sent with it changed.                *)
Click(c, t, v) ==
  /\ events < MaxEvents
  /\ want[c][t] # v
  /\ events' = events + 1
  /\ want' = [want EXCEPT ![c][t] = v]
  /\ UNCHANGED <<linkVars, sent, hostVars, engineVars, toHost, toClient>>

(* Check Host Mod.                                                         *)
CheckHost(c) ==
  /\ events < MaxEvents
  /\ known[c]
  /\ events' = events + 1
  /\ toHost' = [toHost EXCEPT ![c] = Append(@, Whole(Ping))]
  /\ UNCHANGED <<menuVars, linkVars, sent, hostVars, engineVars, toClient>>

(* host_link::run with a request long enough for two pieces.               *)
Run(c) ==
  /\ events < MaxEvents
  /\ answered[c]
  /\ events' = events + 1
  /\ toHost' = [toHost EXCEPT ![c] = @ \o <<Piece(RunPart(1)), Whole(RunPart(2))>>]
  /\ waiting' = [waiting EXCEPT ![c] = TRUE]
  /\ UNCHANGED <<menuVars, answered, linked, known, asks, sent, hostVars, engineVars, toClient>>

-----------------------------------------------------------------------------
(* host_link_answer, on the client.                                        *)

Receive(c, text) ==
  /\ toClient[c] # <<>>
  /\ Head(toClient[c]) = text
  /\ toClient' = [toClient EXCEPT ![c] = Tail(@)]
  /\ waiting' = [waiting EXCEPT ![c] = FALSE]
  /\ UNCHANGED <<menuVars, known, sent, hostVars, engineVars, toHost, events>>

Pong(c) ==
  /\ Receive(c, "pong")
  /\ answered' = [answered EXCEPT ![c] = TRUE]
  /\ linked' = [linked EXCEPT ![c] = TRUE]
  /\ UNCHANGED asks

Refused(c) ==
  /\ Receive(c, "refused")
  /\ answered' = [answered EXCEPT ![c] = FALSE]
  /\ linked' = [linked EXCEPT ![c] = FALSE]
  /\ asks' = [asks EXCEPT ![c] = 3]

RequestRefused(c) ==
  /\ Receive(c, "refused:")
  /\ answered' = [answered EXCEPT ![c] = FALSE]
  /\ linked' = [linked EXCEPT ![c] = FALSE]
  /\ UNCHANGED <<asks>>

(* ok:, failed: and unknown: are only shown.                               *)
Told(c) ==
  /\ \E text \in {"done:", "unknown:"} : Receive(c, text)
  /\ UNCHANGED <<answered, linked, asks>>

-----------------------------------------------------------------------------
(* host_link_exec_request, handle and run_request, on the host.            *)

Answer(c, text) == toClient' = [toClient EXCEPT ![c] = Append(@, text)]

(* A game without the mod drops the call unseen.                           *)
Dropped(c) ==
  /\ ~loaded
  /\ toHost[c] # <<>>
  /\ toHost' = [toHost EXCEPT ![c] = Tail(@)]
  /\ UNCHANGED <<menuVars, linkVars, sent, hostVars, engineVars, toClient, events>>

Arrives(c) ==
  /\ loaded
  /\ toHost[c] # <<>>
  /\ toHost' = [toHost EXCEPT ![c] = Tail(@)]
  /\ UNCHANGED <<menuVars, linkVars, sent, accepting, engineVars, events>>

Joined(c) == Append(pieces[c], Head(toHost[c]).text)

(* A request that grew far longer than any is let go, this piece with it.  *)
TakePiece(c) ==
  /\ Arrives(c)
  /\ Head(toHost[c]).more
  /\ pieces' = [pieces EXCEPT ![c] = IF Len(@) > MaxPieces THEN <<>> ELSE Joined(c)]
  /\ UNCHANGED <<modded, settings, effect, toClient>>

(* Mutant of Taken: the pieces of a request stay for the next one.         *)
Taken_Kept(c) == pieces

Taken(c) == [pieces EXCEPT ![c] = <<>>]

Arrived(c) ==
  /\ Arrives(c)
  /\ ~Head(toHost[c]).more
  /\ pieces' = Taken(c)

Remembered(c) == modded \cup {c}

TakePing(c) ==
  /\ Arrived(c)
  /\ Joined(c) = <<Ping>>
  /\ modded' = Remembered(c)
  /\ Answer(c, IF accept THEN "pong" ELSE "refused")
  /\ UNCHANGED <<settings, effect>>

Refuse(c) ==
  /\ Arrived(c)
  /\ Joined(c) # <<Ping>>
  /\ ~accept
  /\ Answer(c, "refused:")
  /\ UNCHANGED <<modded, settings, effect>>

(* What it runs, and whether that works, does not matter here.             *)
RunRequest(c) ==
  /\ Arrived(c)
  /\ accept
  /\ Joined(c) = LongRun
  /\ Answer(c, "done:")
  /\ UNCHANGED <<modded, settings, effect>>

IsSet(c) == Len(Joined(c)) = 1 /\ Joined(c)[1].kind = "set"

(* It turns the host's own toggle, which nothing here depends on.          *)
SetWorld(c) ==
  /\ Arrived(c)
  /\ accept
  /\ IsSet(c) /\ Joined(c)[1].toggle \in WorldToggles
  /\ Answer(c, "done:")
  /\ UNCHANGED <<modded, settings, effect>>

(* Mutant of Removed: what was applied to the pawn stays.                  *)
Removed_Kept(c, t) == effect

(* toggle->remove(pawn), where there is a pawn and a remove.               *)
Removed(c, t) == IF pawn[c] /\ t \in Undone THEN [effect EXCEPT ![c][t] = 0] ELSE effect

SetPawn(c) ==
  LET t == Joined(c)[1].toggle
      v == Joined(c)[1].value IN
  /\ Arrived(c)
  /\ accept
  /\ IsSet(c) /\ t \in PawnToggles
  /\ settings' = [settings EXCEPT ![c][t] = v]
  /\ effect' = IF v = 0 THEN Removed(c, t) ELSE effect
  /\ Answer(c, "done:")
  /\ UNCHANGED modded

(* Neither of these, such as the end of a request cut in two.              *)
Unknown(c) ==
  /\ Arrived(c)
  /\ accept
  /\ Joined(c) \notin {<<Ping>>, LongRun}
  /\ ~IsSet(c)
  /\ Answer(c, "unknown:")
  /\ UNCHANGED <<modded, settings, effect>>

-----------------------------------------------------------------------------
(* host_link::tick, on the host.                                           *)

(* Mutant of TakenBack: the settings go, what they did stays.              *)
TakenBack_Not == effect

(* apply or remove reaches the pawn: the client has one, and a setting of  *)
(* a toggle that has it.                                                   *)
Reaches(c, t, toggles) == settings[c][t] # 0 /\ pawn[c] /\ t \in toggles

(* remove, for each setting whose client has a pawn.                       *)
TakenBack ==
  [c \in Clients |-> [t \in PawnToggles |-> IF Reaches(c, t, Undone) THEN 0 ELSE effect[c][t]]]

(* apply, for each setting whose client has a pawn.                        *)
Applied ==
  [c \in Clients |-> [t \in PawnToggles |->
    IF Reaches(c, t, Lasting) THEN settings[c][t] ELSE effect[c][t]]]

HostTick ==
  /\ loaded
  /\ accepting' = accept
  /\ toClient' = IF accept # accepting
                 THEN [c \in Clients |-> IF c \in modded
                                         THEN Append(toClient[c], IF accept THEN "pong" ELSE "refused")
                                         ELSE toClient[c]]
                 ELSE toClient
  /\ settings' = IF accept THEN settings ELSE [c \in Clients |-> None]
  /\ effect' = IF accept THEN Applied ELSE TakenBack
  /\ UNCHANGED <<menuVars, linkVars, sent, modded, pieces, engineVars, toHost, events>>

-----------------------------------------------------------------------------
(* What the host's user and the engine do.                                 *)

SwitchAccept ==
  /\ MaySwitchAccept
  /\ loaded
  /\ events < MaxEvents
  /\ events' = events + 1
  /\ accept' = ~accept
  /\ upsets' = upsets \cup {"switched"}
  /\ UNCHANGED <<menuVars, linkVars, sent, hostVars, loaded, pawn, toHost, toClient>>

(* The host switches its own toggle off, whose on_disable sets back what   *)
(* the clients' remove does not: infinite_tactical's.                      *)
OwnOff ==
  /\ loaded
  /\ \E c \in Clients, t \in Lasting \ Undone : effect[c][t] # 0
  /\ effect' = [c \in Clients |-> [t \in PawnToggles |->
                 IF t \in Lasting \ Undone THEN 0 ELSE effect[c][t]]]
  /\ UNCHANGED <<menuVars, linkVars, sent, accepting, modded, pieces, settings, engineVars,
                 toHost, toClient, events>>

(* The mod goes, and with it all it knew; nothing takes back what it did.  *)
UnloadHost ==
  /\ MayUnload
  /\ loaded
  /\ events < MaxEvents
  /\ events' = events + 1
  /\ loaded' = FALSE
  /\ upsets' = upsets \cup {"unloaded"}
  /\ accepting' = FALSE
  /\ modded' = {}
  /\ pieces' = [c \in Clients |-> <<>>]
  /\ settings' = [c \in Clients |-> None]
  /\ UNCHANGED <<menuVars, linkVars, sent, accept, pawn, effect, toHost, toClient>>

LoadHost ==
  /\ ~loaded
  /\ events < MaxEvents
  /\ events' = events + 1
  /\ loaded' = TRUE
  /\ UNCHANGED <<menuVars, linkVars, sent, hostVars, accept, pawn, upsets, toHost, toClient>>

(* A new lobby or map: a new controller and pawn, on both games, and what  *)
(* was on its way to the old one is lost.                                  *)
Travel(c) ==
  /\ MayTravel
  /\ events < MaxEvents
  /\ events' = events + 1
  /\ answered' = [answered EXCEPT ![c] = FALSE]
  /\ known' = [known EXCEPT ![c] = FALSE]
  /\ modded' = modded \ {c}
  /\ pieces' = [pieces EXCEPT ![c] = <<>>]
  /\ settings' = [settings EXCEPT ![c] = None]
  /\ pawn' = [pawn EXCEPT ![c] = TRUE]
  /\ effect' = [effect EXCEPT ![c] = None]
  /\ toHost' = [toHost EXCEPT ![c] = <<>>]
  /\ toClient' = [toClient EXCEPT ![c] = <<>>]
  /\ UNCHANGED <<menuVars, linked, asks, waiting, sent, loaded, accept, accepting, upsets>>

(* The client's pawn dies, or it gets the next one.                        *)
ChangePawn(c) ==
  /\ MayTravel
  /\ events < MaxEvents
  /\ events' = events + 1
  /\ pawn' = [pawn EXCEPT ![c] = ~@]
  /\ effect' = [effect EXCEPT ![c] = None]
  /\ UNCHANGED <<menuVars, linkVars, sent, accepting, modded, pieces, settings, loaded, accept,
                 upsets, toHost, toClient>>

-----------------------------------------------------------------------------
Update(c) == Ask(c) \/ GiveUp(c) \/ Wait(c) \/ TimeOut(c) \/ Sync(c)

User(c) == CheckHost(c) \/ Run(c) \/ \E t \in Toggles, v \in 0..MaxValue : Click(c, t, v)

Hear(c) == Pong(c) \/ Refused(c) \/ RequestRefused(c) \/ Told(c)

Serve(c) ==
  \/ Dropped(c) \/ TakePiece(c) \/ TakePing(c) \/ Refuse(c) \/ RunRequest(c)
  \/ SetWorld(c) \/ SetPawn(c) \/ Unknown(c)

Engine == SwitchAccept \/ OwnOff \/ UnloadHost \/ LoadHost \/ \E c \in Clients : Travel(c) \/ ChangePawn(c)

Next ==
  \/ \E c \in Clients : Update(c) \/ User(c) \/ Hear(c) \/ Serve(c)
  \/ HostTick
  \/ Engine

Spec == Init /\ [][Next]_vars

(* Both games keep updating, the five seconds pass, and what is sent       *)
(* arrives.                                                                *)
FairSpec ==
  /\ Spec
  /\ WF_vars(HostTick)
  /\ \A c \in Clients : /\ WF_vars(Ask(c)) /\ WF_vars(Sync(c))
                        /\ WF_vars(Hear(c)) /\ WF_vars(Serve(c))

-----------------------------------------------------------------------------
Texts == {Ping} \cup {RunPart(n) : n \in 1..2} \cup {Set(t, v) : t \in Toggles, v \in 0..MaxValue}
Answers == {"pong", "refused", "refused:", "done:", "unknown:"}

(* Each variable has its type.                                             *)
TypeOK ==
  /\ want \in [Clients -> [Toggles -> 0..MaxValue]]
  /\ answered \in [Clients -> BOOLEAN]
  /\ linked \in [Clients -> BOOLEAN]
  /\ known \in [Clients -> BOOLEAN]
  /\ asks \in [Clients -> 0..3]
  /\ waiting \in [Clients -> BOOLEAN]
  /\ sent \in [Clients -> [Toggles -> 0..MaxValue]]
  /\ loaded \in BOOLEAN /\ accept \in BOOLEAN /\ accepting \in BOOLEAN
  /\ upsets \subseteq {"slow", "switched", "unloaded"}
  /\ modded \subseteq Clients
  /\ pieces \in [Clients -> Seq(Texts)]
  /\ settings \in [Clients -> [PawnToggles -> 0..MaxValue]]
  /\ pawn \in [Clients -> BOOLEAN]
  /\ effect \in [Clients -> [PawnToggles -> 0..MaxValue]]
  /\ toHost \in [Clients -> Seq([more : BOOLEAN, text : Texts])]
  /\ toClient \in [Clients -> Seq(Answers)]
  /\ events \in 0..MaxEvents

(* Unless the host unloads the mod, what a toggle with a remove of its own *)
(* kind left on a client's pawn belongs to a toggle the client has on:     *)
(* turning it off, or Accept Client Requests, takes it back, whatever      *)
(* became of the pawn meanwhile.                                           *)
EffectsBelong ==
  "unloaded" \notin upsets => \A c \in Clients, t \in Undone :
                 effect[c][t] # 0 => settings[c][t] # 0 /\ pawn[c]

(* "Turning Accept Client Requests off takes back what clients have on":   *)
(* an update of the host that sees it off leaves on a pawn at most what    *)
(* remove does not undo, which is infinite_tactical's unlimited gear.      *)
OffTakesBack ==
  "unloaded" \notin upsets /\ ~accepting => \A c \in Clients, t \in Undone : effect[c][t] = 0

(* A request that went in pieces arrives as one, mixed with nothing else:  *)
(* only a host that loaded the mod half way finds one it does not know.    *)
RequestsWhole ==
  "unloaded" \notin upsets => \A c \in Clients : \A i \in DOMAIN toClient[c] : toClient[c][i] # "unknown:"

(* All the client had to say has arrived, all answers too, it has no more  *)
(* to say, and the host takes requests.                                    *)
Quiet(c) ==
  /\ answered[c] /\ sent[c] = want[c]
  /\ toHost[c] = <<>> /\ toClient[c] = <<>>
  /\ loaded /\ accept /\ accepting

(* "As a client: sends the host each change to a forwarded toggle": once   *)
(* all of it arrived, the host runs for the client the toggles the client  *)
(* shows as on, with their values, and no others.                          *)
HostFollows ==
  \A c \in Clients : Quiet(c) => \A t \in PawnToggles : settings[c][t] = want[c][t]

(* So it is while the host neither switches Accept Client Requests nor     *)
(* unloads, and answers in five seconds, however the client travels, loses *)
(* its pawn and switches meanwhile.                                        *)
HostFollowsUnlessUpset == upsets = {} => HostFollows

(* A toggle switched on while the host takes requests gets to the host,    *)
(* unless the client loses the link first or switches it off.              *)
ChangeArrives ==
  \A c \in Clients, t \in PawnToggles, v \in 1..MaxValue :
    answered[c] /\ want[c][t] = v ~> settings[c][t] = v \/ ~answered[c] \/ want[c][t] # v

(* A client of a host that takes requests is linked by itself, after each  *)
(* change of lobby or map.                                                 *)
ClientsGetLinked ==
  [](accept /\ loaded) => \A c \in Clients : <>[]answered[c]

=============================================================================
