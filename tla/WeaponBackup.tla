---------------------------- MODULE WeaponBackup ----------------------------
(***************************************************************************)
(* What features change on weapons and put back: utility/weak_object.hpp,  *)
(* utility/weapon_backup.hpp and features/ spread, recoil, penetration,    *)
(* damage, rapid_fire, full_auto and infinite_ammo, on the host's game.    *)
(*                                                                         *)
(* The engine makes and frees weapons; a weapon is at an address and has   *)
(* an index in GObjects, and both are used again.  No two features change  *)
(* the same field, and each has a backup of its own, so a behaviour follows*)
(* one of them, through what it does to its own field of every weapon.     *)
(* A value is whose original it is, or comes from, and whether it is       *)
(* changed.  Loaded ammo brings its own values with it; a fire mode is     *)
(* selected by the player: both are the version of the field.  A feature   *)
(* that is switched runs on_enable or on_disable as one step; that a round *)
(* of the loop can come into the midst of a click is in module Unload.     *)
(***************************************************************************)
EXTENDS Integers

CONSTANTS
  Addresses,     \* where the engine keeps weapons
  Indices,       \* their places in GObjects
  Versions,      \* ammo types, or the fire modes single and burst
  Features,      \* the features followed
  MaxWeapons,    \* bound: weapons made
  MayReusePlace  \* whether a weapon may get both address and index of one in a backup

OnlyOwn   == {"spread", "recoil", "penetration", "damage"}
ForClient == {"fire_rate", "fire_mode", "infinite"}
Versioned == {"penetration", "damage", "fire_mode"}
Scaled    == {"penetration", "fire_rate"}

ASSUME WeaponBackupAssumption ==
  /\ Indices \subseteq Nat
  /\ Features \subseteq OnlyOwn \cup ForClient
  /\ MaxWeapons \in Nat
  /\ MayReusePlace \in BOOLEAN

Free   == -1        \* m_index without an object: no weapon at an address
Nobody == "nobody"  \* no weapon in hand, no pawn that owns it
NoOnes == [weapon |-> 0, version |-> 0]  \* not of any weapon
Players == {"host", "client"}

VARIABLES
  feature,  \* the feature followed
  index,    \* the index of the weapon at each address
  weapon,   \* which of the weapons made it is
  made,     \* bound: weapons made so far
  version,  \* the ammo loaded in it, or the fire mode its player selected
  owner,    \* the player whose pawn owns it
  value,    \* the field the feature changes
  pawn,     \* players who have a pawn
  hand,     \* the address of the weapon each player's pawn has equipped
  entries,  \* g_backup, or m_weapons and g_client_weapons
  on,       \* the host's own toggle
  client,   \* a client has it on at the host
  lost      \* history: the weapons of the client's pawns that died with it on

engineVars  == <<feature, index, weapon, made, version, owner, pawn, hand>>
featureVars == <<entries, on, client>>
vars == <<engineVars, value, featureVars, lost>>

Original(w, v) == [weapon |-> w, version |-> IF feature \in Versioned THEN v ELSE 0]
Plain(o)       == [base |-> o, changed |-> FALSE]
Own(a)         == Original(weapon[a], version[a])
Live(a)        == index[a] # Free

Init ==
  /\ feature \in Features
  /\ index = [a \in Addresses |-> Free]
  /\ weapon = [a \in Addresses |-> 0]
  /\ made = 0
  /\ version \in {[a \in Addresses |-> v] : v \in Versions}
  /\ owner = [a \in Addresses |-> Nobody]
  /\ value = [a \in Addresses |-> Plain(NoOnes)]
  /\ pawn = Players
  /\ hand = [p \in Players |-> Nobody]
  /\ entries = {}
  /\ on = FALSE
  /\ client = FALSE
  /\ lost = {}

-----------------------------------------------------------------------------
(* weak_object and weapon_backup.                                          *)

(* Mutant of Refers: the address alone tells.                              *)
Refers_Address(e, a) == e.address = a

(* weak_object::get of the entry is the weapon at a.                       *)
Refers(e, a) == e.address = a /\ index[a] = e.index

(* Mutant of OfAmmo: the weapon alone tells.                               *)
OfAmmo_Any(e, a) == TRUE

(* ammo_backup: the entry is of the type that is loaded.                   *)
OfAmmo(e, a) == feature = "damage" => e.version = version[a]

Contains(a) == \E e \in entries : Refers(e, a) /\ OfAmmo(e, a)

(* Mutant of IsNew: only the first weapon is backed up.                    *)
IsNew_First(a) == entries = {}

(* Not in the backup and, of those features that look, not changed yet:    *)
(* lethal damage, bInfiniteAmmo, neither single nor burst.                 *)
IsNew(a) ==
  /\ feature # "infinite" => ~Contains(a)
  /\ feature \in {"damage", "infinite", "fire_mode"} => ~value[a].changed

(* backup_weapon, by the host's own feature or for a client.               *)
BackedUp(a, by) ==
  entries \cup IF IsNew(a)
               THEN {[address |-> a, index |-> index[a], version |-> version[a],
                      original |-> value[a], list |-> IF feature = "infinite" THEN by ELSE "host"]}
               ELSE {}

(* What the feature makes of the field: its original, as in the backup b,  *)
(* scaled, or a value of its own.                                          *)
Changed(a, b) ==
  IF feature \notin Scaled
  THEN {[base |-> NoOnes, changed |-> TRUE]}
  ELSE {[base |-> e.original.base, changed |-> TRUE] : e \in {x \in b : Refers(x, a)}}

(* The originals of the entries es are written to the weapons they are of. *)
PutBack(es) ==
  [a \in Addresses |->
     IF \E e \in es : Refers(e, a) /\ OfAmmo(e, a)
     THEN (CHOOSE e \in es : Refers(e, a) /\ OfAmmo(e, a)).original
     ELSE value[a]]

(* full_auto puts back only what is still automatic.                       *)
MayPutBack(e) == feature = "fire_mode" => value[e.address].changed

-----------------------------------------------------------------------------
(* The host's own toggle.                                                  *)

(* on_enable of spread, recoil and penetration; the others have none.      *)
Enable ==
  /\ ~on
  /\ on' = TRUE
  /\ entries' = IF feature \in {"spread", "recoil", "penetration"} /\ hand["host"] # Nobody
                THEN BackedUp(hand["host"], "host")
                ELSE entries
  /\ UNCHANGED <<engineVars, value, client, lost>>

(* on_tick, or apply of a client's toggle.                                 *)
Apply(p) ==
  LET a == hand[p] IN
  /\ a # Nobody
  /\ entries' = BackedUp(a, p)
  /\ value' \in {[value EXCEPT ![a] = v] : v \in Changed(a, BackedUp(a, p))}
  /\ UNCHANGED <<engineVars, on, client, lost>>

Tick ==
  /\ on
  /\ Apply("host")

(* Mutant of Restored: only the weapon in hand is put back.                *)
Restored_InHand == {e \in entries : e.address = hand["host"]}

(* What on_disable goes through: all there is, of clients too, but for the *)
(* two lists of infinite_ammo.                                             *)
Restored == {e \in entries : e.list = "host"}

Disable ==
  /\ on
  /\ on' = FALSE
  /\ value' = PutBack({e \in Restored : MayPutBack(e)})
  /\ entries' = {e \in entries : e.list # "host"}
  /\ lost' = IF feature = "infinite" THEN lost ELSE {}
  /\ UNCHANGED <<engineVars, client>>

-----------------------------------------------------------------------------
(* A client's toggle, run by the host.                                     *)

ClientOn ==
  /\ feature \in ForClient
  /\ ~client
  /\ client' = TRUE
  /\ UNCHANGED <<engineVars, value, entries, on, lost>>

ClientTick ==
  /\ client
  /\ Apply("client")

OfClient(e) == Live(e.address) /\ Refers(e, e.address) /\ owner[e.address] = "client"

(* remove: the weapons of the client's pawn, if it has one.                *)
ClientOff ==
  LET removed == {e \in entries : OfClient(e) /\ MayPutBack(e) /\ (feature = "infinite" => e.list = "client")}
      dead    == {e \in entries : e.list = "client" /\ ~Refers(e, e.address)} IN
  /\ client
  /\ client' = FALSE
  /\ value' = IF "client" \in pawn THEN PutBack(removed) ELSE value
  /\ entries' = IF feature = "infinite" /\ "client" \in pawn THEN entries \ (removed \cup dead) ELSE entries
  /\ UNCHANGED <<engineVars, on, lost>>

-----------------------------------------------------------------------------
(* The engine and the players.                                             *)

Make(p, a, i) ==
  /\ p \in pawn
  /\ made < MaxWeapons
  /\ ~Live(a)
  /\ \A b \in Addresses : index[b] # i
  /\ MayReusePlace \/ \A e \in entries : e.address # a \/ e.index # i
  /\ made' = made + 1
  /\ index' = [index EXCEPT ![a] = i]
  /\ weapon' = [weapon EXCEPT ![a] = made']
  /\ owner' = [owner EXCEPT ![a] = p]
  /\ value' = [value EXCEPT ![a] = Plain(Original(made', version[a]))]
  /\ UNCHANGED <<feature, version, pawn, hand, featureVars, lost>>

Destroy(a) ==
  /\ Live(a)
  /\ index' = [index EXCEPT ![a] = Free]
  /\ weapon' = [weapon EXCEPT ![a] = 0]
  /\ owner' = [owner EXCEPT ![a] = Nobody]
  /\ value' = [value EXCEPT ![a] = Plain(NoOnes)]
  /\ hand' = [p \in Players |-> IF hand[p] = a THEN Nobody ELSE hand[p]]
  /\ lost' = lost \ {a}
  /\ UNCHANGED <<feature, made, version, pawn, featureVars>>

Equip(p, a) ==
  /\ p \in pawn
  /\ Live(a)
  /\ owner[a] = p
  /\ hand' = [hand EXCEPT ![p] = a]
  /\ UNCHANGED <<feature, index, weapon, made, version, owner, value, pawn, featureVars, lost>>

(* Another magazine is loaded, or another fire mode selected.              *)
Select(a, v) ==
  /\ feature \in Versioned
  /\ Live(a)
  /\ version' = [version EXCEPT ![a] = v]
  /\ value' = [value EXCEPT ![a] = Plain(Original(weapon[a], v))]
  /\ UNCHANGED <<feature, index, weapon, made, owner, pawn, hand, featureVars, lost>>

(* A pawn dies, and its weapons lie about; the player gets another.        *)
Die(p) ==
  /\ p \in pawn
  /\ pawn' = pawn \ {p}
  /\ hand' = [hand EXCEPT ![p] = Nobody]
  /\ owner' = [a \in Addresses |-> IF owner[a] = p THEN Nobody ELSE owner[a]]
  /\ lost' = lost \cup {a \in Addresses : p = "client" /\ client /\ owner[a] = p}
  /\ UNCHANGED <<feature, index, weapon, made, version, value, featureVars>>

Respawn(p) ==
  /\ p \notin pawn
  /\ pawn' = pawn \cup {p}
  /\ UNCHANGED <<feature, index, weapon, made, version, owner, value, hand, featureVars, lost>>

-----------------------------------------------------------------------------
Host == Enable \/ Tick \/ Disable \/ ClientOn \/ ClientTick \/ ClientOff

Engine ==
  \/ \E p \in Players, a \in Addresses, i \in Indices : Make(p, a, i)
  \/ \E a \in Addresses : Destroy(a)
  \/ \E p \in Players, a \in Addresses : Equip(p, a)
  \/ \E a \in Addresses, v \in Versions : Select(a, v)
  \/ \E p \in Players : Die(p) \/ Respawn(p)

Next == Host \/ Engine

Spec == Init /\ [][Next]_vars

-----------------------------------------------------------------------------
Originals == [weapon : 1..MaxWeapons, version : Versions \cup {0}] \cup {NoOnes}
Values    == [base : Originals, changed : BOOLEAN]

(* Each variable has its type; a weapon in hand is there and one's own.    *)
TypeOK ==
  /\ feature \in Features
  /\ index \in [Addresses -> Indices \cup {Free}]
  /\ weapon \in [Addresses -> 0..MaxWeapons]
  /\ made \in 0..MaxWeapons
  /\ version \in [Addresses -> Versions]
  /\ owner \in [Addresses -> Players \cup {Nobody}]
  /\ value \in [Addresses -> Values]
  /\ pawn \subseteq Players
  /\ hand \in [Players -> Addresses \cup {Nobody}]
  /\ \A p \in Players : hand[p] # Nobody => Live(hand[p]) /\ owner[hand[p]] = p
  /\ entries \subseteq [address : Addresses, index : Indices, version : Versions,
                        original : [base : Originals, changed : {FALSE}], list : Players]
  /\ on \in BOOLEAN
  /\ client \in BOOLEAN
  /\ lost \subseteq Addresses

(* What a feature has changed on a weapon that is there, its backup can    *)
(* put back: the weapon's own value is in it, and never a changed one,     *)
(* however weapons were changed, dropped, destroyed and made meanwhile.    *)
OriginalsKept ==
  \A a \in Addresses : Live(a) /\ value[a].changed =>
    \E e \in entries : /\ Refers(e, a) /\ OfAmmo(e, a)
                       /\ e.original.base.weapon = weapon[a]
                       /\ ~e.original.changed

(* "Turning it off puts each one back": a weapon is changed only as long   *)
(* as the host has the feature on, or the client whose pawn owns it.  What *)
(* a client's pawn that dies with the feature on leaves lying about stays  *)
(* until the host's own toggle goes off; with infinite ammo, whose         *)
(* on_disable does not know the client's list, it stays for good.          *)
OffPutsBack ==
  \A a \in Addresses : Live(a) /\ value[a].changed =>
    on \/ (client /\ owner[a] = "client") \/ a \in lost

(* "So a level change never leaves a write going through a stale pointer": *)
(* no weapon gets what belongs to another, or to one that was there before.*)
KeptApart ==
  \A a \in Addresses : Live(a) /\ value[a].base # NoOnes => value[a].base.weapon = weapon[a]

(* "Kept per weapon and loaded ammo type, so switching either while the    *)
(* feature is on still puts each one back" (damage.cpp).                   *)
DamageByAmmo ==
  feature = "damage" =>
    \A a \in Addresses : Live(a) /\ ~value[a].changed => value[a].base = Own(a)

=============================================================================
