------------------------- MODULE WeaponBackupProofs -------------------------
(***************************************************************************)
(* What holds of WeaponBackup for any number of weapons, places, ammo types*)
(* and features: no original is lost or mixed up, and off puts all back,   *)
(* as long as the engine gives no weapon both the address and the index of *)
(* one in a backup.                                                        *)
(***************************************************************************)
EXTENDS WeaponBackup, TLAPS

(* What is in a backup is of the weapon it refers to; with infinite ammo   *)
(* each player's weapons are in that player's list, a client's only while  *)
(* it has it on or lost its pawn with it on.                               *)
EntriesMatch ==
  \A e \in entries, a \in Addresses : Refers(e, a) =>
    /\ e.original.base.weapon = weapon[a]
    /\ feature = "damage" => e.original.base = Original(weapon[a], e.version)
    /\ feature = "infinite" /\ owner[a] = "client" => e.list = "client" /\ client
    /\ feature = "infinite" /\ owner[a] = "host" => e.list = "host"
    /\ feature = "infinite" /\ owner[a] = Nobody /\ e.list = "client" => a \in lost

(* A weapon that is there is one that was made, and an unchanged value is  *)
(* its own.                                                                *)
ValuesMatch ==
  \A a \in Addresses : Live(a) =>
    /\ weapon[a] # 0
    /\ ~value[a].changed => value[a].base.weapon = weapon[a]

(* Whose the lists and the weapons are.                                    *)
Belongs ==
  /\ feature # "infinite" => \A e \in entries : e.list = "host"
  /\ client => feature \in ForClient
  /\ \A a \in Addresses : owner[a] \in pawn \cup {Nobody}

Safe == OriginalsKept /\ OffPutsBack /\ KeptApart /\ DamageByAmmo

IInv == TypeOK /\ EntriesMatch /\ ValuesMatch /\ Belongs /\ Safe

-----------------------------------------------------------------------------
LEMMA FeatureKinds ==
  ASSUME TypeOK
  PROVE  feature \in {"spread", "recoil", "penetration", "damage", "fire_rate", "fire_mode", "infinite"}
BY WeaponBackupAssumption DEF TypeOK, OnlyOwn, ForClient

LEMMA IndexIsNotFree == \A i \in Indices : i # Free
<1>1. \A i \in Nat : i # Free
  BY DEF Free
<1> QED
  BY <1>1, WeaponBackupAssumption

(* What an entry refers to is there.                                       *)
LEMMA ReferredIsLive ==
  ASSUME TypeOK, NEW e \in entries, NEW a \in Addresses, Refers(e, a)
  PROVE  Live(a) /\ e.address = a
BY IndexIsNotFree DEF TypeOK, Refers, Live

LEMMA InitSafe == Init => IInv
<1> SUFFICES ASSUME Init PROVE IInv
  OBVIOUS
<1>1. TypeOK
  <2>1. Plain(NoOnes) \in Values
    BY DEF Plain, Values, Originals
  <2>2. feature \in Features /\ weapon \in [Addresses -> 0..MaxWeapons] /\ made \in 0..MaxWeapons
    BY WeaponBackupAssumption DEF Init
  <2> QED
    BY <2>1, <2>2 DEF Init, TypeOK
<1>2. \A a \in Addresses : ~Live(a)
  BY DEF Init, Live
<1>3. EntriesMatch /\ ValuesMatch /\ Belongs
  BY <1>2 DEF Init, EntriesMatch, ValuesMatch, Belongs
<1>4. Safe
  BY <1>2 DEF Safe, OriginalsKept, OffPutsBack, KeptApart, DamageByAmmo
<1> QED
  BY <1>1, <1>3, <1>4 DEF IInv

(* backup_weapon: what is new is unchanged, and after it the weapon is in. *)
NewEntry(a, p) ==
  [address |-> a, index |-> index[a], version |-> version[a], original |-> value[a],
   list |-> IF feature = "infinite" THEN p ELSE "host"]

LEMMA BackupKeeps ==
  ASSUME IInv, NEW p \in Players, NEW a \in Addresses, hand[p] = a, a # Nobody, p = "client" => client
  PROVE  /\ Live(a) /\ owner[a] = p /\ entries \subseteq BackedUp(a, p)
         /\ BackedUp(a, p) \subseteq [address : Addresses, index : Indices, version : Versions,
                                      original : [base : Originals, changed : {FALSE}], list : Players]
         /\ \E e \in BackedUp(a, p) : Refers(e, a) /\ OfAmmo(e, a)
         /\ feature # "infinite" => \A e \in BackedUp(a, p) : e.list = "host"
         /\ \A e \in BackedUp(a, p), x \in Addresses : Refers(e, x) =>
              /\ e.original.base.weapon = weapon[x]
              /\ feature = "damage" => e.original.base = Original(weapon[x], e.version)
              /\ feature = "infinite" /\ owner[x] = "client" => e.list = "client" /\ client
              /\ feature = "infinite" /\ owner[x] = "host" => e.list = "host"
              /\ feature = "infinite" /\ owner[x] = Nobody /\ e.list = "client" => x \in lost
<1> DEFINE n == NewEntry(a, p)
<1>1. Live(a) /\ owner[a] = p
  BY DEF IInv, TypeOK
<1>2. index[a] \in Indices
  BY <1>1 DEF IInv, TypeOK, Live
<1>3. BackedUp(a, p) = entries \cup IF IsNew(a) THEN {n} ELSE {}
  BY DEF BackedUp, NewEntry
<1>4. IsNew(a) => value[a].changed = FALSE
  <2> SUFFICES ASSUME IsNew(a), value[a].changed
               PROVE  FALSE
    BY DEF IInv, TypeOK, Values
  <2>1. feature # "infinite" /\ ~Contains(a)
    BY DEF IsNew
  <2>2. Contains(a)
    BY <1>1 DEF IInv, Safe, OriginalsKept, Contains
  <2> QED
    BY <2>1, <2>2
<1>5. IsNew(a) => n \in [address : Addresses, index : Indices, version : Versions,
                         original : [base : Originals, changed : {FALSE}], list : Players]
  <2> SUFFICES ASSUME IsNew(a)
               PROVE  n \in [address : Addresses, index : Indices, version : Versions,
                             original : [base : Originals, changed : {FALSE}], list : Players]
    OBVIOUS
  <2>1. value[a] \in [base : Originals, changed : BOOLEAN] /\ version[a] \in Versions
    BY DEF IInv, TypeOK, Values
  <2>2. value[a] \in [base : Originals, changed : {FALSE}]
    BY <1>4, <2>1
  <2>3. (IF feature = "infinite" THEN p ELSE "host") \in Players
    BY DEF Players
  <2> QED
    BY <1>2, <2>1, <2>2, <2>3 DEF NewEntry
<1>6. \E e \in BackedUp(a, p) : Refers(e, a) /\ OfAmmo(e, a)
  <2>1. CASE IsNew(a)
    <3>1. Refers(n, a) /\ OfAmmo(n, a)
      BY DEF NewEntry, Refers, OfAmmo
    <3> QED
      BY <1>3, <2>1, <3>1
  <2>2. CASE ~IsNew(a)
    <3>1. Contains(a) \/ value[a].changed
      BY <2>2 DEF IsNew
    <3>2. \E e \in entries : Refers(e, a) /\ OfAmmo(e, a)
      BY <1>1, <3>1 DEF Contains, IInv, Safe, OriginalsKept
    <3> QED
      BY <1>3, <3>2
  <2> QED
    BY <2>1, <2>2
<1>7. feature # "infinite" => \A e \in BackedUp(a, p) : e.list = "host"
  BY <1>3 DEF NewEntry, IInv, Belongs
<1>8. ASSUME NEW e \in BackedUp(a, p), NEW x \in Addresses, Refers(e, x)
      PROVE  /\ e.original.base.weapon = weapon[x]
             /\ feature = "damage" => e.original.base = Original(weapon[x], e.version)
             /\ feature = "infinite" /\ owner[x] = "client" => e.list = "client" /\ client
             /\ feature = "infinite" /\ owner[x] = "host" => e.list = "host"
             /\ feature = "infinite" /\ owner[x] = Nobody /\ e.list = "client" => x \in lost
  <2>1. CASE e \in entries
    BY <1>8, <2>1 DEF IInv, EntriesMatch
  <2>2. CASE IsNew(a) /\ e = n
    <3>1. x = a
      BY <1>8, <2>2 DEF Refers, NewEntry
    <3>2. e.original = value[a] /\ e.version = version[a]
      BY <2>2 DEF NewEntry
    <3>3. value[a].base.weapon = weapon[a]
      BY <1>1, <1>4, <2>2 DEF IInv, ValuesMatch
    <3>4. feature = "damage" => value[a].base = Original(weapon[a], version[a])
      BY <1>1, <1>4, <2>2 DEF IInv, Safe, DamageByAmmo, Own
    <3>5. /\ feature = "infinite" /\ owner[a] = "client" => e.list = "client" /\ client
          /\ feature = "infinite" /\ owner[a] = "host" => e.list = "host"
          /\ feature = "infinite" /\ owner[a] = Nobody /\ e.list = "client" => a \in lost
      BY <1>1, <2>2 DEF NewEntry, Players, Nobody
    <3> QED
      BY <3>1, <3>2, <3>3, <3>4, <3>5
  <2> QED
    BY <1>3, <2>1, <2>2
<1> QED
  BY <1>1, <1>3, <1>5, <1>6, <1>7, <1>8 DEF IInv, TypeOK

-----------------------------------------------------------------------------
(* Only the features change something: whose a weapon is and whether it is *)
(* there stay, so what an entry refers to does.                            *)
LEMMA EngineStays ==
  ASSUME UNCHANGED engineVars
  PROVE  /\ UNCHANGED <<feature, index, weapon, made, version, owner, pawn, hand>>
         /\ \A e, a : (Refers(e, a)' <=> Refers(e, a)) /\ (OfAmmo(e, a)' <=> OfAmmo(e, a))
         /\ \A a : Live(a)' <=> Live(a)
BY DEF engineVars, Refers, OfAmmo, Live

(* on_tick, or apply for a client.                                         *)
LEMMA ApplyKeeps ==
  ASSUME IInv, NEW p \in Players, Apply(p), p = "client" => client, p = "host" => on
  PROVE  IInv'
<1> DEFINE a == hand[p]
           b == BackedUp(a, p)
<1>1. a \in Addresses /\ a # Nobody
  BY DEF Apply, IInv, TypeOK
<1>2. /\ Live(a) /\ owner[a] = p /\ entries \subseteq b
      /\ b \subseteq [address : Addresses, index : Indices, version : Versions,
                      original : [base : Originals, changed : {FALSE}], list : Players]
      /\ \E e \in b : Refers(e, a) /\ OfAmmo(e, a)
      /\ feature # "infinite" => \A e \in b : e.list = "host"
      /\ \A e \in b, x \in Addresses : Refers(e, x) =>
           /\ e.original.base.weapon = weapon[x]
           /\ feature = "damage" => e.original.base = Original(weapon[x], e.version)
           /\ feature = "infinite" /\ owner[x] = "client" => e.list = "client" /\ client
           /\ feature = "infinite" /\ owner[x] = "host" => e.list = "host"
           /\ feature = "infinite" /\ owner[x] = Nobody /\ e.list = "client" => x \in lost
  BY <1>1, BackupKeeps
<1>3. UNCHANGED <<engineVars, on, client, lost>> /\ entries' = b
  BY DEF Apply
<1>4. /\ UNCHANGED <<feature, index, weapon, made, version, owner, pawn, hand>>
      /\ \A e, x : (Refers(e, x)' <=> Refers(e, x)) /\ (OfAmmo(e, x)' <=> OfAmmo(e, x))
      /\ \A x : Live(x)' <=> Live(x)
  BY <1>3, EngineStays
<1>5. PICK v \in Changed(a, b) : value' = [value EXCEPT ![a] = v]
  BY DEF Apply
<1>6. /\ v \in Values /\ v.changed = TRUE
      /\ v.base = NoOnes \/ v.base.weapon = weapon[a]
  <2>1. CASE feature \notin Scaled
    <3>1. v = [base |-> NoOnes, changed |-> TRUE]
      BY <1>5, <2>1 DEF Changed
    <3> QED
      BY <3>1 DEF Values, Originals
  <2>2. CASE feature \in Scaled
    <3>1. PICK e \in b : Refers(e, a) /\ v = [base |-> e.original.base, changed |-> TRUE]
      BY <1>5, <2>2 DEF Changed
    <3>2. e.original.base \in Originals /\ e.original.base.weapon = weapon[a]
      BY <1>1, <1>2, <3>1
    <3> QED
      BY <3>1, <3>2 DEF Values
  <2> QED
    BY <2>1, <2>2
<1>7. value'[a] = v /\ \A x \in Addresses : x # a => value'[x] = value[x]
  BY <1>1, <1>5 DEF IInv, TypeOK
<1>8. TypeOK'
  <2>1. value' \in [Addresses -> Values]
    BY <1>1, <1>5, <1>6 DEF IInv, TypeOK
  <2>2. (\A q \in Players : hand[q] # Nobody => Live(hand[q]) /\ owner[hand[q]] = q)'
    BY <1>4 DEF IInv, TypeOK, Live
  <2> QED
    BY <1>2, <1>3, <1>4, <2>1, <2>2 DEF IInv, TypeOK
<1>9. EntriesMatch'
  BY <1>2, <1>3, <1>4 DEF EntriesMatch, Original
<1>10. ValuesMatch'
  BY <1>4, <1>6, <1>7 DEF IInv, ValuesMatch
<1>11. Belongs'
  BY <1>2, <1>3, <1>4 DEF IInv, Belongs
<1>12. OriginalsKept'
  <2> SUFFICES ASSUME NEW x \in Addresses, Live(x), value'[x].changed
               PROVE  \E e \in b : /\ Refers(e, x) /\ OfAmmo(e, x)
                                  /\ e.original.base.weapon = weapon[x] /\ ~e.original.changed
    BY <1>3, <1>4 DEF OriginalsKept
  <2>1. CASE x = a
    BY <1>1, <1>2, <2>1
  <2>2. CASE x # a
    BY <1>2, <1>7, <2>2 DEF IInv, Safe, OriginalsKept
  <2> QED
    BY <2>1, <2>2
<1>13. OffPutsBack'
  <2> SUFFICES ASSUME NEW x \in Addresses, Live(x), value'[x].changed
               PROVE  on \/ (client /\ owner[x] = "client") \/ x \in lost
    BY <1>3, <1>4 DEF OffPutsBack
  <2>1. CASE x = a
    BY <1>2, <2>1 DEF Players, IInv, Belongs
  <2>2. CASE x # a
    BY <1>7, <2>2 DEF IInv, Safe, OffPutsBack
  <2> QED
    BY <2>1, <2>2
<1>14. KeptApart'
  BY <1>4, <1>6, <1>7 DEF IInv, Safe, KeptApart
<1>15. DamageByAmmo'
  BY <1>4, <1>6, <1>7 DEF IInv, Safe, DamageByAmmo, Own, Original
<1> QED
  BY <1>8, <1>9, <1>10, <1>11, <1>12, <1>13, <1>14, <1>15 DEF IInv, Safe

(* What is put back is unchanged, and the weapon's own.                    *)
LEMMA PutBackKeeps ==
  ASSUME IInv, NEW es \in SUBSET entries, NEW a \in Addresses
  PROVE  /\ PutBack(es)[a] \in Values
         /\ PutBack(es)[a].changed =>
              /\ PutBack(es)[a] = value[a]
              /\ \A e \in es : ~(Refers(e, a) /\ OfAmmo(e, a))
         /\ PutBack(es)[a] # value[a] =>
              /\ Live(a) /\ PutBack(es)[a].base.weapon = weapon[a]
              /\ feature = "damage" => PutBack(es)[a].base = Own(a)
<1>1. CASE \E e \in es : Refers(e, a) /\ OfAmmo(e, a)
  <2> DEFINE e == CHOOSE e \in es : Refers(e, a) /\ OfAmmo(e, a)
  <2>1. e \in es /\ Refers(e, a) /\ OfAmmo(e, a)
    BY <1>1
  <2>2. PutBack(es)[a] = e.original
    BY <1>1 DEF PutBack
  <2> HIDE DEF e
  <2>3. e \in entries /\ Live(a)
    BY <2>1, ReferredIsLive DEF IInv
  <2>4. e.original \in [base : Originals, changed : {FALSE}]
    BY <2>3 DEF IInv, TypeOK
  <2>5. e.original \in Values /\ ~e.original.changed
    BY <2>4 DEF Values
  <2>6. e.original.base.weapon = weapon[a]
    BY <2>1, <2>3 DEF IInv, EntriesMatch
  <2>7. feature = "damage" => e.original.base = Own(a)
    BY <2>1, <2>3 DEF IInv, EntriesMatch, OfAmmo, Own
  <2> QED
    BY <2>2, <2>3, <2>5, <2>6, <2>7
<1>2. CASE ~\E e \in es : Refers(e, a) /\ OfAmmo(e, a)
  BY <1>2 DEF PutBack, IInv, TypeOK
<1> QED
  BY <1>1, <1>2

(* Originals are put back, and entries that are of no use go.              *)
LEMMA PuttingBackKeeps ==
  ASSUME IInv, NEW es \in SUBSET entries, UNCHANGED engineVars,
         value' = PutBack(es), entries' \subseteq entries,
         on' \in BOOLEAN, client' \in BOOLEAN, client' => client,
         lost' \in SUBSET lost, feature = "infinite" => lost' = lost,
         \A e \in entries \ entries', a \in Addresses :
           Refers(e, a) /\ OfAmmo(e, a) => ~PutBack(es)[a].changed,
         \A e \in entries', a \in Addresses :
           feature = "infinite" /\ Refers(e, a) /\ owner[a] = "client" => client',
         \A a \in Addresses : Live(a) /\ PutBack(es)[a].changed =>
           on' \/ (client' /\ owner[a] = "client") \/ a \in lost'
  PROVE  IInv'
<1>1. /\ UNCHANGED <<feature, index, weapon, made, version, owner, pawn, hand>>
      /\ \A e, x : (Refers(e, x)' <=> Refers(e, x)) /\ (OfAmmo(e, x)' <=> OfAmmo(e, x))
      /\ \A x : Live(x)' <=> Live(x)
  BY EngineStays
<1>2. \A a \in Addresses :
        /\ value'[a] \in Values
        /\ value'[a].changed => value'[a] = value[a]
        /\ value'[a] # value[a] =>
             /\ Live(a) /\ value'[a].base.weapon = weapon[a]
             /\ feature = "damage" => value'[a].base = Own(a)
  BY PutBackKeeps
<1>3. TypeOK'
  <2>1. value' \in [Addresses -> Values]
    <3>1. value' = [a \in Addresses |-> value'[a]]
      BY DEF PutBack
    <3> QED
      BY <1>2, <3>1
  <2>2. (\A q \in Players : hand[q] # Nobody => Live(hand[q]) /\ owner[hand[q]] = q)'
    BY <1>1 DEF IInv, TypeOK, Live
  <2> QED
    BY <1>1, <2>1, <2>2 DEF IInv, TypeOK
<1>4. EntriesMatch'
  BY <1>1 DEF IInv, EntriesMatch, Original
<1>5. ValuesMatch'
  BY <1>1, <1>2 DEF IInv, ValuesMatch
<1>6. Belongs'
  BY <1>1 DEF IInv, Belongs
<1>7. OriginalsKept'
  <2> SUFFICES ASSUME NEW a \in Addresses, Live(a), value'[a].changed
               PROVE  \E e \in entries' : /\ Refers(e, a) /\ OfAmmo(e, a)
                                         /\ e.original.base.weapon = weapon[a] /\ ~e.original.changed
    BY <1>1 DEF OriginalsKept
  <2>1. value[a].changed
    BY <1>2
  <2>2. PICK e \in entries : /\ Refers(e, a) /\ OfAmmo(e, a)
                              /\ e.original.base.weapon = weapon[a] /\ ~e.original.changed
    BY <2>1 DEF IInv, Safe, OriginalsKept
  <2>3. e \in entries'
    BY <2>2
  <2> QED
    BY <2>2, <2>3
<1>8. OffPutsBack'
  BY <1>1 DEF OffPutsBack
<1>9. KeptApart'
  BY <1>1, <1>2 DEF IInv, Safe, KeptApart
<1>10. DamageByAmmo'
  BY <1>1, <1>2 DEF IInv, Safe, DamageByAmmo, Own, Original
<1> QED
  BY <1>3, <1>4, <1>5, <1>6, <1>7, <1>8, <1>9, <1>10 DEF IInv, Safe

LEMMA DisableKeeps ==
  ASSUME IInv, Disable
  PROVE  IInv'
<1> DEFINE es == {e \in Restored : MayPutBack(e)}
<1>1. /\ es \in SUBSET entries /\ value' = PutBack(es) /\ entries' = {e \in entries : e.list # "host"}
      /\ on' = FALSE /\ UNCHANGED engineVars /\ client' = client
      /\ lost' \in SUBSET lost /\ (feature = "infinite" => lost' = lost)
  BY DEF Disable, Restored
<1>2. ASSUME NEW e \in entries \ entries', NEW a \in Addresses, Refers(e, a), OfAmmo(e, a),
             PutBack(es)[a].changed
      PROVE  FALSE
  <2>1. PutBack(es)[a] = value[a] /\ e \notin es
    BY <1>1, <1>2, PutBackKeeps
  <2>2. e \in Restored
    BY <1>1 DEF Restored
  <2>3. e.address = a
    BY <1>2 DEF Refers
  <2>4. MayPutBack(e)
    BY <1>2, <2>1, <2>3 DEF MayPutBack
  <2> QED
    BY <2>1, <2>2, <2>4
<1>3. ASSUME NEW a \in Addresses, Live(a), PutBack(es)[a].changed
      PROVE  (client /\ owner[a] = "client") \/ a \in lost'
  <2>1. value[a].changed
    BY <1>1, <1>3, PutBackKeeps
  <2>2. PICK e \in entries : Refers(e, a) /\ OfAmmo(e, a)
    BY <1>3, <2>1 DEF IInv, Safe, OriginalsKept
  <2>3. e.list # "host"
    BY <1>1, <1>2, <1>3, <2>2
  <2>4. feature = "infinite"
    BY <2>3 DEF IInv, Belongs
  <2>5. e.list = "client" /\ owner[a] \in Players \cup {Nobody}
    BY <2>2, <2>3 DEF IInv, TypeOK, Players
  <2> QED
    BY <1>1, <2>2, <2>4, <2>5 DEF IInv, EntriesMatch, Players
<1>4. \A e \in entries', a \in Addresses :
        feature = "infinite" /\ Refers(e, a) /\ owner[a] = "client" => client'
  BY <1>1 DEF IInv, EntriesMatch
<1> HIDE DEF es
<1> QED
  BY <1>1, <1>2, <1>3, <1>4, PuttingBackKeeps DEF IInv, TypeOK

LEMMA ClientOffKeeps ==
  ASSUME IInv, ClientOff
  PROVE  IInv'
<1> DEFINE removed == {e \in entries : OfClient(e) /\ MayPutBack(e)
                                       /\ (feature = "infinite" => e.list = "client")}
           dead == {e \in entries : e.list = "client" /\ ~Refers(e, e.address)}
           es == IF "client" \in pawn THEN removed ELSE {}
<1>1. /\ client /\ client' = FALSE /\ UNCHANGED engineVars /\ on' = on /\ lost' = lost
      /\ es \in SUBSET entries /\ feature \in ForClient
  BY DEF ClientOff, IInv, Belongs
<1>2. value' = PutBack(es)
  <2>1. CASE "client" \in pawn
    BY <2>1 DEF ClientOff
  <2>2. CASE "client" \notin pawn
    <3>1. value' = value /\ value = [a \in Addresses |-> value[a]]
      BY <2>2 DEF ClientOff, IInv, TypeOK
    <3>2. PutBack({}) = [a \in Addresses |-> value[a]]
      BY DEF PutBack
    <3> QED
      BY <2>2, <3>1, <3>2
  <2> QED
    BY <2>1, <2>2
<1>3. entries' = IF feature = "infinite" /\ "client" \in pawn THEN entries \ (removed \cup dead) ELSE entries
  BY DEF ClientOff
<1>4. \A a \in Addresses : owner[a] = "client" => "client" \in pawn
  BY DEF IInv, Belongs, Nobody
<1>5. ASSUME NEW e \in entries, NEW a \in Addresses, Refers(e, a), owner[a] = "client",
             feature = "infinite" => e.list = "client",
             feature = "fire_mode" => value[a].changed
      PROVE  e \in removed
  <2>1. e.address = a /\ Live(a)
    BY <1>5, ReferredIsLive DEF IInv
  <2>2. OfClient(e) /\ MayPutBack(e)
    BY <1>5, <2>1 DEF OfClient, MayPutBack
  <2> QED
    BY <1>5, <2>2
<1>6. ASSUME NEW e \in entries \ entries', NEW a \in Addresses, Refers(e, a), OfAmmo(e, a)
      PROVE  ~PutBack(es)[a].changed
  <2>1. e.address = a
    BY <1>6 DEF Refers
  <2>2. e \in es
    BY <1>3, <1>6, <2>1
  <2> QED
    BY <1>1, <1>6, <2>2, PutBackKeeps
<1>7. ASSUME NEW e \in entries', NEW a \in Addresses,
             feature = "infinite", Refers(e, a), owner[a] = "client"
      PROVE  client'
  <2>1. e \in entries /\ e \notin removed
    BY <1>3, <1>4, <1>7
  <2>2. e.list = "client"
    BY <1>7, <2>1 DEF IInv, EntriesMatch
  <2> QED
    BY <1>5, <1>7, <2>1, <2>2
<1>8. ASSUME NEW a \in Addresses, Live(a), PutBack(es)[a].changed, owner[a] = "client"
      PROVE  FALSE
  <2>1. value[a].changed /\ \A e \in es : ~(Refers(e, a) /\ OfAmmo(e, a))
    BY <1>1, <1>8, PutBackKeeps
  <2>2. PICK e \in entries : Refers(e, a) /\ OfAmmo(e, a)
    BY <1>8, <2>1 DEF IInv, Safe, OriginalsKept
  <2>3. feature = "infinite" => e.list = "client"
    BY <1>8, <2>2 DEF IInv, EntriesMatch
  <2>4. e \in removed
    BY <1>5, <1>8, <2>1, <2>2, <2>3
  <2> QED
    BY <1>4, <1>8, <2>1, <2>2, <2>4
<1>9. /\ entries' \subseteq entries
      /\ \A a \in Addresses : Live(a) /\ PutBack(es)[a].changed =>
           on \/ (client /\ owner[a] = "client") \/ a \in lost
  BY <1>1, <1>3, PutBackKeeps DEF IInv, Safe, OffPutsBack
<1> HIDE DEF es, removed, dead
<1> QED
  BY <1>1, <1>2, <1>6, <1>7, <1>8, <1>9, PuttingBackKeeps DEF IInv, TypeOK

(* on_enable backs up the weapon in hand.                                  *)
LEMMA EnableKeeps ==
  ASSUME IInv, Enable
  PROVE  IInv'
<1>1. /\ UNCHANGED <<engineVars, value, client, lost>> /\ on' = TRUE
      /\ entries \subseteq entries'
      /\ entries' \subseteq [address : Addresses, index : Indices, version : Versions,
                             original : [base : Originals, changed : {FALSE}], list : Players]
      /\ feature # "infinite" => \A e \in entries' : e.list = "host"
      /\ \A e \in entries', x \in Addresses : Refers(e, x) =>
           /\ e.original.base.weapon = weapon[x]
           /\ feature = "damage" => e.original.base = Original(weapon[x], e.version)
           /\ feature = "infinite" /\ owner[x] = "client" => e.list = "client" /\ client
           /\ feature = "infinite" /\ owner[x] = "host" => e.list = "host"
           /\ feature = "infinite" /\ owner[x] = Nobody /\ e.list = "client" => x \in lost
  <2>1. UNCHANGED <<engineVars, value, client, lost>> /\ on' = TRUE
    BY DEF Enable
  <2>2. CASE entries' = entries
    BY <2>1, <2>2 DEF IInv, TypeOK, Belongs, EntriesMatch
  <2>3. CASE hand["host"] # Nobody /\ entries' = BackedUp(hand["host"], "host")
    <3> DEFINE a == hand["host"]
               b == BackedUp(a, "host")
    <3>1. a \in Addresses /\ a # Nobody /\ "host" \in Players /\ "host" # "client"
      BY <2>3 DEF IInv, TypeOK, Players
    <3>2. /\ entries \subseteq b
          /\ b \subseteq [address : Addresses, index : Indices, version : Versions,
                          original : [base : Originals, changed : {FALSE}], list : Players]
          /\ feature # "infinite" => \A e \in b : e.list = "host"
          /\ \A e \in b, x \in Addresses : Refers(e, x) =>
               /\ e.original.base.weapon = weapon[x]
               /\ feature = "damage" => e.original.base = Original(weapon[x], e.version)
               /\ feature = "infinite" /\ owner[x] = "client" => e.list = "client" /\ client
               /\ feature = "infinite" /\ owner[x] = "host" => e.list = "host"
               /\ feature = "infinite" /\ owner[x] = Nobody /\ e.list = "client" => x \in lost
      BY <3>1, BackupKeeps
    <3>3. entries' = b
      BY <2>3
    <3> HIDE DEF a, b
    <3> QED
      BY <2>1, <3>2, <3>3
  <2> QED
    BY <2>1, <2>2, <2>3 DEF Enable
<1>2. /\ UNCHANGED <<feature, index, weapon, made, version, owner, pawn, hand>>
      /\ \A e, x : (Refers(e, x)' <=> Refers(e, x)) /\ (OfAmmo(e, x)' <=> OfAmmo(e, x))
      /\ \A x : Live(x)' <=> Live(x)
  BY <1>1, EngineStays
<1>3. TypeOK'
  <2>1. (\A q \in Players : hand[q] # Nobody => Live(hand[q]) /\ owner[hand[q]] = q)'
    BY <1>2 DEF IInv, TypeOK, Live
  <2> QED
    BY <1>1, <1>2, <2>1 DEF IInv, TypeOK
<1>4. EntriesMatch'
  BY <1>1, <1>2 DEF EntriesMatch, Original
<1>5. ValuesMatch' /\ Belongs'
  BY <1>1, <1>2 DEF IInv, ValuesMatch, Belongs
<1>6. OriginalsKept'
  BY <1>1, <1>2 DEF IInv, Safe, OriginalsKept
<1>7. OffPutsBack' /\ KeptApart'
  BY <1>1, <1>2 DEF IInv, Safe, OffPutsBack, KeptApart
<1>8. DamageByAmmo'
  BY <1>1, <1>2 DEF IInv, Safe, DamageByAmmo, Own, Original
<1> QED
  BY <1>3, <1>4, <1>5, <1>6, <1>7, <1>8 DEF IInv, Safe

-----------------------------------------------------------------------------
(* The engine and the players.                                             *)
LEMMA MakeKeeps ==
  ASSUME ~MayReusePlace, IInv, NEW p \in Players, NEW a \in Addresses, NEW i \in Indices, Make(p, a, i)
  PROVE  IInv'
<1>1. /\ p \in pawn /\ made' = made + 1 /\ made < MaxWeapons
      /\ ~Live(a) /\ \A e \in entries : e.address # a \/ e.index # i
      /\ UNCHANGED <<feature, version, pawn, hand, entries, on, client, lost>>
  BY DEF Make, featureVars
<1>2. /\ index'[a] = i /\ weapon'[a] = made + 1 /\ owner'[a] = p
      /\ value'[a] = Plain(Original(made + 1, version[a]))
      /\ \A x \in Addresses : x # a =>
           index'[x] = index[x] /\ weapon'[x] = weapon[x] /\ owner'[x] = owner[x] /\ value'[x] = value[x]
  BY DEF Make, IInv, TypeOK
<1>3. made + 1 \in 1..MaxWeapons
  BY <1>1, WeaponBackupAssumption DEF IInv, TypeOK
<1>4. Original(made + 1, version[a]) \in Originals
  BY <1>3 DEF Original, Originals, IInv, TypeOK
<1>5. TypeOK'
  <2>1. weapon' \in [Addresses -> 0..MaxWeapons] /\ made' \in 0..MaxWeapons
    BY <1>1, <1>3 DEF Make, IInv, TypeOK
  <2>2. Plain(Original(made + 1, version[a])) \in Values
    BY <1>4 DEF Plain, Values
  <2>3. value' \in [Addresses -> Values]
    BY <1>1, <2>2 DEF Make, IInv, TypeOK
  <2>4. index' \in [Addresses -> Indices \cup {Free}] /\ owner' \in [Addresses -> Players \cup {Nobody}]
    BY DEF Make, IInv, TypeOK
  <2>5. (\A q \in Players : hand[q] # Nobody => Live(hand[q]) /\ owner[hand[q]] = q)'
    BY <1>1, <1>2 DEF IInv, TypeOK, Live
  <2> QED
    BY <1>1, <2>1, <2>3, <2>4, <2>5 DEF IInv, TypeOK
<1>6. \A e \in entries, x \in Addresses :
        /\ Refers(e, x)' => x # a /\ Refers(e, x)
        /\ x # a => (Refers(e, x)' <=> Refers(e, x)) /\ (OfAmmo(e, x)' <=> OfAmmo(e, x))
  BY <1>1, <1>2 DEF Refers, OfAmmo
<1>7. \A x \in Addresses : x # a => (Live(x)' <=> Live(x))
  BY <1>2 DEF Live
<1>8. EntriesMatch'
  BY <1>1, <1>2, <1>6 DEF IInv, EntriesMatch, Original
<1>9. /\ value'[a].changed = FALSE /\ value'[a].base.weapon = made + 1
      /\ value'[a].base = Original(weapon'[a], version[a]) /\ made + 1 # 0
  BY <1>2, <1>3 DEF Plain, Original
<1>10. ValuesMatch'
  BY <1>2, <1>7, <1>9 DEF IInv, ValuesMatch
<1>11. Belongs'
  BY <1>1, <1>2 DEF IInv, Belongs
<1>12. OriginalsKept'
  BY <1>1, <1>2, <1>6, <1>7, <1>9 DEF IInv, Safe, OriginalsKept
<1>13. OffPutsBack'
  BY <1>1, <1>2, <1>7, <1>9 DEF IInv, Safe, OffPutsBack
<1>14. KeptApart'
  BY <1>2, <1>7, <1>9 DEF IInv, Safe, KeptApart
<1>15. DamageByAmmo'
  BY <1>1, <1>2, <1>7, <1>9 DEF IInv, Safe, DamageByAmmo, Own, Original
<1> QED
  BY <1>5, <1>8, <1>10, <1>11, <1>12, <1>13, <1>14, <1>15 DEF IInv, Safe

LEMMA DestroyKeeps ==
  ASSUME IInv, NEW a \in Addresses, Destroy(a)
  PROVE  IInv'
<1>1. UNCHANGED <<feature, made, version, pawn, entries, on, client>> /\ lost' = lost \ {a}
  BY DEF Destroy, featureVars
<1>2. /\ index'[a] = Free /\ value'[a] = Plain(NoOnes) /\ owner'[a] = Nobody
      /\ \A x \in Addresses : x # a =>
           index'[x] = index[x] /\ weapon'[x] = weapon[x] /\ owner'[x] = owner[x] /\ value'[x] = value[x]
  BY DEF Destroy, IInv, TypeOK
<1>3. TypeOK'
  <2>1. weapon' \in [Addresses -> 0..MaxWeapons] /\ index' \in [Addresses -> Indices \cup {Free}]
    BY WeaponBackupAssumption DEF Destroy, IInv, TypeOK
  <2>2. Plain(NoOnes) \in Values
    BY DEF Plain, Values, Originals
  <2>3. value' \in [Addresses -> Values] /\ owner' \in [Addresses -> Players \cup {Nobody}]
    BY <2>2 DEF Destroy, IInv, TypeOK
  <2>4. hand' \in [Players -> Addresses \cup {Nobody}]
    BY DEF Destroy, IInv, TypeOK
  <2>5. (\A q \in Players : hand[q] # Nobody => Live(hand[q]) /\ owner[hand[q]] = q)'
    <3> SUFFICES ASSUME NEW q \in Players, hand'[q] # Nobody
                 PROVE  Live(hand[q])' /\ owner'[hand'[q]] = q
      OBVIOUS
    <3>1. hand'[q] = hand[q] /\ hand[q] # a /\ hand[q] \in Addresses
      BY DEF Destroy, IInv, TypeOK
    <3> QED
      BY <1>2, <3>1 DEF IInv, TypeOK, Live
  <2> QED
    BY <1>1, <2>1, <2>3, <2>4, <2>5 DEF IInv, TypeOK
<1>4. \A e \in entries, x \in Addresses :
        /\ Refers(e, x)' => x # a /\ Refers(e, x)
        /\ x # a => (Refers(e, x)' <=> Refers(e, x)) /\ (OfAmmo(e, x)' <=> OfAmmo(e, x))
  BY <1>1, <1>2, IndexIsNotFree DEF Refers, OfAmmo, IInv, TypeOK
<1>5. ~Live(a)' /\ \A x \in Addresses : x # a => (Live(x)' <=> Live(x))
  BY <1>2 DEF Live
<1>6. EntriesMatch'
  BY <1>1, <1>2, <1>4 DEF IInv, EntriesMatch, Original
<1>7. ValuesMatch' /\ Belongs'
  BY <1>1, <1>2, <1>5 DEF IInv, ValuesMatch, Belongs
<1>8. OriginalsKept'
  BY <1>1, <1>2, <1>4, <1>5 DEF IInv, Safe, OriginalsKept
<1>9. OffPutsBack' /\ KeptApart'
  BY <1>1, <1>2, <1>5 DEF IInv, Safe, OffPutsBack, KeptApart
<1>10. DamageByAmmo'
  BY <1>1, <1>2, <1>5 DEF IInv, Safe, DamageByAmmo, Own, Original
<1> QED
  BY <1>3, <1>6, <1>7, <1>8, <1>9, <1>10 DEF IInv, Safe

LEMMA SelectKeeps ==
  ASSUME IInv, NEW a \in Addresses, NEW v \in Versions, Select(a, v)
  PROVE  IInv'
<1>1. Live(a) /\ UNCHANGED <<feature, index, weapon, made, owner, pawn, hand, entries, on, client, lost>>
  BY DEF Select, featureVars
<1>2. /\ version'[a] = v /\ value'[a] = Plain(Original(weapon[a], v))
      /\ \A x \in Addresses : x # a => version'[x] = version[x] /\ value'[x] = value[x]
  BY DEF Select, IInv, TypeOK
<1>3. weapon[a] \in 1..MaxWeapons
  BY <1>1, WeaponBackupAssumption DEF IInv, TypeOK, ValuesMatch
<1>4. TypeOK'
  <2>1. Plain(Original(weapon[a], v)) \in Values
    BY <1>3 DEF Plain, Original, Originals, Values
  <2>2. value' \in [Addresses -> Values] /\ version' \in [Addresses -> Versions]
    BY <2>1 DEF Select, IInv, TypeOK
  <2>3. (\A q \in Players : hand[q] # Nobody => Live(hand[q]) /\ owner[hand[q]] = q)'
    BY <1>1 DEF IInv, TypeOK, Live
  <2> QED
    BY <1>1, <2>2, <2>3 DEF IInv, TypeOK
<1>5. /\ \A e, x : Refers(e, x)' <=> Refers(e, x)
      /\ \A e, x : x \in Addresses /\ x # a => (OfAmmo(e, x)' <=> OfAmmo(e, x))
      /\ \A x : Live(x)' <=> Live(x)
  BY <1>1, <1>2 DEF Refers, OfAmmo, Live
<1>6. /\ value'[a].changed = FALSE /\ value'[a].base.weapon = weapon[a]
      /\ value'[a].base = Original(weapon[a], version'[a])
  BY <1>2 DEF Plain, Original
<1>7. EntriesMatch' /\ Belongs'
  BY <1>1, <1>5 DEF IInv, EntriesMatch, Belongs, Original
<1>8. ValuesMatch' /\ OffPutsBack' /\ KeptApart'
  BY <1>1, <1>2, <1>5, <1>6 DEF IInv, Safe, ValuesMatch, OffPutsBack, KeptApart
<1>9. OriginalsKept'
  BY <1>1, <1>2, <1>5, <1>6 DEF IInv, Safe, OriginalsKept
<1>10. DamageByAmmo'
  BY <1>1, <1>2, <1>5, <1>6 DEF IInv, Safe, DamageByAmmo, Own, Original
<1> QED
  BY <1>4, <1>7, <1>8, <1>9, <1>10 DEF IInv, Safe

(* Nothing the features see of a weapon changes but whose it is, and that  *)
(* only from its owner to nobody; it is lost if the client had it on.      *)
LEMMA OthersKeep ==
  ASSUME IInv, TypeOK', Belongs',
         UNCHANGED <<feature, index, weapon, version, value, entries, on>>, client => client',
         lost \subseteq lost',
         \A a \in Addresses :
           \/ owner'[a] = owner[a]
           \/ owner'[a] = Nobody /\ (client /\ owner[a] = "client" => a \in lost')
  PROVE  IInv'
<1>1. /\ \A e, x : (Refers(e, x)' <=> Refers(e, x)) /\ (OfAmmo(e, x)' <=> OfAmmo(e, x))
      /\ \A x : Live(x)' <=> Live(x)
  BY DEF Refers, OfAmmo, Live
<1>2. \A a \in Addresses :
        (owner'[a] = "client" => owner[a] = "client") /\ (owner'[a] = "host" => owner[a] = "host")
  BY DEF Nobody
<1>3. EntriesMatch'
  <2>1. ASSUME NEW e \in entries, NEW a \in Addresses, Refers(e, a), feature = "infinite",
               owner'[a] = Nobody, e.list = "client"
        PROVE  a \in lost'
    <3>1. owner[a] \in {"host", "client", Nobody}
      BY DEF IInv, TypeOK, Players
    <3> QED
      BY <2>1, <3>1 DEF IInv, EntriesMatch
  <2> QED
    BY <1>1, <1>2, <2>1 DEF IInv, EntriesMatch, Original
<1>4. ValuesMatch' /\ OriginalsKept' /\ KeptApart'
  BY <1>1 DEF IInv, Safe, ValuesMatch, OriginalsKept, KeptApart
<1>5. OffPutsBack'
  BY <1>1, <1>2 DEF IInv, Safe, OffPutsBack
<1>6. DamageByAmmo'
  BY <1>1 DEF IInv, Safe, DamageByAmmo, Own, Original
<1> QED
  BY <1>3, <1>4, <1>5, <1>6 DEF IInv, Safe

LEMMA PlayersKeep ==
  ASSUME IInv,
         \/ ClientOn
         \/ \E p \in Players, a \in Addresses : Equip(p, a)
         \/ \E p \in Players : Die(p) \/ Respawn(p)
  PROVE  IInv'
<1>1. CASE ClientOn
  <2>1. TypeOK' /\ Belongs'
    BY <1>1 DEF ClientOn, engineVars, IInv, TypeOK, Belongs, Live
  <2> QED
    BY <1>1, <2>1, OthersKeep DEF ClientOn, engineVars
<1>2. ASSUME NEW p \in Players, NEW a \in Addresses, Equip(p, a)
      PROVE  IInv'
  <2>1. /\ UNCHANGED <<feature, index, weapon, made, version, owner, value, pawn, entries, on, client, lost>>
        /\ Live(a) /\ owner[a] = p /\ hand' = [hand EXCEPT ![p] = a]
    BY <1>2 DEF Equip, featureVars
  <2>2. TypeOK'
    <3>1. (\A q \in Players : hand[q] # Nobody => Live(hand[q]) /\ owner[hand[q]] = q)'
      BY <2>1 DEF IInv, TypeOK, Live
    <3> QED
      BY <2>1, <3>1 DEF IInv, TypeOK
  <2>3. Belongs'
    BY <2>1 DEF IInv, Belongs
  <2> QED
    BY <2>1, <2>2, <2>3, OthersKeep
<1>3. ASSUME NEW p \in Players, Die(p)
      PROVE  IInv'
  <2>1. /\ UNCHANGED <<feature, index, weapon, made, version, value, entries, on, client>>
        /\ pawn' = pawn \ {p} /\ hand' = [hand EXCEPT ![p] = Nobody]
        /\ owner' = [a \in Addresses |-> IF owner[a] = p THEN Nobody ELSE owner[a]]
    BY <1>3 DEF Die, featureVars
  <2>2. TypeOK'
    <3>1. (\A q \in Players : hand[q] # Nobody => Live(hand[q]) /\ owner[hand[q]] = q)'
      BY <2>1 DEF IInv, TypeOK, Live
    <3>2. owner' \in [Addresses -> Players \cup {Nobody}] /\ hand' \in [Players -> Addresses \cup {Nobody}]
      BY <2>1 DEF IInv, TypeOK
    <3>3. lost' \subseteq Addresses
      BY <1>3 DEF Die, IInv, TypeOK
    <3> QED
      BY <2>1, <3>1, <3>2, <3>3 DEF IInv, TypeOK
  <2>3. Belongs'
    BY <2>1 DEF IInv, Belongs
  <2>4. \A a \in Addresses :
          \/ owner'[a] = owner[a]
          \/ owner'[a] = Nobody /\ (client /\ owner[a] = "client" => a \in lost')
    BY <1>3, <2>1 DEF Die
  <2>5. lost \subseteq lost'
    BY <1>3 DEF Die
  <2> QED
    BY <2>1, <2>2, <2>3, <2>4, <2>5, OthersKeep
<1>4. ASSUME NEW p \in Players, Respawn(p)
      PROVE  IInv'
  <2>1. /\ UNCHANGED <<feature, index, weapon, made, version, owner, value, hand, entries, on, client, lost>>
        /\ pawn' = pawn \cup {p}
    BY <1>4 DEF Respawn, featureVars
  <2>2. TypeOK' /\ Belongs'
    BY <2>1 DEF IInv, TypeOK, Belongs, Live
  <2> QED
    BY <2>1, <2>2, OthersKeep
<1> QED
  BY <1>1, <1>2, <1>3, <1>4

LEMMA StepSafe ==
  ASSUME ~MayReusePlace, IInv, [Next]_vars
  PROVE  IInv'
<1>1. CASE Host
  <2>1. Tick => IInv'
    BY ApplyKeeps DEF Tick, Players
  <2>2. ClientTick => IInv'
    BY ApplyKeeps DEF ClientTick, Players
  <2> QED
    BY <1>1, <2>1, <2>2, EnableKeeps, DisableKeeps, PlayersKeep, ClientOffKeeps DEF Host
<1>2. CASE Engine
  BY <1>2, MakeKeeps, DestroyKeeps, SelectKeeps, PlayersKeep DEF Engine
<1>3. CASE UNCHANGED vars
  <2>1. TypeOK' /\ Belongs'
    BY <1>3 DEF vars, engineVars, featureVars, IInv, TypeOK, Belongs, Live
  <2> QED
    BY <1>3, <2>1, OthersKeep DEF vars, engineVars, featureVars
<1> QED
  BY <1>1, <1>2, <1>3 DEF Next

(* Every state of a run is of its type, and its backups match its weapons. *)
THEOREM BackupsMatch ==
  ASSUME ~MayReusePlace
  PROVE  Spec => []IInv
<1>1. IInv /\ [Next]_vars => IInv'
  BY StepSafe
<1> QED
  BY InitSafe, <1>1, PTL DEF Spec

(* A changed weapon's own value is in the backup, however weapons come and *)
(* go (backup_weapon looks at the entry and at the value).                 *)
THEOREM NoOriginalIsLost ==
  ASSUME ~MayReusePlace
  PROVE  Spec => []OriginalsKept
<1>1. IInv => OriginalsKept
  BY DEF IInv, Safe
<1> QED
  BY BackupsMatch, <1>1, PTL

(* A weapon is changed only while the host has the feature on, or the      *)
(* client whose pawn owns it, but for what a client's pawn that died with  *)
(* it on left lying about (on_disable, remove).                            *)
THEOREM OffRestores ==
  ASSUME ~MayReusePlace
  PROVE  Spec => []OffPutsBack
<1>1. IInv => OffPutsBack
  BY DEF IInv, Safe
<1> QED
  BY BackupsMatch, <1>1, PTL

(* No weapon gets what belongs to another (weak_object).                   *)
THEOREM NoneIsMixedUp ==
  ASSUME ~MayReusePlace
  PROVE  Spec => []KeptApart
<1>1. IInv => KeptApart
  BY DEF IInv, Safe
<1> QED
  BY BackupsMatch, <1>1, PTL

(* Damage that is not lethal is that of the ammo loaded (ammo_backup).     *)
THEOREM DamageIsOfAmmo ==
  ASSUME ~MayReusePlace
  PROVE  Spec => []DamageByAmmo
<1>1. IInv => DamageByAmmo
  BY DEF IInv, Safe
<1> QED
  BY BackupsMatch, <1>1, PTL

=============================================================================
