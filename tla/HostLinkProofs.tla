--------------------------- MODULE HostLinkProofs ---------------------------
(***************************************************************************)
(* The safety of HostLink for any clients, toggles, values and number of   *)
(* events: what the host does for a client, how requests in pieces arrive, *)
(* and that an undisturbed host runs what its clients have on.             *)
(***************************************************************************)
EXTENDS HostLink, FiniteSetTheorems, SequenceTheorems, TLAPS

Messages == [more : BOOLEAN, text : Texts]
SetText(t, v) == Whole(Set(t, v))

(* What is on its way arrives whole: each first piece is followed by the   *)
(* second, and of a request only the first piece waits for it.             *)
WholeRequests(m, held) ==
  /\ \A i \in 1..Len(m) :
       \/ m[i] = Whole(Ping)
       \/ \E t \in Toggles, v \in 0..MaxValue : m[i] = SetText(t, v)
       \/ m[i] = Piece(RunPart(1)) /\ i + 1 \in 1..Len(m) /\ m[i + 1] = Whole(RunPart(2))
       \/ /\ m[i] = Whole(RunPart(2))
          /\ IF i = 1 THEN held = <<RunPart(1)>> ELSE m[i - 1] = Piece(RunPart(1))
  /\ \/ held = <<>>
     \/ held = <<RunPart(1)>> /\ Len(m) > 0 /\ m[1] = Whole(RunPart(2))

(* The last setting on its way of each toggle, or else the host's, is what *)
(* counts as sent.                                                         *)
Matches(m, run, told) ==
  \A t \in PawnToggles :
    /\ \A i \in 1..Len(m), v \in 0..MaxValue : m[i] = SetText(t, v) /\ v # told[t] =>
         \E k \in 1..Len(m) : k > i /\ m[k] = SetText(t, told[t])
    /\ (\A i \in 1..Len(m), v \in 0..MaxValue : m[i] # SetText(t, v)) => run[t] = told[t]

-----------------------------------------------------------------------------
LEMMA TextKinds ==
  /\ \A t, u \in Toggles, v, w \in 0..MaxValue : SetText(t, v) = SetText(u, w) => t = u /\ v = w
  /\ \A t \in Toggles, v \in 0..MaxValue :
       /\ SetText(t, v) # Whole(Ping)
       /\ \A n \in 1..2 : SetText(t, v) # Whole(RunPart(n)) /\ SetText(t, v) # Piece(RunPart(n))
       /\ Set(t, v) # Ping /\ \A n \in 1..2 : Set(t, v) # RunPart(n)
       /\ Set(t, v).kind = "set" /\ Set(t, v).toggle = t /\ Set(t, v).value = v
       /\ ~SetText(t, v).more /\ SetText(t, v).text = Set(t, v)
       /\ SetText(t, v) \in Messages
  /\ \A n \in 1..2 : /\ Whole(Ping) # Piece(RunPart(n)) /\ Whole(Ping) # Whole(RunPart(n))
                     /\ Piece(RunPart(1)) # Whole(RunPart(n)) /\ Ping # RunPart(n)
                     /\ RunPart(n).kind = "run"
                     /\ Piece(RunPart(n)) \in Messages /\ Whole(RunPart(n)) \in Messages
  /\ Whole(Ping) \in Messages /\ ~Whole(Ping).more /\ Whole(Ping).text = Ping /\ Ping.kind = "ping"
  /\ Piece(RunPart(1)).more = TRUE /\ Piece(RunPart(1)).text = RunPart(1)
  /\ ~Whole(RunPart(2)).more /\ Whole(RunPart(2)).text = RunPart(2)
  /\ RunPart(1) # RunPart(2)
<1>1. /\ Ping.kind = "ping" /\ \A n : RunPart(n).kind = "run" /\ RunPart(n).part = n
      /\ \A t, v : Set(t, v).kind = "set" /\ Set(t, v).toggle = t /\ Set(t, v).value = v
  BY DEF Ping, RunPart, Set
<1>2. \A x : /\ Whole(x).more = FALSE /\ Whole(x).text = x
             /\ Piece(x).more = TRUE /\ Piece(x).text = x
  BY DEF Whole, Piece
<1>3. \A x \in Texts : Whole(x) \in Messages /\ Piece(x) \in Messages
  BY DEF Whole, Piece, Messages
<1>4. Ping \in Texts /\ (\A n \in 1..2 : RunPart(n) \in Texts)
      /\ \A t \in Toggles, v \in 0..MaxValue : Set(t, v) \in Texts
  BY DEF Texts
<1>5. \A t, u \in Toggles, v, w \in 0..MaxValue : SetText(t, v) = SetText(u, w) => t = u /\ v = w
  BY <1>1, <1>2 DEF SetText
<1>6. \A t \in Toggles, v \in 0..MaxValue :
        /\ SetText(t, v) # Whole(Ping)
        /\ \A n \in 1..2 : SetText(t, v) # Whole(RunPart(n)) /\ SetText(t, v) # Piece(RunPart(n))
        /\ Set(t, v) # Ping /\ \A n \in 1..2 : Set(t, v) # RunPart(n)
        /\ ~SetText(t, v).more /\ SetText(t, v).text = Set(t, v)
        /\ SetText(t, v) \in Messages
  BY <1>1, <1>2, <1>3, <1>4 DEF SetText
<1>7. \A n \in 1..2 : /\ Whole(Ping) # Piece(RunPart(n)) /\ Whole(Ping) # Whole(RunPart(n))
                      /\ Piece(RunPart(1)) # Whole(RunPart(n)) /\ Ping # RunPart(n)
  BY <1>1, <1>2
<1>8. RunPart(1) # RunPart(2)
  BY <1>1
<1> QED
  BY <1>1, <1>2, <1>3, <1>4, <1>5, <1>6, <1>7, <1>8

(* The settings a client sends at once, in any order.                      *)
LEMMA InSequence ==
  ASSUME NEW S, IsFiniteSet(S)
  PROVE  /\ SetToSeq(S) \in Seq(S)
         /\ \A x \in S : \E i \in 1..Len(SetToSeq(S)) : SetToSeq(S)[i] = x
<1> DEFINE n == Cardinality(S)
           f == SetToSeq(S)
<1>1. n \in Nat /\ ExistsBijection(1..n, S)
  BY FS_CardinalityType
<1>2. PICK g \in Bijection(1..n, S) : TRUE
  BY <1>1 DEF ExistsBijection
<1>3. g \in [1..n -> S] /\ IsInjective(g)
  BY <1>2 DEF Bijection, Injection, IsInjective
<1>4. f \in [1..n -> S] /\ IsInjective(f)
  BY <1>3 DEF SetToSeq
<1>5. f \in Injection(1..n, S)
  BY <1>4 DEF Injection, IsInjective
<1>6. IsFiniteSet(1..n) /\ Cardinality(1..n) = n
  BY <1>1, FS_Interval
<1>7. f \in Surjection(1..n, S)
  BY <1>5, <1>6, FS_Injection
<1>8. f \in Seq(S) /\ Len(f) = n
  BY <1>1, <1>4
<1> QED
  BY <1>7, <1>8 DEF Surjection

-----------------------------------------------------------------------------
(* What is sent behind what is on its way.                                 *)
LEMMA Behind ==
  ASSUME NEW m \in Seq(Messages), NEW s \in Seq(Messages)
  PROVE  /\ m \o s \in Seq(Messages) /\ Len(m) \in Nat /\ Len(s) \in Nat
         /\ Len(m \o s) = Len(m) + Len(s)
         /\ \A i \in 1..Len(m) : i \in 1..Len(m \o s) /\ (m \o s)[i] = m[i]
         /\ \A i \in 1..Len(s) : Len(m) + i \in 1..Len(m \o s) /\ (m \o s)[Len(m) + i] = s[i]
         /\ \A i \in 1..Len(m \o s) : i \in 1..Len(m) \/ (i > Len(m) /\ i - Len(m) \in 1..Len(s))
<1>1. /\ m \o s \in Seq(Messages) /\ Len(m \o s) = Len(m) + Len(s)
      /\ \A i \in 1..Len(m) + Len(s) : (m \o s)[i] = IF i <= Len(m) THEN m[i] ELSE s[i - Len(m)]
  BY ConcatProperties
<1>2. Len(m) \in Nat /\ Len(s) \in Nat
  OBVIOUS
<1>3. \A i \in 1..Len(m) : i \in 1..Len(m \o s) /\ (m \o s)[i] = m[i]
  BY <1>1, <1>2
<1>4. ASSUME NEW i \in 1..Len(s)
      PROVE  Len(m) + i \in 1..Len(m \o s) /\ (m \o s)[Len(m) + i] = s[i]
  <2>1. Len(m) + i \in 1..Len(m) + Len(s) /\ ~(Len(m) + i <= Len(m)) /\ (Len(m) + i) - Len(m) = i
    BY <1>2
  <2> QED
    BY <1>1, <2>1
<1>5. \A i \in 1..Len(m \o s) : i \in 1..Len(m) \/ (i > Len(m) /\ i - Len(m) \in 1..Len(s))
  BY <1>1, <1>2
<1> QED
  BY <1>1, <1>2, <1>3, <1>4, <1>5

LEMMA JoinWhole ==
  ASSUME NEW m \in Seq(Messages), NEW s \in Seq(Messages), NEW held,
         WholeRequests(m, held), WholeRequests(s, <<>>)
  PROVE  WholeRequests(m \o s, held)
<1> DEFINE q == m \o s
           n == Len(m)
<1>1. /\ n \in Nat /\ Len(s) \in Nat /\ Len(q) = n + Len(s)
      /\ \A i \in 1..n : i \in 1..Len(q) /\ q[i] = m[i]
      /\ \A i \in 1..Len(s) : n + i \in 1..Len(q) /\ q[n + i] = s[i]
      /\ \A i \in 1..Len(q) : i \in 1..n \/ (i > n /\ i - n \in 1..Len(s))
  BY Behind
<1> HIDE DEF q
<1>2. ASSUME NEW i \in 1..Len(q)
      PROVE  \/ q[i] = Whole(Ping)
             \/ \E t \in Toggles, v \in 0..MaxValue : q[i] = SetText(t, v)
             \/ q[i] = Piece(RunPart(1)) /\ i + 1 \in 1..Len(q) /\ q[i + 1] = Whole(RunPart(2))
             \/ /\ q[i] = Whole(RunPart(2))
                /\ IF i = 1 THEN held = <<RunPart(1)>> ELSE q[i - 1] = Piece(RunPart(1))
  <2>1. CASE i \in 1..n
    <3>1. q[i] = m[i] /\ (i # 1 => q[i - 1] = m[i - 1]) /\ (i + 1 \in 1..n => q[i + 1] = m[i + 1] /\ i + 1 \in 1..Len(q))
      BY <1>1, <2>1
    <3> QED
      BY <2>1, <3>1 DEF WholeRequests
  <2>2. CASE i > n /\ i - n \in 1..Len(s)
    <3> DEFINE k == i - n
    <3>0. n \in Nat /\ Len(s) \in Nat /\ i \in Nat
      BY <1>1
    <3>1. /\ k \in 1..Len(s) /\ k \in Nat /\ i = n + k
          /\ k # 1 => k - 1 \in 1..Len(s) /\ i - 1 = n + (k - 1) /\ i # 1
          /\ i + 1 = n + (k + 1)
      <4> HIDE DEF n
      <4> QED
        BY <2>2, <3>0
    <3> HIDE DEF k
    <3>2. q[n + k] = s[k] /\ (k # 1 => q[n + (k - 1)] = s[k - 1])
      BY <1>1, <3>1
    <3>3. k + 1 \in 1..Len(s) => q[n + (k + 1)] = s[k + 1] /\ n + (k + 1) \in 1..Len(q)
      BY <1>1, <3>1
    <3>4. <<>> # <<RunPart(1)>>
      OBVIOUS
    <3>5. \/ s[k] = Whole(Ping)
          \/ \E t \in Toggles, v \in 0..MaxValue : s[k] = SetText(t, v)
          \/ s[k] = Piece(RunPart(1)) /\ k + 1 \in 1..Len(s) /\ s[k + 1] = Whole(RunPart(2))
          \/ s[k] = Whole(RunPart(2)) /\ k # 1 /\ s[k - 1] = Piece(RunPart(1))
      BY <3>1, <3>4 DEF WholeRequests
    <3> QED
      BY <3>1, <3>2, <3>3, <3>5
  <2> QED
    BY <1>1, <2>1, <2>2
<1>3. \/ held = <<>>
      \/ held = <<RunPart(1)>> /\ Len(q) > 0 /\ q[1] = Whole(RunPart(2))
  BY <1>1 DEF WholeRequests
<1> QED
  BY <1>2, <1>3 DEF WholeRequests, q

(* The host takes the first message: a ping, a setting or both pieces of   *)
(* a request, or its first piece, which it holds.                          *)
LEMMA TakeWhole ==
  ASSUME NEW m \in Seq(Messages), m # <<>>, NEW held, WholeRequests(m, held)
  PROVE  \/ /\ Head(m).more /\ WholeRequests(Tail(m), Append(held, Head(m).text))
            /\ Head(m) = Piece(RunPart(1))
         \/ /\ ~Head(m).more /\ WholeRequests(Tail(m), <<>>)
            /\ \/ held = <<>> /\ Head(m) = Whole(Ping)
               \/ held = <<>> /\ \E t \in Toggles, v \in 0..MaxValue : Head(m) = SetText(t, v)
               \/ held = <<RunPart(1)>> /\ Head(m) = Whole(RunPart(2))
<1> DEFINE q == Tail(m)
<1>1. /\ q \in Seq(Messages) /\ Len(m) \in Nat /\ Len(m) > 0 /\ Len(q) = Len(m) - 1
      /\ Head(m) = m[1] /\ 1 \in 1..Len(m)
      /\ \A i \in 1..Len(m) - 1 : q[i] = m[i + 1]
  BY HeadTailProperties, LenProperties
<1> HIDE DEF q
<1>2. CASE m[1] = Piece(RunPart(1))
  <2>1. held = <<>> /\ m[1].more /\ m[1].text = RunPart(1)
    BY <1>1, <1>2, TextKinds DEF WholeRequests
  <2>2. 2 \in 1..Len(m) /\ m[2] = Whole(RunPart(2))
    BY <1>1, <1>2, TextKinds DEF WholeRequests
  <2>3. Append(held, m[1].text) = <<RunPart(1)>>
    BY <2>1
  <2>4. Len(q) > 0 /\ q[1] = Whole(RunPart(2))
    BY <1>1, <2>2
  <2>5. WholeRequests(q, <<RunPart(1)>>)
    <3> SUFFICES ASSUME NEW i \in 1..Len(q)
                 PROVE  \/ q[i] = Whole(Ping)
                        \/ \E t \in Toggles, v \in 0..MaxValue : q[i] = SetText(t, v)
                        \/ q[i] = Piece(RunPart(1)) /\ i + 1 \in 1..Len(q) /\ q[i + 1] = Whole(RunPart(2))
                        \/ /\ q[i] = Whole(RunPart(2))
                           /\ IF i = 1 THEN TRUE ELSE q[i - 1] = Piece(RunPart(1))
      BY <2>4 DEF WholeRequests
    <3>1. i + 1 \in 1..Len(m) /\ q[i] = m[i + 1] /\ i + 1 # 1 /\ (i + 1) - 1 = i
      BY <1>1
    <3>2. (i + 1) + 1 \in 1..Len(m) => i + 1 \in 1..Len(q) /\ q[i + 1] = m[(i + 1) + 1]
      BY <1>1
    <3>3. i # 1 => q[i - 1] = m[i]
      BY <1>1
    <3> QED
      BY <2>4, <3>1, <3>2, <3>3 DEF WholeRequests
  <2> QED
    BY <1>1, <1>2, <2>1, <2>3, <2>5 DEF q
<1>3. CASE m[1] # Piece(RunPart(1))
  <2>1. \/ held = <<>> /\ m[1] = Whole(Ping)
        \/ held = <<>> /\ \E t \in Toggles, v \in 0..MaxValue : m[1] = SetText(t, v)
        \/ held = <<RunPart(1)>> /\ m[1] = Whole(RunPart(2))
    BY <1>1, <1>3, TextKinds DEF WholeRequests
  <2>2. ~m[1].more
    BY <2>1, TextKinds
  <2>3. WholeRequests(q, <<>>)
    <3> SUFFICES ASSUME NEW i \in 1..Len(q)
                 PROVE  \/ q[i] = Whole(Ping)
                        \/ \E t \in Toggles, v \in 0..MaxValue : q[i] = SetText(t, v)
                        \/ q[i] = Piece(RunPart(1)) /\ i + 1 \in 1..Len(q) /\ q[i + 1] = Whole(RunPart(2))
                        \/ /\ q[i] = Whole(RunPart(2)) /\ i # 1 /\ q[i - 1] = Piece(RunPart(1))
      BY DEF WholeRequests
    <3>1. i + 1 \in 1..Len(m) /\ q[i] = m[i + 1] /\ i + 1 # 1 /\ (i + 1) - 1 = i
      BY <1>1
    <3>2. (i + 1) + 1 \in 1..Len(m) => i + 1 \in 1..Len(q) /\ q[i + 1] = m[(i + 1) + 1]
      BY <1>1
    <3>3. i # 1 => q[i - 1] = m[i]
      BY <1>1
    <3> QED
      BY <1>3, <3>1, <3>2, <3>3 DEF WholeRequests
  <2> QED
    BY <1>1, <2>1, <2>2, <2>3 DEF q
<1> QED
  BY <1>2, <1>3

(* What a client sends is whole.                                           *)
LEMMA SentWhole ==
  /\ WholeRequests(<<>>, <<>>) /\ <<>> \in Seq(Messages)
  /\ WholeRequests(<<Whole(Ping)>>, <<>>) /\ <<Whole(Ping)>> \in Seq(Messages)
  /\ WholeRequests(<<Piece(RunPart(1)), Whole(RunPart(2))>>, <<>>)
  /\ <<Piece(RunPart(1)), Whole(RunPart(2))>> \in Seq(Messages)
<1>1. WholeRequests(<<>>, <<>>)
  BY DEF WholeRequests
<1>2. WholeRequests(<<Whole(Ping)>>, <<>>) /\ <<Whole(Ping)>> \in Seq(Messages)
  <2>1. Len(<<Whole(Ping)>>) = 1 /\ <<Whole(Ping)>>[1] = Whole(Ping)
    OBVIOUS
  <2> QED
    BY <2>1, TextKinds DEF WholeRequests
<1>3. WholeRequests(<<Piece(RunPart(1)), Whole(RunPart(2))>>, <<>>)
  <2> DEFINE s == <<Piece(RunPart(1)), Whole(RunPart(2))>>
  <2>1. Len(s) = 2 /\ s[1] = Piece(RunPart(1)) /\ s[2] = Whole(RunPart(2))
    OBVIOUS
  <2> HIDE DEF s
  <2>2. \A i \in 1..Len(s) : i = 1 \/ i = 2
    BY <2>1
  <2> QED
    BY <2>1, <2>2 DEF WholeRequests, s
<1>4. <<Piece(RunPart(1)), Whole(RunPart(2))>> \in Seq(Messages)
  BY TextKinds
<1>5. <<>> \in Seq(Messages)
  OBVIOUS
<1> QED
  BY <1>1, <1>2, <1>3, <1>4, <1>5

(* Changes(told, wanted): what Sync sends.                                 *)
Changes(told, wanted) == {Whole(Set(t, wanted[t])) : t \in {u \in Toggles : told[u] # wanted[u]}}

LEMMA ChangesWhole ==
  ASSUME NEW told \in [Toggles -> 0..MaxValue], NEW wanted \in [Toggles -> 0..MaxValue]
  PROVE  /\ WholeRequests(SetToSeq(Changes(told, wanted)), <<>>)
         /\ SetToSeq(Changes(told, wanted)) \in Seq(Messages)
         /\ \A i \in 1..Len(SetToSeq(Changes(told, wanted))) :
              \E t \in Toggles : /\ told[t] # wanted[t]
                                 /\ SetToSeq(Changes(told, wanted))[i] = SetText(t, wanted[t])
         /\ \A t \in Toggles : told[t] # wanted[t] =>
              \E i \in 1..Len(SetToSeq(Changes(told, wanted))) :
                SetToSeq(Changes(told, wanted))[i] = SetText(t, wanted[t])
<1> DEFINE T == {u \in Toggles : told[u] # wanted[u]}
           S == Changes(told, wanted)
           f == [t \in T |-> Whole(Set(t, wanted[t]))]
           s == SetToSeq(S)
<1>1. IsFiniteSet(T)
  BY HostLinkAssumption, FS_Subset
<1>2. f \in Surjection(T, S)
  BY DEF Surjection, Changes
<1>3. IsFiniteSet(S)
  BY <1>1, <1>2, FS_Surjection
<1>4. S \subseteq Messages
  BY TextKinds DEF Changes, SetText
<1>5. s \in Seq(S) /\ \A x \in S : \E i \in 1..Len(s) : s[i] = x
  BY <1>3, InSequence
<1>6. s \in Seq(Messages)
  BY <1>4, <1>5, SeqMonotonic
<1>7. \A t \in T : SetText(t, wanted[t]) \in S
  BY DEF Changes, SetText
<1>8. \A x \in S : \E t \in T : x = SetText(t, wanted[t])
  BY DEF Changes, SetText
<1>9. \A i \in 1..Len(s) : s[i] \in S
  BY <1>5, ElementOfSeq
<1> HIDE DEF s, S
<1>10. WholeRequests(s, <<>>)
  BY <1>8, <1>9 DEF WholeRequests
<1> QED
  BY <1>5, <1>6, <1>7, <1>8, <1>9, <1>10 DEF s, S

-----------------------------------------------------------------------------
(* Requests that set nothing of a pawn's leave what matches.               *)
LEMMA JoinMatches ==
  ASSUME NEW m \in Seq(Messages), NEW s \in Seq(Messages), NEW run, NEW told, Matches(m, run, told),
         \A i \in 1..Len(s), t \in PawnToggles, v \in 0..MaxValue : s[i] # SetText(t, v)
  PROVE  Matches(m \o s, run, told)
<1> DEFINE q == m \o s
           n == Len(m)
<1>1. /\ n \in Nat /\ Len(s) \in Nat /\ Len(q) = n + Len(s)
      /\ \A i \in 1..n : i \in 1..Len(q) /\ q[i] = m[i]
      /\ \A i \in 1..Len(s) : n + i \in 1..Len(q) /\ q[n + i] = s[i]
      /\ \A i \in 1..Len(q) : i \in 1..n \/ (i > n /\ i - n \in 1..Len(s))
  BY Behind
<1> HIDE DEF q
<1>2. ASSUME NEW i \in 1..Len(q), NEW t \in PawnToggles, NEW v \in 0..MaxValue, q[i] = SetText(t, v)
      PROVE  i \in 1..n /\ m[i] = SetText(t, v)
  <2>1. CASE i > n /\ i - n \in 1..Len(s)
    <3>1. q[n + (i - n)] = s[i - n] /\ n + (i - n) = i
      BY <1>1, <2>1
    <3> QED
      BY <1>2, <2>1, <3>1
  <2> QED
    BY <1>1, <1>2, <2>1
<1>3. ASSUME NEW t \in PawnToggles, NEW i \in 1..Len(q), NEW v \in 0..MaxValue,
             q[i] = SetText(t, v), v # told[t]
      PROVE  \E k \in 1..Len(q) : k > i /\ q[k] = SetText(t, told[t])
  <2>1. PICK k \in 1..n : k > i /\ m[k] = SetText(t, told[t])
    BY <1>2, <1>3 DEF Matches
  <2> QED
    BY <1>1, <2>1
<1>4. ASSUME NEW t \in PawnToggles, \A i \in 1..Len(q), v \in 0..MaxValue : q[i] # SetText(t, v)
      PROVE  run[t] = told[t]
  <2>1. \A i \in 1..n, v \in 0..MaxValue : m[i] # SetText(t, v)
    BY <1>1, <1>4
  <2> QED
    BY <2>1 DEF Matches
<1> QED
  BY <1>3, <1>4 DEF Matches, q

(* What the client sends of its changes makes them match what it has on.   *)
LEMMA ChangesMatch ==
  ASSUME NEW m \in Seq(Messages), NEW run, NEW told \in [Toggles -> 0..MaxValue],
         NEW wanted \in [Toggles -> 0..MaxValue], Matches(m, run, told)
  PROVE  Matches(m \o SetToSeq(Changes(told, wanted)), run, wanted)
<1>0. /\ SetToSeq(Changes(told, wanted)) \in Seq(Messages)
      /\ \A i \in 1..Len(SetToSeq(Changes(told, wanted))) :
           \E t \in Toggles : /\ told[t] # wanted[t]
                              /\ SetToSeq(Changes(told, wanted))[i] = SetText(t, wanted[t])
      /\ \A t \in Toggles : told[t] # wanted[t] =>
           \E i \in 1..Len(SetToSeq(Changes(told, wanted))) :
             SetToSeq(Changes(told, wanted))[i] = SetText(t, wanted[t])
  BY ChangesWhole
<1> DEFINE s == SetToSeq(Changes(told, wanted))
           q == m \o s
           n == Len(m)
<1>1. /\ s \in Seq(Messages)
      /\ \A i \in 1..Len(s) : \E t \in Toggles : told[t] # wanted[t] /\ s[i] = SetText(t, wanted[t])
      /\ \A t \in Toggles : told[t] # wanted[t] => \E i \in 1..Len(s) : s[i] = SetText(t, wanted[t])
  BY <1>0
<1> HIDE DEF s
<1>2. /\ n \in Nat /\ Len(s) \in Nat /\ Len(q) = n + Len(s)
      /\ \A i \in 1..n : i \in 1..Len(q) /\ q[i] = m[i]
      /\ \A i \in 1..Len(s) : n + i \in 1..Len(q) /\ q[n + i] = s[i]
      /\ \A i \in 1..Len(q) : i \in 1..n \/ (i > n /\ i - n \in 1..Len(s))
  BY <1>1, Behind
<1> HIDE DEF q
<1>3. PawnToggles \subseteq Toggles /\ \A t \in Toggles : wanted[t] \in 0..MaxValue
  BY DEF Toggles
<1>4. ASSUME NEW t \in PawnToggles, NEW i \in 1..Len(q), NEW v \in 0..MaxValue, q[i] = SetText(t, v)
      PROVE  \/ i \in 1..n /\ m[i] = SetText(t, v)
             \/ told[t] # wanted[t] /\ v = wanted[t]
  <2>1. CASE i > n /\ i - n \in 1..Len(s)
    <3>0. q[n + (i - n)] = s[i - n]
      BY <1>2, <2>1
    <3>1. q[i] = s[i - n]
      <4>1. n \in Nat /\ i \in Nat
        BY <1>2
      <4> HIDE DEF n
      <4>2. n + (i - n) = i
        BY <4>1
      <4> QED
        BY <3>0, <4>2
    <3>2. PICK u \in Toggles : told[u] # wanted[u] /\ s[i - n] = SetText(u, wanted[u])
      BY <1>1, <2>1
    <3>3. SetText(t, v) = SetText(u, wanted[u]) /\ t \in Toggles /\ wanted[u] \in 0..MaxValue
      BY <1>3, <1>4, <3>1, <3>2
    <3>4. t = u /\ v = wanted[u]
      BY <3>3, TextKinds
    <3> QED
      BY <3>2, <3>4
  <2> QED
    BY <1>2, <1>4, <2>1
<1>5. ASSUME NEW t \in PawnToggles, told[t] # wanted[t]
      PROVE  \E k \in 1..Len(q) : k > n /\ q[k] = SetText(t, wanted[t])
  <2>1. PICK i \in 1..Len(s) : s[i] = SetText(t, wanted[t])
    BY <1>1, <1>3, <1>5
  <2>2. n + i > n /\ n + i \in 1..Len(q) /\ q[n + i] = SetText(t, wanted[t])
    BY <1>2, <2>1
  <2> QED
    BY <2>2
<1>6. ASSUME NEW t \in PawnToggles, NEW i \in 1..Len(q), NEW v \in 0..MaxValue,
             q[i] = SetText(t, v), v # wanted[t]
      PROVE  \E k \in 1..Len(q) : k > i /\ q[k] = SetText(t, wanted[t])
  <2>1. i \in 1..n /\ m[i] = SetText(t, v)
    BY <1>4, <1>6
  <2>2. CASE told[t] # wanted[t]
    BY <1>2, <1>5, <2>1, <2>2
  <2>3. CASE told[t] = wanted[t]
    <3>1. PICK k \in 1..n : k > i /\ m[k] = SetText(t, told[t])
      BY <1>6, <2>1, <2>3 DEF Matches
    <3> QED
      BY <1>2, <2>3, <3>1
  <2> QED
    BY <2>2, <2>3
<1>7. ASSUME NEW t \in PawnToggles, \A i \in 1..Len(q), v \in 0..MaxValue : q[i] # SetText(t, v)
      PROVE  run[t] = wanted[t]
  <2>1. told[t] = wanted[t]
    BY <1>3, <1>5, <1>7
  <2>2. \A i \in 1..n, v \in 0..MaxValue : m[i] # SetText(t, v)
    BY <1>2, <1>7
  <2> QED
    BY <2>1, <2>2 DEF Matches
<1> QED
  BY <1>6, <1>7 DEF Matches, q, s

(* The host takes the first message: either it sets nothing of a pawn's,   *)
(* or the host runs what it sets.                                          *)
LEMMA TakeMatches ==
  ASSUME NEW m \in Seq(Messages), m # <<>>, NEW run, NEW ran, NEW told \in [Toggles -> 0..MaxValue],
         Matches(m, run, told),
         \A t \in PawnToggles :
           \/ ran[t] = run[t] /\ \A v \in 0..MaxValue : Head(m) # SetText(t, v)
           \/ ran[t] \in 0..MaxValue /\ Head(m) = SetText(t, ran[t])
  PROVE  Matches(Tail(m), ran, told)
<1> DEFINE q == Tail(m)
<1>1. /\ q \in Seq(Messages) /\ Len(m) \in Nat /\ Len(m) > 0 /\ Len(q) = Len(m) - 1
      /\ Head(m) = m[1] /\ 1 \in 1..Len(m)
      /\ \A i \in 1..Len(m) - 1 : q[i] = m[i + 1]
  BY HeadTailProperties, LenProperties
<1> HIDE DEF q
<1>2. /\ \A i \in 1..Len(q) : i + 1 \in 1..Len(m) /\ q[i] = m[i + 1] /\ i \in Nat
      /\ \A i \in 1..Len(m) : i > 1 => i \in Nat /\ i - 1 \in 1..Len(q) /\ q[i - 1] = m[i]
  <2>1. \A i \in 1..Len(q) : i + 1 \in 1..Len(m) /\ q[i] = m[i + 1] /\ i \in Nat
    BY <1>1
  <2>2. ASSUME NEW i \in 1..Len(m), i > 1
        PROVE  i \in Nat /\ i - 1 \in 1..Len(q) /\ q[i - 1] = m[i]
    <3>1. i - 1 \in 1..Len(m) - 1 /\ (i - 1) + 1 = i
      BY <1>1, <2>2
    <3> QED
      BY <1>1, <3>1
  <2> QED
    BY <2>1, <2>2
<1>3. ASSUME NEW t \in PawnToggles, NEW i \in 1..Len(q), NEW v \in 0..MaxValue,
             q[i] = SetText(t, v), v # told[t]
      PROVE  \E k \in 1..Len(q) : k > i /\ q[k] = SetText(t, told[t])
  <2>1. PICK k \in 1..Len(m) : k > i + 1 /\ m[k] = SetText(t, told[t])
    BY <1>2, <1>3 DEF Matches
  <2>2. k > 1 /\ k - 1 > i
    BY <1>2, <2>1
  <2> QED
    BY <1>2, <2>1, <2>2
<1>4. ASSUME NEW t \in PawnToggles, \A i \in 1..Len(q), v \in 0..MaxValue : q[i] # SetText(t, v)
      PROVE  ran[t] = told[t]
  <2>1. ASSUME NEW i \in 1..Len(m), NEW v \in 0..MaxValue, m[i] = SetText(t, v)
        PROVE  i = 1
    <3>1. i = 1 \/ i > 1
      BY <1>1
    <3>2. i > 1 => i - 1 \in 1..Len(q) /\ q[i - 1] = SetText(t, v)
      BY <1>2, <2>1
    <3> QED
      BY <1>4, <3>1, <3>2
  <2>2. CASE ran[t] = run[t] /\ \A v \in 0..MaxValue : Head(m) # SetText(t, v)
    BY <1>1, <2>1, <2>2 DEF Matches
  <2>3. CASE ran[t] \in 0..MaxValue /\ Head(m) = SetText(t, ran[t])
    <3> SUFFICES ASSUME ran[t] # told[t] PROVE FALSE
      OBVIOUS
    <3>1. PICK k \in 1..Len(m) : k > 1 /\ m[k] = SetText(t, told[t])
      BY <1>1, <2>3 DEF Matches
    <3>2. told[t] \in 0..MaxValue
      BY DEF Toggles
    <3> QED
      BY <2>1, <3>1, <3>2
  <2> QED
    BY <2>2, <2>3
<1> QED
  BY <1>3, <1>4 DEF Matches, q

-----------------------------------------------------------------------------
LEMMA TypeInit == Init => TypeOK
<1> SUFFICES ASSUME Init PROVE TypeOK
  OBVIOUS
<1>1. 0 \in 0..MaxValue /\ 0 \in 0..MaxEvents /\ 0 \in 0..3
  BY HostLinkAssumption
<1>2. Off \in [Toggles -> 0..MaxValue] /\ None \in [PawnToggles -> 0..MaxValue]
  BY <1>1 DEF Off, None
<1>3. /\ want \in [Clients -> [Toggles -> 0..MaxValue]] /\ sent \in [Clients -> [Toggles -> 0..MaxValue]]
      /\ settings \in [Clients -> [PawnToggles -> 0..MaxValue]]
      /\ effect \in [Clients -> [PawnToggles -> 0..MaxValue]]
  BY <1>2 DEF Init
<1>4. /\ pieces \in [Clients -> Seq(Texts)] /\ toClient \in [Clients -> Seq(Answers)]
      /\ toHost \in [Clients -> Seq([more : BOOLEAN, text : Texts])]
  BY DEF Init
<1>5. upsets \subseteq {"slow", "switched", "unloaded"} /\ modded \subseteq Clients
  BY DEF Init
<1>6. /\ answered \in [Clients -> BOOLEAN] /\ linked \in [Clients -> BOOLEAN]
      /\ known \in [Clients -> BOOLEAN] /\ waiting \in [Clients -> BOOLEAN]
      /\ pawn \in [Clients -> BOOLEAN] /\ asks \in [Clients -> 0..3] /\ events \in 0..MaxEvents
      /\ loaded \in BOOLEAN /\ accept \in BOOLEAN /\ accepting \in BOOLEAN
  BY <1>1 DEF Init
<1> QED
  BY <1>3, <1>4, <1>5, <1>6 DEF TypeOK

(* What an update of a client leaves of its menu, sends and counts.        *)
LEMMA TypeUpdate ==
  ASSUME TypeOK, NEW c \in Clients, Update(c)
  PROVE  TypeOK'
<1>1. 0 \in 0..MaxValue /\ \A n \in 0..3 : n < 3 => n + 1 \in 0..3
  BY HostLinkAssumption
<1>2. ASSUME NotReady(c)
      PROVE  /\ want' \in [Clients -> [Toggles -> 0..MaxValue]]
             /\ sent' \in [Clients -> [Toggles -> 0..MaxValue]]
             /\ waiting' \in [Clients -> BOOLEAN]
             /\ known' \in [Clients -> BOOLEAN]
             /\ AsksSoFar(c) \in 0..3
  <2>1. TurnedOff(c) \in [Toggles -> 0..MaxValue]
    BY <1>1 DEF TurnedOff, TypeOK
  <2>2. Forgotten(c) \in [Toggles -> 0..MaxValue]
    BY <1>1 DEF Forgotten, Off
  <2>3. AsksSoFar(c) \in 0..3
    BY DEF AsksSoFar, TypeOK
  <2> QED
    BY <1>2, <2>1, <2>2, <2>3 DEF NotReady, TypeOK
<1>3. CASE Ask(c)
  <2>1. AsksSoFar(c) + 1 \in 0..3
    BY <1>1, <1>2, <1>3 DEF Ask, AsksLeft
  <2>2. toHost[c] \in Seq(Messages) /\ Whole(Ping) \in Messages
    BY TextKinds DEF TypeOK, Messages
  <2>3. Append(toHost[c], Whole(Ping)) \in Seq(Messages)
    BY <2>2
  <2>4. toHost' \in [Clients -> Seq([more : BOOLEAN, text : Texts])]
    BY <1>3, <2>3 DEF Ask, TypeOK, Messages
  <2> QED
    BY <1>2, <1>3, <2>1, <2>4 DEF Ask, NotReady, TypeOK, hostVars, engineVars
<1>4. CASE GiveUp(c)
  BY <1>2, <1>4 DEF GiveUp, NotReady, TypeOK, hostVars, engineVars
<1>5. CASE Wait(c)
  BY <1>2, <1>5 DEF Wait, NotReady, TypeOK, hostVars, engineVars
<1>6. CASE TimeOut(c)
  BY <1>6 DEF TimeOut, TypeOK, menuVars, hostVars
<1>7. CASE Sync(c)
  <2>1. /\ want[c] \in [Toggles -> 0..MaxValue] /\ sent[c] \in [Toggles -> 0..MaxValue]
        /\ toHost[c] \in Seq(Messages)
    BY DEF TypeOK, Messages
  <2>2. SetToSeq(Changes(sent[c], want[c])) \in Seq(Messages)
    BY <2>1, ChangesWhole
  <2>3. toHost' = [toHost EXCEPT ![c] = toHost[c] \o SetToSeq(Changes(sent[c], want[c]))]
    BY <1>7 DEF Sync, Changes
  <2>4. toHost[c] \o SetToSeq(Changes(sent[c], want[c])) \in Seq(Messages)
    BY <2>1, <2>2, ConcatProperties
  <2>5. toHost' \in [Clients -> Seq([more : BOOLEAN, text : Texts])]
    BY <2>3, <2>4 DEF TypeOK, Messages
  <2> QED
    BY <1>7, <2>1, <2>5 DEF Sync, TypeOK, menuVars, hostVars, engineVars
<1> QED
  BY <1>3, <1>4, <1>5, <1>6, <1>7 DEF Update

LEMMA TypeUser ==
  ASSUME TypeOK, NEW c \in Clients, User(c)
  PROVE  TypeOK'
<1>1. events < MaxEvents => events + 1 \in 0..MaxEvents
  BY HostLinkAssumption DEF TypeOK
<1>2. CASE CheckHost(c)
  <2>1. toHost[c] \in Seq(Messages) /\ Whole(Ping) \in Messages
    BY TextKinds DEF TypeOK, Messages
  <2>2. Append(toHost[c], Whole(Ping)) \in Seq(Messages)
    BY <2>1
  <2>3. toHost' \in [Clients -> Seq([more : BOOLEAN, text : Texts])]
    BY <1>2, <2>2 DEF CheckHost, TypeOK, Messages
  <2> QED
    BY <1>1, <1>2, <2>3 DEF CheckHost, TypeOK, menuVars, linkVars, hostVars, engineVars
<1>3. CASE Run(c)
  <2>1. toHost[c] \in Seq(Messages)
    BY DEF TypeOK, Messages
  <2>2. toHost[c] \o <<Piece(RunPart(1)), Whole(RunPart(2))>> \in Seq(Messages)
    BY <2>1, SentWhole, ConcatProperties
  <2>3. toHost' \in [Clients -> Seq([more : BOOLEAN, text : Texts])]
    BY <1>3, <2>2 DEF Run, TypeOK, Messages
  <2> QED
    BY <1>1, <1>3, <2>3 DEF Run, TypeOK, menuVars, hostVars, engineVars
<1>4. ASSUME NEW t \in Toggles, NEW v \in 0..MaxValue, Click(c, t, v)
      PROVE  TypeOK'
  <2>1. want' \in [Clients -> [Toggles -> 0..MaxValue]]
    <3>1. [want[c] EXCEPT ![t] = v] \in [Toggles -> 0..MaxValue]
      BY DEF TypeOK
    <3> QED
      BY <1>4, <3>1 DEF Click, TypeOK
  <2> QED
    BY <1>1, <1>4, <2>1 DEF Click, TypeOK, linkVars, hostVars, engineVars
<1> QED
  BY <1>2, <1>3, <1>4 DEF User

LEMMA TypeHear ==
  ASSUME TypeOK, NEW c \in Clients, Hear(c)
  PROVE  TypeOK'
<1>1. ASSUME NEW text, Receive(c, text)
      PROVE  /\ toClient' \in [Clients -> Seq(Answers)]
             /\ waiting' \in [Clients -> BOOLEAN]
  BY <1>1 DEF Receive, TypeOK
<1>2. CASE Pong(c)
  BY <1>1, <1>2 DEF Pong, Receive, TypeOK, menuVars, hostVars, engineVars
<1>3. CASE Refused(c)
  <2>1. asks' \in [Clients -> 0..3]
    BY <1>3 DEF Refused, TypeOK
  <2> QED
    BY <1>1, <1>3, <2>1 DEF Refused, Receive, TypeOK, menuVars, hostVars, engineVars
<1>4. CASE RequestRefused(c)
  BY <1>1, <1>4 DEF RequestRefused, Receive, TypeOK, menuVars, hostVars, engineVars
<1>5. CASE Told(c)
  BY <1>1, <1>5 DEF Told, Receive, TypeOK, menuVars, hostVars, engineVars
<1> QED
  BY <1>2, <1>3, <1>4, <1>5 DEF Hear

(* The host joins what arrives to the pieces it holds.                     *)
LEMMA JoinedText ==
  ASSUME TypeOK, NEW c \in Clients, toHost[c] # <<>>
  PROVE  /\ Head(toHost[c]) \in Messages /\ Tail(toHost[c]) \in Seq(Messages)
         /\ pieces[c] \in Seq(Texts) /\ Joined(c) \in Seq(Texts)
         /\ Len(Joined(c)) = Len(pieces[c]) + 1 /\ Len(pieces[c]) \in Nat
         /\ Joined(c)[Len(pieces[c]) + 1] = Head(toHost[c]).text
<1>1. toHost[c] \in Seq(Messages) /\ pieces[c] \in Seq(Texts)
  BY DEF TypeOK, Messages
<1>2. Head(toHost[c]) \in Messages /\ Tail(toHost[c]) \in Seq(Messages)
  BY <1>1, HeadTailProperties
<1>3. Head(toHost[c]).text \in Texts
  BY <1>2 DEF Messages
<1> QED
  BY <1>1, <1>2, <1>3, AppendProperties DEF Joined

(* A request to set a toggle is that message and nothing else.             *)
LEMMA SetArrives ==
  ASSUME TypeOK, NEW c \in Clients, Arrived(c), IsSet(c)
  PROVE  /\ Joined(c)[1].toggle \in Toggles /\ Joined(c)[1].value \in 0..MaxValue
         /\ Head(toHost[c]) = SetText(Joined(c)[1].toggle, Joined(c)[1].value)
<1>1. toHost[c] # <<>> /\ ~Head(toHost[c]).more
  BY DEF Arrived, Arrives
<1>2. Joined(c)[1] = Head(toHost[c]).text /\ Head(toHost[c]) \in Messages
  <2>1. Len(pieces[c]) + 1 = 1
    BY <1>1, JoinedText DEF IsSet
  <2> QED
    BY <1>1, <2>1, JoinedText
<1>3. Joined(c)[1] \in Texts /\ Joined(c)[1].kind = "set"
  BY <1>2 DEF Messages, IsSet
<1>4. PICK t \in Toggles, v \in 0..MaxValue : Joined(c)[1] = Set(t, v)
  BY <1>3 DEF Texts, Ping, RunPart
<1>5. t = Joined(c)[1].toggle /\ v = Joined(c)[1].value
  BY <1>4, TextKinds
<1>6. Head(toHost[c]) = SetText(t, v)
  BY <1>1, <1>2, <1>4 DEF Messages, SetText, Whole
<1> QED
  BY <1>5, <1>6

LEMMA TypeServe ==
  ASSUME TypeOK, NEW c \in Clients, Serve(c)
  PROVE  TypeOK'
<1>1. toHost[c] # <<>> /\ toHost' = [toHost EXCEPT ![c] = Tail(@)]
  BY DEF Serve, Dropped, TakePiece, TakePing, Refuse, RunRequest, SetWorld, SetPawn, Unknown,
         Arrived, Arrives
<1>2. toHost' \in [Clients -> Seq([more : BOOLEAN, text : Texts])]
  BY <1>1, JoinedText DEF TypeOK, Messages
<1>3. \A x \in Answers : Answer(c, x) => toClient' \in [Clients -> Seq(Answers)]
  BY DEF Answer, TypeOK
<1>4. Arrived(c) => pieces' \in [Clients -> Seq(Texts)]
  BY DEF Arrived, Taken, TypeOK
<1>5. CASE Dropped(c)
  BY <1>2, <1>5 DEF Dropped, TypeOK, menuVars, linkVars, hostVars, engineVars
<1>6. CASE TakePiece(c)
  <2>1. pieces' \in [Clients -> Seq(Texts)]
    <3>1. <<>> \in Seq(Texts)
      OBVIOUS
    <3> QED
      BY <1>1, <1>6, <3>1, JoinedText DEF TakePiece, TypeOK
  <2> QED
    BY <1>2, <1>6, <2>1 DEF TakePiece, Arrives, TypeOK, menuVars, linkVars, engineVars
<1>7. CASE TakePing(c)
  <2>1. toClient' \in [Clients -> Seq(Answers)]
    BY <1>3, <1>7 DEF TakePing, Answers
  <2>2. modded' \subseteq Clients
    BY <1>7 DEF TakePing, Remembered, TypeOK
  <2> QED
    BY <1>2, <1>4, <1>7, <2>1, <2>2 DEF TakePing, Arrived, Arrives, TypeOK, menuVars, linkVars, engineVars
<1>8. CASE Refuse(c) \/ RunRequest(c) \/ SetWorld(c) \/ Unknown(c)
  <2>1. toClient' \in [Clients -> Seq(Answers)]
    BY <1>3, <1>8 DEF Refuse, RunRequest, SetWorld, Unknown, Answers
  <2>2. Arrived(c) /\ UNCHANGED <<modded, settings, effect>>
    BY <1>8 DEF Refuse, RunRequest, SetWorld, Unknown
  <2> QED
    BY <1>2, <1>4, <2>1, <2>2 DEF Arrived, Arrives, TypeOK, menuVars, linkVars, engineVars
<1>9. CASE SetPawn(c)
  <2>1. toClient' \in [Clients -> Seq(Answers)]
    BY <1>3, <1>9 DEF SetPawn, Answers
  <2>2. Arrived(c) /\ IsSet(c) /\ UNCHANGED modded
    BY <1>9 DEF SetPawn
  <2>3. Joined(c)[1].value \in 0..MaxValue /\ 0 \in 0..MaxValue
    BY <2>2, SetArrives, HostLinkAssumption
  <2>4. settings' \in [Clients -> [PawnToggles -> 0..MaxValue]]
    BY <1>9, <2>3 DEF SetPawn, TypeOK
  <2>5. effect' \in [Clients -> [PawnToggles -> 0..MaxValue]]
    BY <1>9, <2>3 DEF SetPawn, Removed, TypeOK
  <2> QED
    BY <1>2, <1>4, <2>1, <2>2, <2>4, <2>5 DEF Arrived, Arrives, TypeOK, menuVars, linkVars, engineVars
<1> QED
  BY <1>5, <1>6, <1>7, <1>8, <1>9 DEF Serve

LEMMA TypeHost ==
  ASSUME TypeOK, HostTick \/ Engine
  PROVE  TypeOK'
<1>1. 0 \in 0..MaxValue /\ None \in [PawnToggles -> 0..MaxValue]
  BY HostLinkAssumption DEF None
<1>2. events < MaxEvents => events + 1 \in 0..MaxEvents
  BY HostLinkAssumption DEF TypeOK
<1>3. CASE HostTick
  <2>1. toClient' \in [Clients -> Seq(Answers)]
    <3>1. \A c \in Clients : /\ toClient[c] \in Seq(Answers)
                             /\ Append(toClient[c], "pong") \in Seq(Answers)
                             /\ Append(toClient[c], "refused") \in Seq(Answers)
      BY DEF TypeOK, Answers
    <3> QED
      BY <1>3, <3>1 DEF HostTick, TypeOK
  <2>2. settings' \in [Clients -> [PawnToggles -> 0..MaxValue]]
    BY <1>1, <1>3 DEF HostTick, TypeOK
  <2>3. effect' \in [Clients -> [PawnToggles -> 0..MaxValue]]
    BY <1>1, <1>3 DEF HostTick, Applied, TakenBack, Reaches, TypeOK
  <2> QED
    BY <1>3, <2>1, <2>2, <2>3 DEF HostTick, TypeOK, menuVars, linkVars, engineVars
<1>4. CASE SwitchAccept
  BY <1>2, <1>4 DEF SwitchAccept, TypeOK, menuVars, linkVars, hostVars
<1>5. CASE UnloadHost
  <2>1. /\ modded' \subseteq Clients /\ pieces' \in [Clients -> Seq(Texts)]
        /\ settings' \in [Clients -> [PawnToggles -> 0..MaxValue]]
        /\ upsets' \subseteq {"slow", "switched", "unloaded"}
    BY <1>1, <1>5 DEF UnloadHost, TypeOK
  <2> QED
    BY <1>2, <1>5, <2>1 DEF UnloadHost, TypeOK, menuVars, linkVars
<1>6. CASE LoadHost
  BY <1>2, <1>6 DEF LoadHost, TypeOK, menuVars, linkVars, hostVars
<1>7. ASSUME NEW c \in Clients, Travel(c)
      PROVE  TypeOK'
  <2>0. \A S : <<>> \in Seq(S)
    OBVIOUS
  <2>1. /\ pieces' \in [Clients -> Seq(Texts)] /\ toClient' \in [Clients -> Seq(Answers)]
        /\ toHost' \in [Clients -> Seq([more : BOOLEAN, text : Texts])]
    <3> HIDE DEF Answers, Texts
    <3>1. pieces' \in [Clients -> Seq(Texts)]
      BY <1>7, <2>0 DEF Travel, TypeOK
    <3>2. toClient' \in [Clients -> Seq(Answers)]
      BY <1>7, <2>0 DEF Travel, TypeOK
    <3>3. toHost' \in [Clients -> Seq([more : BOOLEAN, text : Texts])]
      BY <1>7, <2>0 DEF Travel, TypeOK
    <3> QED
      BY <3>1, <3>2, <3>3
  <2>2. /\ settings' \in [Clients -> [PawnToggles -> 0..MaxValue]]
        /\ effect' \in [Clients -> [PawnToggles -> 0..MaxValue]]
    BY <1>1, <1>7 DEF Travel, TypeOK
  <2> QED
    BY <1>2, <1>7, <2>1, <2>2 DEF Travel, TypeOK, menuVars
<1>8. ASSUME NEW c \in Clients, ChangePawn(c)
      PROVE  TypeOK'
  <2>1. effect' \in [Clients -> [PawnToggles -> 0..MaxValue]] /\ pawn' \in [Clients -> BOOLEAN]
    BY <1>1, <1>8 DEF ChangePawn, TypeOK
  <2> QED
    BY <1>2, <1>8, <2>1 DEF ChangePawn, TypeOK, menuVars, linkVars
<1>9. CASE OwnOff
  <2>1. effect' \in [Clients -> [PawnToggles -> 0..MaxValue]]
    BY <1>1, <1>9 DEF OwnOff, TypeOK
  <2> QED
    BY <1>9, <2>1 DEF OwnOff, TypeOK, menuVars, linkVars, engineVars
<1> QED
  BY <1>3, <1>4, <1>5, <1>6, <1>7, <1>8, <1>9 DEF Engine

LEMMA TypeStep == TypeOK /\ [Next]_vars => TypeOK'
<1> SUFFICES ASSUME TypeOK, [Next]_vars PROVE TypeOK'
  OBVIOUS
<1>1. CASE UNCHANGED vars
  BY <1>1 DEF TypeOK, vars, menuVars, linkVars, hostVars, engineVars
<1> QED
  BY <1>1, TypeUpdate, TypeUser, TypeHear, TypeServe, TypeHost DEF Next

(* Each variable of the link has its type in every state.                  *)
THEOREM TypeCorrect == Spec => []TypeOK
<1> QED
  BY TypeInit, TypeStep, PTL DEF Spec

-----------------------------------------------------------------------------
(* What a pawn has and remove can take off belongs to a setting; and a     *)
(* host that saw Accept Client Requests off left none of it.               *)
Effects ==
  "unloaded" \notin upsets =>
    /\ loaded
    /\ \A c \in Clients, t \in PawnToggles :
         effect[c][t] # 0 /\ t \in Undone => settings[c][t] # 0 /\ pawn[c] /\ accepting

LEMMA EffectsInit == Init => Effects
  BY DEF Init, Effects, None

LEMMA EffectsStep == TypeOK /\ Effects /\ [Next]_vars => Effects'
<1> SUFFICES ASSUME TypeOK, Effects, [Next]_vars PROVE Effects'
  OBVIOUS
<1>1. CASE UNCHANGED <<hostVars, engineVars>>
  BY <1>1 DEF Effects, hostVars, engineVars
<1>2. ASSUME NEW c \in Clients, Update(c) \/ User(c) \/ Hear(c)
      PROVE  Effects'
  <2>1. UNCHANGED <<loaded, accepting, settings, pawn, effect>>
    BY <1>2 DEF Update, User, Hear, Ask, GiveUp, Wait, NotReady, TimeOut, Sync, Click, CheckHost, Run,
                Pong, Refused, RequestRefused, Told, Receive, hostVars, engineVars
  <2>2. upsets \subseteq upsets'
    BY <1>2 DEF Update, User, Hear, Ask, GiveUp, Wait, NotReady, TimeOut, Sync, Click, CheckHost, Run,
                Pong, Refused, RequestRefused, Told, Receive, hostVars, engineVars
  <2> QED
    BY <2>1, <2>2 DEF Effects
<1>3. ASSUME NEW c \in Clients, Serve(c)
      PROVE  Effects'
  <2>1. UNCHANGED <<engineVars, accepting>>
    BY <1>3 DEF Serve, Dropped, TakePiece, TakePing, Refuse, RunRequest, SetWorld, SetPawn, Unknown,
                Arrived, Arrives, hostVars
  <2>2. CASE ~SetPawn(c)
    <3>1. UNCHANGED <<settings, effect>>
      BY <1>3, <2>2 DEF Serve, Dropped, TakePiece, TakePing, Refuse, RunRequest, SetWorld, Unknown, hostVars
    <3> QED
      BY <2>1, <3>1 DEF Effects, engineVars
  <2>3. CASE SetPawn(c)
    <3> DEFINE u == Joined(c)[1].toggle
               w == Joined(c)[1].value
    <3>1. /\ settings' = [settings EXCEPT ![c][u] = w]
          /\ effect' = IF w = 0 /\ pawn[c] /\ u \in Undone THEN [effect EXCEPT ![c][u] = 0] ELSE effect
      BY <2>3 DEF SetPawn, Removed
    <3> HIDE DEF u, w
    <3>2. ASSUME "unloaded" \notin upsets, NEW d \in Clients, NEW t \in PawnToggles, t \in Undone
          PROVE  effect'[d][t] # 0 => effect[d][t] # 0 /\ (settings'[d][t] = settings[d][t] \/ settings'[d][t] # 0)
      <4>1. CASE d = c /\ t = u
        <5>1. effect[d][t] # 0 => pawn[c]
          BY <3>2, <4>1 DEF Effects
        <5> QED
          BY <3>1, <3>2, <4>1, <5>1 DEF TypeOK
      <4>2. CASE ~(d = c /\ t = u)
        BY <3>1, <4>2 DEF TypeOK
      <4> QED
        BY <4>1, <4>2
    <3> QED
      BY <2>1, <3>2 DEF Effects, engineVars
  <2> QED
    BY <2>2, <2>3
<1>4. CASE HostTick
  <2>1. CASE accept
    <3>1. /\ accepting' = accept /\ UNCHANGED <<engineVars, settings>>
          /\ \A c \in Clients, t \in PawnToggles :
               effect'[c][t] = IF Reaches(c, t, Lasting) THEN settings[c][t] ELSE effect[c][t]
      BY <1>4, <2>1 DEF HostTick, Applied
    <3> QED
      BY <2>1, <3>1 DEF Effects, Reaches, engineVars
  <2>2. CASE ~accept
    <3>1. /\ UNCHANGED engineVars
          /\ \A c \in Clients, t \in PawnToggles :
               effect'[c][t] = IF Reaches(c, t, Undone) THEN 0 ELSE effect[c][t]
      BY <1>4, <2>2 DEF HostTick, TakenBack
    <3>2. "unloaded" \notin upsets => \A c \in Clients, t \in PawnToggles : t \in Undone => effect'[c][t] = 0
      BY <3>1 DEF Effects, Reaches
    <3> QED
      BY <3>1, <3>2 DEF Effects, engineVars
  <2> QED
    BY <2>1, <2>2
<1>5. CASE SwitchAccept
  BY <1>5 DEF SwitchAccept, Effects, hostVars
<1>6. CASE UnloadHost
  BY <1>6 DEF UnloadHost, Effects
<1>7. CASE LoadHost
  BY <1>7 DEF LoadHost, Effects, hostVars
<1>8. ASSUME NEW c \in Clients, Travel(c) \/ ChangePawn(c)
      PROVE  Effects'
  <2>1. /\ UNCHANGED <<loaded, accepting, upsets>>
        /\ effect' = [effect EXCEPT ![c] = None]
        /\ \A d \in Clients : d # c => settings'[d] = settings[d] /\ pawn'[d] = pawn[d]
    BY <1>8 DEF Travel, ChangePawn, TypeOK
  <2>2. ASSUME NEW d \in Clients, NEW t \in PawnToggles, effect'[d][t] # 0
        PROVE  d # c /\ effect'[d] = effect[d]
    <3>1. \A x \in PawnToggles : None[x] = 0
      BY DEF None
    <3> QED
      BY <2>1, <2>2, <3>1 DEF TypeOK
  <2> QED
    BY <2>1, <2>2 DEF Effects
<1>9. CASE OwnOff
  <2>1. /\ UNCHANGED <<engineVars, accepting, settings>>
        /\ \A c \in Clients, t \in PawnToggles : t \in Undone => effect'[c][t] = effect[c][t]
    BY <1>9 DEF OwnOff
  <2> QED
    BY <2>1 DEF Effects, engineVars
<1> QED
  BY <1>1, <1>2, <1>3, <1>4, <1>5, <1>6, <1>7, <1>8, <1>9 DEF Next, Engine, vars

LEMMA EffectsHold == Spec => [](TypeOK /\ Effects)
<1>1. Init => TypeOK /\ Effects
  BY TypeInit, EffectsInit
<1>2. (TypeOK /\ Effects) /\ [Next]_vars => (TypeOK /\ Effects)'
  BY TypeStep, EffectsStep
<1> QED
  BY <1>1, <1>2, PTL DEF Spec

(* Unless the host unloads the mod, all that a toggle whose remove undoes  *)
(* what its apply does left on a client's pawn belongs to a toggle the     *)
(* client has on there.                                                    *)
THEOREM AppliedIsOn == Spec => []EffectsBelong
<1>1. TypeOK /\ Effects => EffectsBelong
  BY HostLinkAssumption DEF Effects, EffectsBelong
<1> QED
  BY <1>1, EffectsHold, PTL

(* A host that sees Accept Client Requests off has taken back from every   *)
(* pawn what the toggles' remove can, of whichever clients and toggles.    *)
THEOREM OffIsTakenBack == Spec => []OffTakesBack
<1>1. TypeOK /\ Effects => OffTakesBack
  BY HostLinkAssumption DEF Effects, OffTakesBack
<1> QED
  BY <1>1, EffectsHold, PTL

-----------------------------------------------------------------------------
Among(x, m) == \E i \in 1..Len(m) : m[i] = x

LEMMA AmongAnswers ==
  ASSUME NEW m \in Seq(Answers)
  PROVE  /\ \A x \in Answers : \A y : Among(y, Append(m, x)) => Among(y, m) \/ y = x
         /\ m # <<>> => Among(Head(m), m) /\ Tail(m) \in Seq(Answers)
         /\ \A y : m # <<>> /\ Among(y, Tail(m)) => Among(y, m)
         /\ \A y : ~Among(y, <<>>)
<1>1. ASSUME NEW x \in Answers, NEW y, Among(y, Append(m, x))
      PROVE  Among(y, m) \/ y = x
  <2>1. /\ Len(Append(m, x)) = Len(m) + 1 /\ Append(m, x)[Len(m) + 1] = x /\ Len(m) \in Nat
        /\ \A i \in 1..Len(m) : Append(m, x)[i] = m[i]
    BY AppendProperties
  <2>2. PICK i \in 1..Len(Append(m, x)) : Append(m, x)[i] = y
    BY <1>1 DEF Among
  <2>3. i \in 1..Len(m) \/ i = Len(m) + 1
    BY <2>1
  <2> QED
    BY <2>1, <2>2, <2>3 DEF Among
<1>2. ASSUME m # <<>>
      PROVE  Among(Head(m), m) /\ Tail(m) \in Seq(Answers)
  <2>1. Len(m) \in Nat /\ Len(m) > 0 /\ Head(m) = m[1]
    BY <1>2, HeadTailProperties, LenProperties
  <2> QED
    BY <1>2, <2>1 DEF Among
<1>3. ASSUME NEW y, m # <<>>, Among(y, Tail(m))
      PROVE  Among(y, m)
  <2>1. /\ Len(m) \in Nat /\ Len(Tail(m)) = Len(m) - 1
        /\ \A i \in 1..Len(m) - 1 : Tail(m)[i] = m[i + 1]
    BY <1>3, HeadTailProperties, LenProperties
  <2>2. PICK i \in 1..Len(Tail(m)) : Tail(m)[i] = y
    BY <1>3 DEF Among
  <2>3. i + 1 \in 1..Len(m) /\ m[i + 1] = y
    BY <2>1, <2>2
  <2> QED
    BY <2>3 DEF Among
<1>4. \A y : ~Among(y, <<>>)
  BY DEF Among
<1> QED
  BY <1>1, <1>2, <1>3, <1>4

(* What a client's update and user send: nothing, a ping, a request in two *)
(* pieces, or what changed.                                                *)
LEMMA ClientSends ==
  ASSUME TypeOK, NEW c \in Clients, Update(c) \/ User(c)
  PROVE  /\ \E s \in Seq(Messages) :
              /\ toHost' = [toHost EXCEPT ![c] = toHost[c] \o s]
              /\ WholeRequests(s, <<>>)
              /\ \/ s = <<>>
                 \/ s = <<Whole(Ping)>>
                 \/ s = <<Piece(RunPart(1)), Whole(RunPart(2))>> /\ Run(c)
                 \/ s = SetToSeq(Changes(sent[c], want[c])) /\ Sync(c)
         /\ UNCHANGED <<hostVars, loaded, accept, pawn, toClient>>
<1>0. toHost[c] \in Seq(Messages) /\ sent[c] \in [Toggles -> 0..MaxValue] /\ want[c] \in [Toggles -> 0..MaxValue]
  BY DEF TypeOK, Messages
<1>1. UNCHANGED <<hostVars, loaded, accept, pawn, toClient>>
  BY DEF Update, User, Ask, GiveUp, Wait, NotReady, TimeOut, Sync, Click, CheckHost, Run, engineVars
<1>2. CASE Ask(c) \/ CheckHost(c)
  <2>1. toHost' = [toHost EXCEPT ![c] = Append(toHost[c], Whole(Ping))]
    BY <1>2 DEF Ask, CheckHost
  <2>2. Append(toHost[c], Whole(Ping)) = toHost[c] \o <<Whole(Ping)>>
    BY <1>0, TextKinds, AppendIsConcat
  <2>3. toHost' = [toHost EXCEPT ![c] = toHost[c] \o <<Whole(Ping)>>]
    BY <2>1, <2>2
  <2> QED
    BY <1>1, <2>3, SentWhole
<1>3. CASE Run(c)
  <2>1. toHost' = [toHost EXCEPT ![c] = toHost[c] \o <<Piece(RunPart(1)), Whole(RunPart(2))>>]
    BY <1>3 DEF Run
  <2> QED
    BY <1>1, <1>3, <2>1, SentWhole
<1>4. CASE Sync(c)
  <2>1. toHost' = [toHost EXCEPT ![c] = toHost[c] \o SetToSeq(Changes(sent[c], want[c]))]
    BY <1>4 DEF Sync, Changes
  <2>2. /\ SetToSeq(Changes(sent[c], want[c])) \in Seq(Messages)
        /\ WholeRequests(SetToSeq(Changes(sent[c], want[c])), <<>>)
    BY <1>0, ChangesWhole
  <2> QED
    BY <1>1, <1>4, <2>1, <2>2
<1>5. CASE UNCHANGED toHost
  <2>1. toHost[c] \o <<>> = toHost[c]
    BY <1>0, ConcatEmptySeq
  <2>2. toHost' = [toHost EXCEPT ![c] = toHost[c] \o <<>>]
    BY <1>5, <2>1 DEF TypeOK
  <2> QED
    BY <1>1, <2>2, SentWhole
<1>6. Ask(c) \/ CheckHost(c) \/ Run(c) \/ Sync(c) \/ UNCHANGED toHost
  BY DEF Update, User, GiveUp, Wait, TimeOut, Click
<1> QED
  BY <1>2, <1>3, <1>4, <1>5, <1>6

-----------------------------------------------------------------------------
(* What is on its way to a host that never unloaded is whole, and none of  *)
(* it was unknown.                                                         *)
Requests ==
  "unloaded" \notin upsets =>
    /\ loaded
    /\ \A c \in Clients : WholeRequests(toHost[c], pieces[c]) /\ ~Among("unknown:", toClient[c])

LEMMA RequestsInit == Init => Requests
<1> SUFFICES ASSUME Init PROVE Requests
  OBVIOUS
<1>1. WholeRequests(<<>>, <<>>) /\ ~Among("unknown:", <<>>)
  BY SentWhole DEF Among
<1> QED
  BY <1>1 DEF Init, Requests

(* What the host makes of the next message of one whose requests are whole.*)
LEMMA HostTakes ==
  ASSUME TypeOK, NEW c \in Clients, toHost[c] # <<>>, WholeRequests(toHost[c], pieces[c]), Arrives(c),
         Serve(c)
  PROVE  /\ WholeRequests(toHost'[c], pieces'[c])
         /\ ~Unknown(c)
         /\ \A d \in Clients : d # c => pieces'[d] = pieces[d] /\ toHost'[d] = toHost[d]
<1>1. toHost[c] \in Seq(Messages) /\ pieces[c] \in Seq(Texts)
  BY DEF TypeOK, Messages
<1>2. loaded /\ toHost' = [toHost EXCEPT ![c] = Tail(toHost[c])] /\ toHost'[c] = Tail(toHost[c])
  BY DEF Arrives, TypeOK
<1>3. CASE /\ Head(toHost[c]).more
           /\ WholeRequests(Tail(toHost[c]), Append(pieces[c], Head(toHost[c]).text))
  <2>1. TakePiece(c)
    BY <1>2, <1>3 DEF Serve, TakePing, Refuse, RunRequest, SetWorld, SetPawn, Unknown, Arrived, Dropped
  <2>2. pieces' = [pieces EXCEPT ![c] = Append(pieces[c], Head(toHost[c]).text)]
    <3>1. pieces[c] = <<>> \/ pieces[c] = <<RunPart(1)>>
      BY DEF WholeRequests
    <3>2. Len(<<>>) = 0 /\ Len(<<RunPart(1)>>) = 1
      OBVIOUS
    <3>3. ~(Len(pieces[c]) > MaxPieces)
      <4>1. Len(pieces[c]) = 0 \/ Len(pieces[c]) = 1
        BY <3>1, <3>2, Zenon
      <4>2. MaxPieces \in Nat /\ MaxPieces # 0
        BY HostLinkAssumption
      <4>3. ~(0 > MaxPieces) /\ ~(1 > MaxPieces)
        BY <4>2
      <4> QED
        BY <4>1, <4>3, Zenon
    <3>4. pieces' = [pieces EXCEPT ![c] = IF Len(pieces[c]) > MaxPieces THEN <<>> ELSE Joined(c)]
      BY <2>1 DEF TakePiece
    <3> QED
      BY <3>3, <3>4 DEF Joined
  <2> QED
    BY <1>2, <1>3, <2>2 DEF Unknown, Arrived, TypeOK
<1>4. CASE /\ ~Head(toHost[c]).more /\ WholeRequests(Tail(toHost[c]), <<>>)
           /\ \/ pieces[c] = <<>> /\ Head(toHost[c]) = Whole(Ping)
              \/ pieces[c] = <<>> /\ \E t \in Toggles, v \in 0..MaxValue : Head(toHost[c]) = SetText(t, v)
              \/ pieces[c] = <<RunPart(1)>> /\ Head(toHost[c]) = Whole(RunPart(2))
  <2>1. Arrived(c)
    BY <1>2, <1>4 DEF Serve, TakePiece, TakePing, Refuse, RunRequest, SetWorld, SetPawn, Unknown, Dropped
  <2>2. pieces' = [pieces EXCEPT ![c] = <<>>]
    BY <2>1 DEF Arrived, Taken
  <2>3. Joined(c) \in {<<Ping>>, LongRun} \/ IsSet(c)
    <3>1. CASE pieces[c] = <<>> /\ Head(toHost[c]) = Whole(Ping)
      <4>1. Joined(c) = Append(<<>>, Ping)
        BY <3>1, TextKinds DEF Joined
      <4>2. \A x : Append(<<>>, x) = <<x>>
        OBVIOUS
      <4> QED
        BY <4>1, <4>2
    <3>2. CASE pieces[c] = <<>> /\ \E t \in Toggles, v \in 0..MaxValue : Head(toHost[c]) = SetText(t, v)
      <4>1. PICK t \in Toggles, v \in 0..MaxValue : Head(toHost[c]) = SetText(t, v)
        BY <3>2
      <4>2. Head(toHost[c]).text = Set(t, v) /\ Set(t, v).kind = "set"
        BY <4>1, TextKinds
      <4>3. Joined(c) = <<Set(t, v)>>
        BY <3>2, <4>2 DEF Joined
      <4>4. Len(<<Set(t, v)>>) = 1 /\ <<Set(t, v)>>[1] = Set(t, v)
        OBVIOUS
      <4> QED
        BY <4>2, <4>3, <4>4 DEF IsSet
    <3>3. CASE pieces[c] = <<RunPart(1)>> /\ Head(toHost[c]) = Whole(RunPart(2))
      <4>1. Joined(c) = Append(<<RunPart(1)>>, RunPart(2))
        BY <3>3, TextKinds DEF Joined
      <4>2. Append(<<RunPart(1)>>, RunPart(2)) = <<RunPart(1), RunPart(2)>>
        <5> DEFINE p == Append(<<RunPart(1)>>, RunPart(2))
                   r == <<RunPart(1), RunPart(2)>>
        <5>1. RunPart(1) \in Texts /\ RunPart(2) \in Texts
          BY DEF Texts
        <5>2. <<RunPart(1)>> \in Seq(Texts) /\ Len(<<RunPart(1)>>) = 1 /\ <<RunPart(1)>>[1] = RunPart(1)
          BY <5>1
        <5>3. p \in Seq(Texts) /\ Len(p) = 2 /\ p[1] = RunPart(1) /\ p[2] = RunPart(2)
          BY <5>1, <5>2, AppendProperties
        <5>4. r \in Seq(Texts) /\ Len(r) = 2 /\ r[1] = RunPart(1) /\ r[2] = RunPart(2)
          BY <5>1
        <5> HIDE DEF p, r
        <5>5. \A i \in 1..Len(p) : p[i] = r[i]
          <6>1. \A i \in 1..2 : i = 1 \/ i = 2
            OBVIOUS
          <6> QED
            BY <5>3, <5>4, <6>1
        <5>6. p = r
          BY <5>3, <5>4, <5>5, SeqEqual
        <5> QED
          BY <5>6 DEF p, r
      <4>3. Joined(c) = LongRun
        BY <4>1, <4>2 DEF LongRun
      <4> QED
        BY <4>3
    <3> QED
      BY <1>4, <3>1, <3>2, <3>3
  <2>4. ~Unknown(c)
    BY <2>3 DEF Unknown
  <2> QED
    BY <1>2, <1>4, <2>2, <2>4 DEF TypeOK
<1> QED
  BY <1>1, <1>3, <1>4, TakeWhole

(* Every answer of the host is one of its own, behind those on their way.  *)
LEMMA HostAnswers ==
  ASSUME TypeOK, NEW c \in Clients, Serve(c)
  PROVE  /\ \A d \in Clients : \A y : Among(y, toClient'[d]) =>
              \/ Among(y, toClient[d])
              \/ y = "unknown:" /\ Unknown(c)
              \/ y = "pong" /\ accept
              \/ y = "refused" /\ ~accept
              \/ y = "refused:" /\ ~accept
              \/ y = "done:"
         /\ \A d \in Clients : toClient'[d] # <<>> => toClient[d] # <<>> \/ d = c
         /\ toHost[c] # <<>> /\ toHost' = [toHost EXCEPT ![c] = Tail(toHost[c])]
         /\ UNCHANGED <<answered, known, sent, want, accepting, engineVars>>
<1>1. /\ toHost[c] # <<>> /\ toHost' = [toHost EXCEPT ![c] = Tail(toHost[c])]
      /\ UNCHANGED <<answered, known, sent, want, accepting, engineVars>>
  BY DEF Serve, Dropped, TakePiece, TakePing, Refuse, RunRequest, SetWorld, SetPawn, Unknown,
         Arrived, Arrives, menuVars, linkVars, hostVars
<1>2. \/ UNCHANGED toClient
      \/ \E x \in Answers : /\ Answer(c, x)
                            /\ \/ x = "unknown:" /\ Unknown(c)
                               \/ x = "pong" /\ accept
                               \/ x = "refused" /\ ~accept
                               \/ x = "refused:" /\ ~accept
                               \/ x = "done:"
  <2>1. CASE TakePing(c)
    <3>1. Answer(c, IF accept THEN "pong" ELSE "refused") /\ accept \in BOOLEAN
      BY <2>1 DEF TakePing, TypeOK
    <3> QED
      BY <3>1 DEF Answers
  <2> QED
    BY <2>1 DEF Serve, Dropped, TakePiece, Refuse, RunRequest, SetWorld, SetPawn, Unknown, Answers
<1>3. CASE UNCHANGED toClient
  BY <1>1, <1>3
<1>4. ASSUME NEW x \in Answers, Answer(c, x),
             \/ x = "unknown:" /\ Unknown(c)
             \/ x = "pong" /\ accept
             \/ x = "refused" /\ ~accept
             \/ x = "refused:" /\ ~accept
             \/ x = "done:"
      PROVE  /\ \A d \in Clients : \A y : Among(y, toClient'[d]) => Among(y, toClient[d]) \/ y = x
             /\ \A d \in Clients : toClient'[d] # <<>> => toClient[d] # <<>> \/ d = c
  <2>1. toClient[c] \in Seq(Answers)
    BY DEF TypeOK
  <2>2. /\ toClient'[c] = Append(toClient[c], x)
        /\ \A d \in Clients : d # c => toClient'[d] = toClient[d]
    BY <1>4 DEF Answer, TypeOK
  <2>3. \A y : Among(y, Append(toClient[c], x)) => Among(y, toClient[c]) \/ y = x
    BY <2>1, AmongAnswers
  <2>4. ASSUME NEW d \in Clients, NEW y, Among(y, toClient'[d])
        PROVE  Among(y, toClient[d]) \/ y = x
    BY <2>2, <2>3, <2>4
  <2> QED
    BY <2>2, <2>4
<1> QED
  BY <1>1, <1>2, <1>3, <1>4

(* The host's update answers all it remembers when it sees a switch.       *)
LEMMA TickAnswers ==
  ASSUME TypeOK, HostTick
  PROVE  \A d \in Clients :
           /\ \A y : Among(y, toClient'[d]) =>
                \/ Among(y, toClient[d])
                \/ y = "pong" /\ accept
                \/ y = "refused" /\ ~accept
           /\ toClient'[d] # <<>> => toClient[d] # <<>> \/ d \in modded
<1> SUFFICES ASSUME NEW d \in Clients
             PROVE  /\ \A y : Among(y, toClient'[d]) =>
                         \/ Among(y, toClient[d])
                         \/ y = "pong" /\ accept
                         \/ y = "refused" /\ ~accept
                    /\ toClient'[d] # <<>> => toClient[d] # <<>> \/ d \in modded
  OBVIOUS
<1>1. \/ toClient'[d] = toClient[d]
      \/ d \in modded /\ accept /\ toClient'[d] = Append(toClient[d], "pong")
      \/ d \in modded /\ ~accept /\ toClient'[d] = Append(toClient[d], "refused")
  BY DEF HostTick, TypeOK
<1>2. toClient[d] \in Seq(Answers) /\ "pong" \in Answers /\ "refused" \in Answers
  BY DEF TypeOK, Answers
<1>3. \A y : /\ Among(y, Append(toClient[d], "pong")) => Among(y, toClient[d]) \/ y = "pong"
             /\ Among(y, Append(toClient[d], "refused")) => Among(y, toClient[d]) \/ y = "refused"
  BY <1>2, AmongAnswers
<1> QED
  BY <1>1, <1>3

LEMMA RequestsStep == TypeOK /\ Requests /\ [Next]_vars => Requests'
<1> SUFFICES ASSUME TypeOK, Requests, [Next]_vars, "unloaded" \notin upsets'
             PROVE  /\ loaded'
                    /\ \A d \in Clients : /\ WholeRequests(toHost'[d], pieces'[d])
                                          /\ ~Among("unknown:", toClient'[d])
  BY DEF Requests
<1>0. "unloaded" \notin upsets /\ loaded /\ \A d \in Clients : WholeRequests(toHost[d], pieces[d]) /\ ~Among("unknown:", toClient[d])
  <2>1. upsets \subseteq upsets'
    BY DEF Next, Update, User, Hear, Serve, Engine, Ask, GiveUp, Wait, NotReady, TimeOut, Sync, Click,
           CheckHost, Run, Pong, Refused, RequestRefused, Told, Receive, Dropped, TakePiece, TakePing,
           Refuse, RunRequest, SetWorld, SetPawn, Unknown, Arrived, Arrives, HostTick, SwitchAccept,
           OwnOff, UnloadHost, LoadHost, Travel, ChangePawn, engineVars, vars
  <2> QED
    BY <2>1 DEF Requests
<1>1. CASE UNCHANGED <<loaded, toHost, pieces, toClient>>
  BY <1>0, <1>1
<1>2. ASSUME NEW c \in Clients, Update(c) \/ User(c)
      PROVE  /\ loaded'
             /\ \A d \in Clients : /\ WholeRequests(toHost'[d], pieces'[d])
                                   /\ ~Among("unknown:", toClient'[d])
  <2>1. PICK s \in Seq(Messages) : /\ toHost' = [toHost EXCEPT ![c] = toHost[c] \o s]
                                   /\ WholeRequests(s, <<>>)
    BY <1>2, ClientSends
  <2>2. UNCHANGED <<loaded, pieces, toClient>>
    BY <1>2, ClientSends DEF hostVars
  <2>3. WholeRequests(toHost[c] \o s, pieces[c])
    <3>1. toHost[c] \in Seq(Messages)
      BY DEF TypeOK, Messages
    <3> QED
      BY <1>0, <2>1, <3>1, JoinWhole
  <2>4. \A d \in Clients : toHost'[d] = IF d = c THEN toHost[c] \o s ELSE toHost[d]
    BY <2>1 DEF TypeOK
  <2> QED
    BY <1>0, <2>2, <2>3, <2>4
<1>3. ASSUME NEW c \in Clients, Hear(c)
      PROVE  /\ loaded'
             /\ \A d \in Clients : /\ WholeRequests(toHost'[d], pieces'[d])
                                   /\ ~Among("unknown:", toClient'[d])
  <2>1. /\ toClient[c] # <<>> /\ toClient' = [toClient EXCEPT ![c] = Tail(toClient[c])]
        /\ UNCHANGED <<loaded, toHost, pieces>>
    BY <1>3 DEF Hear, Pong, Refused, RequestRefused, Told, Receive, hostVars, engineVars
  <2>2. ~Among("unknown:", Tail(toClient[c]))
    <3>1. toClient[c] \in Seq(Answers)
      BY DEF TypeOK
    <3> QED
      BY <1>0, <2>1, <3>1, AmongAnswers
  <2>3. \A d \in Clients : toClient'[d] = IF d = c THEN Tail(toClient[c]) ELSE toClient[d]
    BY <2>1 DEF TypeOK
  <2> QED
    BY <1>0, <2>1, <2>2, <2>3
<1>4. ASSUME NEW c \in Clients, Serve(c)
      PROVE  /\ loaded'
             /\ \A d \in Clients : /\ WholeRequests(toHost'[d], pieces'[d])
                                   /\ ~Among("unknown:", toClient'[d])
  <2>1. Arrives(c)
    BY <1>0, <1>4 DEF Serve, Dropped, TakePiece, TakePing, Refuse, RunRequest, SetWorld, SetPawn, Unknown,
                      Arrived
  <2>2. toHost[c] # <<>> /\ loaded'
    BY <1>0, <2>1 DEF Arrives, engineVars
  <2>3. /\ WholeRequests(toHost'[c], pieces'[c]) /\ ~Unknown(c)
        /\ \A d \in Clients : d # c => pieces'[d] = pieces[d] /\ toHost'[d] = toHost[d]
    BY <1>0, <1>4, <2>1, <2>2, HostTakes
  <2>4. \A d \in Clients : ~Among("unknown:", toClient'[d])
    BY <1>0, <1>4, <2>3, HostAnswers
  <2>5. \A d \in Clients : WholeRequests(toHost'[d], pieces'[d])
    BY <1>0, <2>3
  <2> QED
    BY <2>2, <2>4, <2>5
<1>5. CASE HostTick
  <2>1. UNCHANGED <<loaded, toHost, pieces>>
    BY <1>5 DEF HostTick, engineVars
  <2>2. \A d \in Clients : ~Among("unknown:", toClient'[d])
    BY <1>0, <1>5, TickAnswers
  <2> QED
    BY <1>0, <2>1, <2>2
<1>6. CASE UnloadHost
  BY <1>6 DEF UnloadHost
<1>7. CASE LoadHost
  BY <1>0, <1>7 DEF LoadHost
<1>8. ASSUME NEW c \in Clients, Travel(c)
      PROVE  /\ loaded'
             /\ \A d \in Clients : /\ WholeRequests(toHost'[d], pieces'[d])
                                   /\ ~Among("unknown:", toClient'[d])
  <2>1. /\ UNCHANGED loaded
        /\ \A d \in Clients : \/ toHost'[d] = <<>> /\ pieces'[d] = <<>> /\ toClient'[d] = <<>>
                              \/ toHost'[d] = toHost[d] /\ pieces'[d] = pieces[d] /\ toClient'[d] = toClient[d]
    BY <1>8 DEF Travel, TypeOK
  <2>2. WholeRequests(<<>>, <<>>) /\ ~Among("unknown:", <<>>)
    BY SentWhole DEF Among
  <2> QED
    BY <1>0, <2>1, <2>2
<1>9. ASSUME SwitchAccept \/ OwnOff \/ \E c \in Clients : ChangePawn(c)
      PROVE  UNCHANGED <<loaded, toHost, pieces, toClient>>
  BY <1>9 DEF SwitchAccept, OwnOff, ChangePawn, hostVars, engineVars
<1> QED
  BY <1>1, <1>2, <1>3, <1>4, <1>5, <1>6, <1>7, <1>8, <1>9 DEF Next, Engine, vars, hostVars, engineVars

LEMMA RequestsHold == Spec => [](TypeOK /\ Requests)
<1>1. Init => TypeOK /\ Requests
  BY TypeInit, RequestsInit
<1>2. (TypeOK /\ Requests) /\ [Next]_vars => (TypeOK /\ Requests)'
  BY TypeStep, RequestsStep
<1> QED
  BY <1>1, <1>2, PTL DEF Spec

(* However requests in pieces mix with others, the host gets each as one:  *)
(* it knows every request, unless it loads the mod half way through one.   *)
THEOREM PiecesArriveAsOne == Spec => []RequestsWhole
<1>1. TypeOK /\ Requests => RequestsWhole
  <2> SUFFICES ASSUME TypeOK, Requests, "unloaded" \notin upsets, NEW c \in Clients,
                      NEW i \in DOMAIN toClient[c]
               PROVE  toClient[c][i] # "unknown:"
    BY DEF RequestsWhole
  <2>1. toClient[c] \in Seq(Answers)
    BY DEF TypeOK
  <2>2. i \in 1..Len(toClient[c])
    BY <2>1
  <2> QED
    BY <2>2 DEF Requests, Among
<1> QED
  BY <1>1, RequestsHold, PTL


-----------------------------------------------------------------------------
(* Of a client that is not linked the host runs nothing, and nothing but   *)
(* pings is on its way; what is on the way of a linked one makes the host  *)
(* run what it sent.                                                       *)
Unlinked(c) ==
  /\ settings[c] = None
  /\ \A i \in 1..Len(toHost[c]) : toHost[c][i] = Whole(Ping)
  /\ known[c] => sent[c] = Off
  /\ c \in modded \/ toHost[c] # <<>> \/ toClient[c] # <<>> => known[c]

LinkOf(c) ==
  /\ ~answered[c] => Unlinked(c)
  /\ answered[c] => accept /\ Matches(toHost[c], settings[c], sent[c])
  /\ Among("pong", toClient[c]) => accept
  /\ Among("refused", toClient[c]) \/ Among("refused:", toClient[c]) => ~accept

Links == upsets = {} => \A c \in Clients : LinkOf(c)

LEMMA LinksInit == Init => Links
<1> SUFFICES ASSUME Init, NEW c \in Clients PROVE LinkOf(c)
  BY DEF Links
<1>1. Len(<<>>) = 0 /\ \A y : ~Among(y, <<>>)
  BY DEF Among
<1> QED
  BY <1>1 DEF Init, LinkOf, Unlinked

(* Nothing of a pawn's in a ping or in a request in two pieces.            *)
LEMMA NoSettings ==
  LET R == <<Piece(RunPart(1)), Whole(RunPart(2))>> IN
  \A t \in PawnToggles, v \in 0..MaxValue :
    /\ \A i \in 1..Len(<<>>) : <<>>[i] # SetText(t, v)
    /\ \A i \in 1..Len(<<Whole(Ping)>>) : <<Whole(Ping)>>[i] # SetText(t, v)
    /\ \A i \in 1..Len(R) : R[i] # SetText(t, v)
<1> DEFINE R == <<Piece(RunPart(1)), Whole(RunPart(2))>>
           P == <<Whole(Ping)>>
<1> SUFFICES ASSUME NEW t \in PawnToggles, NEW v \in 0..MaxValue
             PROVE  /\ \A i \in 1..Len(<<>>) : <<>>[i] # SetText(t, v)
                    /\ \A i \in 1..Len(P) : P[i] # SetText(t, v)
                    /\ \A i \in 1..Len(R) : R[i] # SetText(t, v)
  OBVIOUS
<1>1. Len(P) = 1 /\ P[1] = Whole(Ping) /\ Len(R) = 2 /\ R[1] = Piece(RunPart(1)) /\ R[2] = Whole(RunPart(2))
  OBVIOUS
<1>2. /\ SetText(t, v) # Whole(Ping) /\ SetText(t, v) # Piece(RunPart(1)) /\ SetText(t, v) # Whole(RunPart(2))
  BY TextKinds DEF Toggles
<1>3. Len(<<>>) = 0
  OBVIOUS
<1> HIDE DEF P, R
<1>4. (\A i \in 1..Len(P) : i = 1) /\ (\A i \in 1..Len(R) : i = 1 \/ i = 2)
  BY <1>1
<1> QED
  BY <1>1, <1>2, <1>3, <1>4

(* A step leaves the link of a client it does not concern.                 *)
LEMMA LinkKept ==
  ASSUME NEW c \in Clients, LinkOf(c),
         UNCHANGED <<accept, answered[c], known[c], sent[c], settings[c], toHost[c], toClient[c]>>,
         c \in modded' => c \in modded
  PROVE  LinkOf(c)'
BY DEF LinkOf, Unlinked

LEMMA LinkSends ==
  ASSUME TypeOK, NEW c \in Clients, LinkOf(c), Update(c) \/ User(c), ~TimeOut(c)
  PROVE  LinkOf(c)'
<1>1. PICK s \in Seq(Messages) :
        /\ toHost' = [toHost EXCEPT ![c] = toHost[c] \o s]
        /\ \/ s = <<>>
           \/ s = <<Whole(Ping)>>
           \/ s = <<Piece(RunPart(1)), Whole(RunPart(2))>> /\ Run(c)
           \/ s = SetToSeq(Changes(sent[c], want[c])) /\ Sync(c)
  BY ClientSends
<1>2. /\ UNCHANGED <<settings, accept, modded, toClient, answered>>
      /\ toHost'[c] = toHost[c] \o s
      /\ toHost[c] \in Seq(Messages)
      /\ sent[c] \in [Toggles -> 0..MaxValue] /\ want[c] \in [Toggles -> 0..MaxValue]
  <2>1. UNCHANGED answered
    BY DEF Update, User, Ask, GiveUp, Wait, NotReady, Sync, Click, CheckHost, Run, linkVars
  <2> QED
    BY <1>1, <2>1, ClientSends DEF hostVars, TypeOK, Messages
<1>3. CASE answered[c]
  <2>1. CASE Sync(c)
    <3>1. sent'[c] = want[c] /\ toHost'[c] = toHost[c] \o SetToSeq(Changes(sent[c], want[c]))
      BY <2>1 DEF Sync, Changes, TypeOK
    <3>2. Matches(toHost'[c], settings'[c], sent'[c])
      BY <1>2, <1>3, <3>1, ChangesMatch DEF LinkOf
    <3> QED
      BY <1>2, <1>3, <3>2 DEF LinkOf
  <2>2. CASE ~Sync(c)
    <3>1. sent'[c] = sent[c]
      BY <1>3, <2>2 DEF Update, User, Ask, GiveUp, Wait, NotReady, Click, CheckHost, Run
    <3>2. \A i \in 1..Len(s), t \in PawnToggles, v \in 0..MaxValue : s[i] # SetText(t, v)
      BY <1>1, <2>2, NoSettings
    <3>3. Matches(toHost[c] \o s, settings[c], sent[c])
      BY <1>2, <1>3, <3>2, JoinMatches DEF LinkOf
    <3>4. Matches(toHost'[c], settings'[c], sent'[c])
      BY <1>2, <3>1, <3>3
    <3> QED
      BY <1>2, <1>3, <3>4 DEF LinkOf
  <2> QED
    BY <2>1, <2>2
<1>4. CASE ~answered[c]
  <2>1. s = <<>> \/ s = <<Whole(Ping)>>
    BY <1>1, <1>4 DEF Run, Sync
  <2>2. \A i \in 1..Len(toHost'[c]) : toHost'[c][i] = Whole(Ping)
    <3>1. Len(<<Whole(Ping)>>) = 1 /\ <<Whole(Ping)>>[1] = Whole(Ping) /\ Len(<<>>) = 0
      OBVIOUS
    <3>2. \A i \in 1..Len(s) : s[i] = Whole(Ping)
      BY <2>1, <3>1
    <3>3. \A i \in 1..Len(toHost[c]) : toHost[c][i] = Whole(Ping)
      BY <1>4 DEF LinkOf, Unlinked
    <3>4. ASSUME NEW i \in 1..Len(toHost[c] \o s)
          PROVE  (toHost[c] \o s)[i] = Whole(Ping)
      <4>1. CASE i \in 1..Len(toHost[c])
        BY <1>2, <3>3, <4>1, Behind
      <4>2. CASE i > Len(toHost[c]) /\ i - Len(toHost[c]) \in 1..Len(s)
        <5>1. (toHost[c] \o s)[Len(toHost[c]) + (i - Len(toHost[c]))] = s[i - Len(toHost[c])]
          BY <1>2, <4>2, Behind
        <5>2. Len(toHost[c]) \in Nat /\ i \in Int
          BY <1>2
        <5>3. Len(toHost[c]) + (i - Len(toHost[c])) = i
          BY <5>2
        <5> QED
          BY <3>2, <4>2, <5>1, <5>3
      <4> QED
        BY <1>2, <4>1, <4>2, Behind
    <3> QED
      BY <1>2, <3>4
  <2>3. (known'[c] => sent'[c] = Off) /\ (known[c] => known'[c])
    BY <1>4 DEF Update, User, Ask, GiveUp, Wait, NotReady, Sync, Click, CheckHost, Run, Forgotten, linkVars,
                TypeOK, LinkOf, Unlinked
  <2>4. toHost'[c] # <<>> => known'[c]
    <3>1. CASE Ask(c) \/ CheckHost(c)
      BY <2>3, <3>1 DEF Ask, NotReady, CheckHost, TypeOK
    <3>2. CASE UNCHANGED toHost
      BY <1>4, <2>3, <3>2 DEF LinkOf, Unlinked
    <3> QED
      BY <1>4, <3>1, <3>2 DEF Update, User, GiveUp, Wait, Sync, Click, Run
  <2> QED
    BY <1>2, <1>4, <2>2, <2>3, <2>4 DEF LinkOf, Unlinked
<1> QED
  BY <1>3, <1>4


LEMMA LinkHears ==
  ASSUME TypeOK, NEW c \in Clients, LinkOf(c), Hear(c)
  PROVE  LinkOf(c)'
<1>1. /\ toClient[c] # <<>> /\ toClient'[c] = Tail(toClient[c])
      /\ UNCHANGED <<accept, known, sent, settings, toHost, modded>>
  BY DEF Hear, Pong, Refused, RequestRefused, Told, Receive, hostVars, engineVars, TypeOK
<1>2. /\ Among(Head(toClient[c]), toClient[c])
      /\ \A y : Among(y, toClient'[c]) => Among(y, toClient[c])
  <2>1. toClient[c] \in Seq(Answers)
    BY DEF TypeOK
  <2> QED
    BY <1>1, <2>1, AmongAnswers
<1>3. \/ answered'[c] = answered[c]
      \/ answered'[c] = TRUE /\ Head(toClient[c]) = "pong"
      \/ answered'[c] = FALSE /\ Head(toClient[c]) \in {"refused", "refused:"}
  BY DEF Hear, Pong, Refused, RequestRefused, Told, Receive, TypeOK
<1>4. CASE answered'[c] = answered[c]
  BY <1>1, <1>2, <1>4 DEF LinkOf, Unlinked
<1>5. CASE answered'[c] = TRUE /\ Head(toClient[c]) = "pong"
  <2>1. accept
    BY <1>2, <1>5 DEF LinkOf
  <2>2. CASE answered[c]
    BY <1>1, <1>2, <1>5, <2>1, <2>2 DEF LinkOf
  <2>3. CASE ~answered[c]
    <3>1. settings[c] = None /\ sent[c] = Off /\ \A i \in 1..Len(toHost[c]) : toHost[c][i] = Whole(Ping)
      BY <1>1, <2>3 DEF LinkOf, Unlinked
    <3>2. \A t \in PawnToggles : None[t] = 0 /\ Off[t] = 0 /\ t \in Toggles
      BY DEF None, Off, Toggles
    <3>3. \A t \in PawnToggles, v \in 0..MaxValue, i \in 1..Len(toHost[c]) : toHost[c][i] # SetText(t, v)
      BY <3>1, <3>2, TextKinds
    <3>4. Matches(toHost[c], settings[c], sent[c])
      BY <3>1, <3>2, <3>3 DEF Matches
    <3> QED
      BY <1>1, <1>2, <1>5, <2>1, <3>4 DEF LinkOf
  <2> QED
    BY <2>2, <2>3
<1>6. CASE answered'[c] = FALSE /\ Head(toClient[c]) \in {"refused", "refused:"}
  <2>1. ~accept /\ ~answered[c]
    BY <1>2, <1>6 DEF LinkOf
  <2> QED
    BY <1>1, <1>2, <1>6, <2>1 DEF LinkOf, Unlinked
<1> QED
  BY <1>3, <1>4, <1>5, <1>6

(* Whatever the host takes is either no setting of a pawn's or one it runs.*)
LEMMA HostRuns ==
  ASSUME TypeOK, NEW c \in Clients, Serve(c), loaded, ~Unknown(c)
  PROVE  /\ \A t \in PawnToggles :
              \/ settings'[c][t] = settings[c][t] /\ \A v \in 0..MaxValue : Head(toHost[c]) # SetText(t, v)
              \/ settings'[c][t] \in 0..MaxValue /\ Head(toHost[c]) = SetText(t, settings'[c][t])
              \/ ~accept
         /\ settings' # settings => \E t \in PawnToggles, v \in 0..MaxValue : Head(toHost[c]) = SetText(t, v)
         /\ \A d \in Clients : d # c => settings'[d] = settings[d]
<1>0. toHost[c] # <<>> /\ Head(toHost[c]) \in Messages
  BY HostAnswers, JoinedText
<1>1. CASE TakePiece(c)
  <2>1. Head(toHost[c]).more /\ UNCHANGED settings
    BY <1>1 DEF TakePiece
  <2>2. \A t \in PawnToggles, v \in 0..MaxValue : Head(toHost[c]) # SetText(t, v)
    BY <2>1, TextKinds DEF Toggles
  <2> QED
    BY <2>1, <2>2
<1>2. CASE TakePing(c)
  <2>1. UNCHANGED settings /\ Joined(c) = <<Ping>>
    BY <1>2 DEF TakePing
  <2>2. Head(toHost[c]).text = Ping
    <3>1. Len(<<Ping>>) = 1 /\ <<Ping>>[1] = Ping
      OBVIOUS
    <3>2. Len(pieces[c]) + 1 = 1
      BY <1>0, <2>1, <3>1, JoinedText
    <3> QED
      BY <1>0, <2>1, <3>1, <3>2, JoinedText
  <2>3. \A t \in PawnToggles, v \in 0..MaxValue : Head(toHost[c]) # SetText(t, v)
    BY <2>2, TextKinds DEF Toggles
  <2> QED
    BY <2>1, <2>3
<1>3. CASE RunRequest(c)
  <2>1. UNCHANGED settings /\ Joined(c) = LongRun
    BY <1>3 DEF RunRequest
  <2>2. Head(toHost[c]).text = RunPart(2)
    <3>1. Len(LongRun) = 2 /\ LongRun[2] = RunPart(2)
      BY DEF LongRun
    <3>2. Len(pieces[c]) + 1 = 2
      BY <1>0, <2>1, <3>1, JoinedText
    <3> QED
      BY <1>0, <2>1, <3>1, <3>2, JoinedText
  <2>3. \A t \in PawnToggles, v \in 0..MaxValue : Head(toHost[c]) # SetText(t, v)
    BY <2>2, TextKinds DEF Toggles
  <2> QED
    BY <2>1, <2>3
<1>4. CASE SetWorld(c)
  <2>1. UNCHANGED settings /\ Arrived(c) /\ IsSet(c) /\ Joined(c)[1].toggle \in WorldToggles
    BY <1>4 DEF SetWorld
  <2>2. /\ Joined(c)[1].toggle \in Toggles /\ Joined(c)[1].value \in 0..MaxValue
        /\ Head(toHost[c]) = SetText(Joined(c)[1].toggle, Joined(c)[1].value)
    BY <2>1, SetArrives
  <2>3. Joined(c)[1].toggle \notin PawnToggles
    BY <2>1, HostLinkAssumption
  <2>4. ASSUME NEW t \in PawnToggles, NEW v \in 0..MaxValue
        PROVE  Head(toHost[c]) # SetText(t, v)
    <3>1. t \in Toggles /\ t # Joined(c)[1].toggle
      BY <2>3 DEF Toggles
    <3> QED
      BY <2>2, <3>1, TextKinds
  <2> QED
    BY <2>1, <2>4
<1>5. CASE SetPawn(c)
  <2> DEFINE u == Joined(c)[1].toggle
             w == Joined(c)[1].value
  <2>1. Arrived(c) /\ IsSet(c) /\ u \in PawnToggles /\ settings' = [settings EXCEPT ![c][u] = w]
    BY <1>5 DEF SetPawn
  <2>2. u \in Toggles /\ w \in 0..MaxValue /\ Head(toHost[c]) = SetText(u, w)
    BY <2>1, SetArrives
  <2> HIDE DEF u, w
  <2>3. /\ settings'[c][u] = w
        /\ \A t \in PawnToggles : t # u => settings'[c][t] = settings[c][t]
        /\ \A d \in Clients : d # c => settings'[d] = settings[d]
    BY <2>1 DEF TypeOK
  <2>4. ASSUME NEW t \in PawnToggles, t # u, NEW v \in 0..MaxValue
        PROVE  Head(toHost[c]) # SetText(t, v)
    <3>1. t \in Toggles
      BY DEF Toggles
    <3> QED
      BY <2>2, <2>4, <3>1, TextKinds
  <2> QED
    BY <2>1, <2>2, <2>3, <2>4
<1>6. CASE Refuse(c)
  BY <1>6 DEF Refuse
<1> QED
  BY <1>1, <1>2, <1>3, <1>4, <1>5, <1>6 DEF Serve, Dropped

LEMMA LinkServes ==
  ASSUME TypeOK, NEW c \in Clients, LinkOf(c), Serve(c), loaded, ~Unknown(c)
  PROVE  LinkOf(c)'
<1>1. /\ toHost[c] # <<>> /\ toHost'[c] = Tail(toHost[c]) /\ toHost[c] \in Seq(Messages)
      /\ UNCHANGED <<answered, known, sent, accept>>
  <2>1. /\ toHost[c] # <<>> /\ toHost' = [toHost EXCEPT ![c] = Tail(toHost[c])]
        /\ UNCHANGED <<answered, known, sent, accept>>
    BY HostAnswers DEF engineVars
  <2> QED
    BY <2>1 DEF TypeOK, Messages
<1>2. /\ Among("pong", toClient'[c]) => accept
      /\ Among("refused", toClient'[c]) \/ Among("refused:", toClient'[c]) => ~accept
  BY HostAnswers DEF LinkOf
<1>3. CASE answered[c]
  <2>1. accept
    BY <1>3 DEF LinkOf
  <2>2. \A t \in PawnToggles :
          \/ settings'[c][t] = settings[c][t] /\ \A v \in 0..MaxValue : Head(toHost[c]) # SetText(t, v)
          \/ settings'[c][t] \in 0..MaxValue /\ Head(toHost[c]) = SetText(t, settings'[c][t])
    BY <2>1, HostRuns
  <2>3. sent[c] \in [Toggles -> 0..MaxValue]
    BY DEF TypeOK
  <2>4. Matches(Tail(toHost[c]), settings'[c], sent[c])
    BY <1>1, <1>3, <2>2, <2>3, TakeMatches DEF LinkOf
  <2> QED
    BY <1>1, <1>2, <1>3, <2>1, <2>4 DEF LinkOf
<1>4. CASE ~answered[c]
  <2>1. Head(toHost[c]) = Whole(Ping) /\ \A i \in 1..Len(Tail(toHost[c])) : Tail(toHost[c])[i] = Whole(Ping)
    <3>1. /\ Len(toHost[c]) \in Nat /\ Len(toHost[c]) > 0 /\ Head(toHost[c]) = toHost[c][1]
          /\ Len(Tail(toHost[c])) = Len(toHost[c]) - 1
          /\ \A i \in 1..Len(toHost[c]) - 1 : Tail(toHost[c])[i] = toHost[c][i + 1]
      BY <1>1, HeadTailProperties, LenProperties
    <3>2. \A i \in 1..Len(toHost[c]) - 1 : i + 1 \in 1..Len(toHost[c])
      BY <3>1
    <3> QED
      BY <1>4, <3>1, <3>2 DEF LinkOf, Unlinked
  <2>2. settings' = settings
    BY <2>1, HostRuns, TextKinds DEF Toggles
  <2>3. known[c]
    BY <1>1, <1>4 DEF LinkOf, Unlinked
  <2> QED
    BY <1>1, <1>2, <1>4, <2>1, <2>2, <2>3 DEF LinkOf, Unlinked
<1> QED
  BY <1>3, <1>4


(* A step of one client, or of the host for it, leaves the others' links.  *)
LEMMA OthersKept ==
  ASSUME TypeOK, NEW c \in Clients, NEW d \in Clients, d # c, LinkOf(d),
         \/ (Update(c) \/ User(c)) /\ ~TimeOut(c)
         \/ Hear(c)
         \/ Serve(c) /\ loaded /\ ~Unknown(c)
         \/ Travel(c)
  PROVE  LinkOf(d)'
<1>1. CASE (Update(c) \/ User(c)) /\ ~TimeOut(c)
  <2>1. UNCHANGED <<settings, accept, modded, toClient>> /\ toHost'[d] = toHost[d]
    BY <1>1, ClientSends DEF hostVars, TypeOK
  <2>2. UNCHANGED <<answered[d], known[d], sent[d]>>
    BY <1>1 DEF Update, User, Ask, GiveUp, Wait, NotReady, Sync, Click, CheckHost, Run, linkVars, TypeOK
  <2> QED
    BY <2>1, <2>2, LinkKept
<1>2. CASE Hear(c)
  <2>1. UNCHANGED <<settings, accept, modded, toHost, known, sent>>
    BY <1>2 DEF Hear, Pong, Refused, RequestRefused, Told, Receive, hostVars, engineVars
  <2>2. UNCHANGED <<answered[d], toClient[d]>>
    BY <1>2 DEF Hear, Pong, Refused, RequestRefused, Told, Receive, TypeOK
  <2> QED
    BY <2>1, <2>2, LinkKept
<1>3. CASE Serve(c) /\ loaded /\ ~Unknown(c)
  <2>1. UNCHANGED <<answered, known, sent, accept>> /\ toHost'[d] = toHost[d]
    <3>1. /\ UNCHANGED <<answered, known, sent, accept>>
          /\ toHost' = [toHost EXCEPT ![c] = Tail(toHost[c])]
      BY <1>3, HostAnswers DEF engineVars
    <3> QED
      BY <3>1 DEF TypeOK
  <2>2. settings'[d] = settings[d]
    BY <1>3, HostRuns
  <2>3. toClient'[d] = toClient[d] /\ (d \in modded' => d \in modded)
    BY <1>3 DEF Serve, Dropped, TakePiece, TakePing, Refuse, RunRequest, SetWorld, SetPawn, Unknown,
                Arrived, Arrives, Answer, Remembered, hostVars, TypeOK
  <2> QED
    BY <2>1, <2>2, <2>3, LinkKept
<1>4. CASE Travel(c)
  <2>1. UNCHANGED <<accept, sent>> /\ (d \in modded' => d \in modded)
    BY <1>4 DEF Travel
  <2>2. UNCHANGED <<answered[d], known[d], settings[d], toHost[d], toClient[d]>>
    BY <1>4 DEF Travel, TypeOK
  <2> QED
    BY <2>1, <2>2, LinkKept
<1> QED
  BY <1>1, <1>2, <1>3, <1>4

LEMMA LinkTravels ==
  ASSUME TypeOK, NEW c \in Clients, LinkOf(c), Travel(c)
  PROVE  LinkOf(c)'
<1>1. /\ answered'[c] = FALSE /\ known'[c] = FALSE /\ settings'[c] = None
      /\ toHost'[c] = <<>> /\ toClient'[c] = <<>> /\ c \notin modded'
  BY DEF Travel, TypeOK
<1>2. Len(<<>>) = 0 /\ \A y : ~Among(y, <<>>)
  BY DEF Among
<1> QED
  BY <1>1, <1>2 DEF LinkOf, Unlinked

LEMMA LinkTicks ==
  ASSUME TypeOK, NEW c \in Clients, LinkOf(c), HostTick
  PROVE  LinkOf(c)'
<1>1. UNCHANGED <<answered, known, sent, accept, modded, toHost>>
  BY DEF HostTick, linkVars, engineVars
<1>2. /\ Among("pong", toClient'[c]) => accept
      /\ Among("refused", toClient'[c]) \/ Among("refused:", toClient'[c]) => ~accept
      /\ toClient'[c] # <<>> => toClient[c] # <<>> \/ c \in modded
  BY TickAnswers DEF LinkOf
<1>3. settings'[c] = IF accept THEN settings[c] ELSE None
  BY DEF HostTick, TypeOK
<1> QED
  BY <1>1, <1>2, <1>3 DEF LinkOf, Unlinked

LEMMA LinksStep == TypeOK /\ Requests /\ Links /\ [Next]_vars => Links'
<1> SUFFICES ASSUME TypeOK, Requests, Links, [Next]_vars, upsets' = {}, NEW d \in Clients
             PROVE  LinkOf(d)'
  BY DEF Links
<1>0. upsets = {} /\ loaded /\ \A c \in Clients : LinkOf(c) /\ ~TimeOut(c)
  <2>1. upsets \subseteq upsets'
    BY DEF Next, Update, User, Hear, Serve, Engine, Ask, GiveUp, Wait, NotReady, TimeOut, Sync, Click,
           CheckHost, Run, Pong, Refused, RequestRefused, Told, Receive, Dropped, TakePiece, TakePing,
           Refuse, RunRequest, SetWorld, SetPawn, Unknown, Arrived, Arrives, HostTick, SwitchAccept,
           OwnOff, UnloadHost, LoadHost, Travel, ChangePawn, engineVars, vars
  <2>2. \A c \in Clients : TimeOut(c) => "slow" \in upsets'
    BY DEF TimeOut
  <2> QED
    BY <2>1, <2>2 DEF Requests, Links
<1>1. ASSUME NEW c \in Clients, Serve(c)
      PROVE  ~Unknown(c)
  <2>1. toHost[c] # <<>> /\ Arrives(c)
    BY <1>0, <1>1 DEF Serve, Dropped, TakePiece, TakePing, Refuse, RunRequest, SetWorld, SetPawn, Unknown,
                      Arrived, Arrives
  <2>2. WholeRequests(toHost[c], pieces[c])
    BY <1>0 DEF Requests
  <2> QED
    BY <1>1, <2>1, <2>2, HostTakes
<1>2. ASSUME NEW c \in Clients, Update(c) \/ User(c)
      PROVE  LinkOf(d)'
  BY <1>0, <1>2, LinkSends, OthersKept
<1>3. ASSUME NEW c \in Clients, Hear(c)
      PROVE  LinkOf(d)'
  BY <1>0, <1>3, LinkHears, OthersKept
<1>4. ASSUME NEW c \in Clients, Serve(c)
      PROVE  LinkOf(d)'
  BY <1>0, <1>1, <1>4, LinkServes, OthersKept
<1>5. CASE HostTick
  BY <1>0, <1>5, LinkTicks
<1>6. ASSUME NEW c \in Clients, Travel(c)
      PROVE  LinkOf(d)'
  BY <1>0, <1>6, LinkTravels, OthersKept
<1>7. ASSUME NEW c \in Clients, ChangePawn(c)
      PROVE  LinkOf(d)'
  BY <1>0, <1>7, LinkKept DEF ChangePawn, linkVars
<1>8. CASE SwitchAccept \/ UnloadHost \/ LoadHost
  BY <1>0, <1>8 DEF SwitchAccept, UnloadHost, LoadHost
<1>9. CASE OwnOff \/ UNCHANGED vars
  BY <1>0, <1>9, LinkKept DEF OwnOff, vars, linkVars, hostVars, engineVars
<1> QED
  BY <1>2, <1>3, <1>4, <1>5, <1>6, <1>7, <1>8, <1>9 DEF Next, Engine

(* While the host neither switches Accept Client Requests nor unloads, and *)
(* answers in time, it runs for a linked client, once all that is on its   *)
(* way arrived, just what the client has on.                               *)
THEOREM AnUndisturbedHostFollows == Spec => []HostFollowsUnlessUpset
<1>1. Init => TypeOK /\ Requests /\ Links
  BY TypeInit, RequestsInit, LinksInit
<1>2. (TypeOK /\ Requests /\ Links) /\ [Next]_vars => (TypeOK /\ Requests /\ Links)'
  BY TypeStep, RequestsStep, LinksStep
<1>3. TypeOK /\ Requests /\ Links => HostFollowsUnlessUpset
  <2> SUFFICES ASSUME TypeOK, Links, upsets = {}, NEW c \in Clients, Quiet(c), NEW t \in PawnToggles
               PROVE  settings[c][t] = want[c][t]
    BY DEF HostFollowsUnlessUpset, HostFollows
  <2>1. Matches(<<>>, settings[c], want[c])
    BY DEF Links, LinkOf, Quiet
  <2>2. Len(<<>>) = 0
    OBVIOUS
  <2> QED
    BY <2>1, <2>2 DEF Matches
<1> QED
  BY <1>1, <1>2, <1>3, PTL DEF Spec

=============================================================================
