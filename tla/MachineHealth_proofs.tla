------------------------- MODULE MachineHealth_proofs -------------------------
(***************************************************************************)
(* For any number of machines, overlapping rounds, thresholds and delays:  *)
(* how long a silent machine can still be sold.                            *)
(***************************************************************************)
EXTENDS MachineHealth, FiniteSetTheorems, TLAPS

(* What a handler writes when the heartbeat is older than this is true.    *)
LastWord == Online + MaxDelay

(* Time since the timer fired.                                             *)
SinceFire == Every - rest

(* Rounds past their now, and those that cannot be older than k.           *)
Listed(r) == round[r].at \notin { "idle", "sweep" }
Swept(k) == { r \in Rounds : round[r].at = "sweep" /\ round[r].since <= k }
Begun(k) ==
  { r \in Rounds : round[r].at = "sweep" \/ (Listed(r) /\ round[r].since <= k) }

(* Rounds that will find a machine silent and write it.                    *)
WillWrite(r, m) ==
  /\ round[r].was[m] = "ONLINE" /\ age[m] - round[r].since > Online
  /\ \/ m \in round[r].todo
     \/ round[r].at = "machine" /\ round[r].machine = m /\ round[r].next # "ONLINE"
Pending(m) == { r \in Rounds : round[r].at = "sweep" \/ (Listed(r) /\ WillWrite(r, m)) }

-----------------------------------------------------------------------------
(* The invariant.                                                          *)

BeatTypes ==
  /\ DOMAIN beat = Machines
  /\ \A m \in Machines : { "at", "since" } \subseteq DOMAIN beat[m] /\ beat[m].since \in Nat

ListedFields == { "at", "since", "todo", "was", "active" }

RoundTypes ==
  /\ DOMAIN round = Rounds
  /\ \A r \in Rounds :
       /\ { "at", "since" } \subseteq DOMAIN round[r] /\ round[r].since \in Nat
       /\ round[r].at \in { "idle", "sweep", "list", "machine", "link" }
       /\ Listed(r) => ListedFields \subseteq DOMAIN round[r]
       /\ round[r].at \in { "machine", "link" } =>
            { "machine", "next", "link" } \subseteq DOMAIN round[r] /\ round[r].machine \in Machines

Types ==
  /\ DOMAIN status = Machines /\ age \in [ Machines -> 0..Oldest ]
  /\ rest \in 0..Every /\ throws \in 0..MaxThrows
  /\ BeatTypes /\ RoundTypes

(* A handler that may write ONLINE has a heartbeat that is fresh enough.   *)
BeatIsFresh ==
  \A m \in Machines : beat[m].at # "idle" => age[m] <= beat[m].since /\ beat[m].since <= MaxDelay

RoundIsFresh ==
  \A r \in Rounds :
    /\ round[r].at # "idle" => round[r].since <= MaxDelay
    /\ round[r].at = "machine" /\ round[r].next = "ONLINE" =>
         age[round[r].machine] <= Online + round[r].since

(* The timer spaces the rounds, however long they take: as many are under  *)
(* way as it fired within their time.                                      *)
Spaced ==
  /\ \A k \in Nat : IsFiniteSet(Begun(k))
  /\ \A k \in Nat : Cardinality(Swept(k)) * Every <= k - SinceFire + Every
  /\ \A k \in Nat : Cardinality(Begun(k)) * Every <= MaxDelay + k - SinceFire + Every

(* Each fire since the last word of a silent machine is a round that will  *)
(* find it, or one that threw.                                             *)
Owed ==
  \A m \in Machines : status[m] = "ONLINE" /\ age[m] > LastWord =>
    age[m] <= LastWord + SinceFire + (Cardinality(Pending(m)) + throws) * Every

HealthInv == Types /\ BeatIsFresh /\ RoundIsFresh /\ Spaced /\ Owed

-----------------------------------------------------------------------------
LEMMA Constants ==
  /\ Online \in Nat /\ Every \in Nat \ {0} /\ MaxDelay \in Nat /\ MaxThrows \in Nat
  /\ Degraded \in Nat /\ Online < Degraded
BY HealthAssumption DEF HealthAssumption

LEMMA Products ==
  /\ \A a \in Int : a * Every \in Int /\ (a + 1) * Every = a * Every + Every
  /\ \A a, b \in Int : a <= b => a * Every <= b * Every
<1>1. Every \in Nat
  BY Constants
<1>2. \A a \in Int : a * Every \in Int /\ (a + 1) * Every = a * Every + Every
  BY <1>1
<1>3. ASSUME NEW a \in Int, NEW b \in Int, a <= b PROVE a * Every <= b * Every
  <2>1. b * Every - a * Every = (b - a) * Every /\ b - a \in Nat
    BY <1>1, <1>3
  <2>2. (b - a) * Every \in Nat
    BY <1>1, <2>1
  <2> QED
    BY <1>1, <2>1, <2>2
<1> QED
  BY <1>2, <1>3

LEMMA Ages == Staleness \in Nat /\ Oldest \in Nat /\ Oldest > Staleness
<1>1. Staleness \in Nat
  <2>1. MaxThrows * Every \in Nat
    BY Constants
  <2> QED
    BY <2>1, Constants DEF Staleness
<1>2. PICK d : d = Degraded + MaxDelay
  OBVIOUS
<1>3. d \in Nat
  BY <1>2, Constants
<1>4. Max({ d, Staleness }) \in Nat /\ Max({ d, Staleness }) >= Staleness
  BY <1>1, <1>3 DEF Max
<1> QED
  BY <1>1, <1>2, <1>4 DEF Oldest

(* Removing a round, and adding one.                                       *)
LEMMA Counts ==
  ASSUME NEW S, IsFiniteSet(S)
  PROVE  /\ Cardinality(S) \in Nat
         /\ \A T \in SUBSET S : IsFiniteSet(T) /\ Cardinality(T) <= Cardinality(S)
         /\ \A x : /\ IsFiniteSet(S \cup { x })
                   /\ Cardinality(S \cup { x }) <= Cardinality(S) + 1
                   /\ x \notin S => Cardinality(S \cup { x }) = Cardinality(S) + 1
         /\ \A x \in S : Cardinality(S \ { x }) = Cardinality(S) - 1
<1>1. Cardinality(S) \in Nat
  BY FS_CardinalityType
<1>2. \A T \in SUBSET S : IsFiniteSet(T) /\ Cardinality(T) <= Cardinality(S)
  BY FS_Subset
<1>3. ASSUME NEW x
      PROVE  /\ IsFiniteSet(S \cup { x })
             /\ Cardinality(S \cup { x }) <= Cardinality(S) + 1
             /\ x \notin S => Cardinality(S \cup { x }) = Cardinality(S) + 1
  <2>1. /\ IsFiniteSet(S \cup { x })
        /\ Cardinality(S \cup { x }) = IF x \in S THEN Cardinality(S) ELSE Cardinality(S) + 1
    BY FS_AddElement
  <2> QED
    BY <1>1, <2>1
<1>4. \A x \in S : Cardinality(S \ { x }) = Cardinality(S) - 1
  BY FS_RemoveElement
<1> QED
  BY <1>1, <1>2, <1>3, <1>4

LEMMA SweptAreBegun == \A k, n \in Nat : Swept(k) \subseteq Begun(n)
BY DEF Swept, Begun

LEMMA Numbers ==
  Types => /\ SinceFire \in 0..Every /\ LastWord \in Nat /\ throws \in Nat
           /\ \A m \in Machines : age[m] \in 0..Oldest /\ age[m] \in Int
BY Constants, Ages DEF Types, SinceFire, LastWord

LEMMA PendingIsBegun ==
  Types /\ RoundIsFresh => \A m \in Machines : Pending(m) \subseteq Begun(MaxDelay)
BY Constants DEF Types, RoundTypes, RoundIsFresh, Pending, Begun, Listed

LEMMA HealthInit == Init => HealthInv
<1> SUFFICES ASSUME Init PROVE HealthInv
  OBVIOUS
<1>1. Types
  BY Constants, Ages DEF Init, Types, BeatTypes, RoundTypes, Listed, Idle
<1>2. BeatIsFresh /\ RoundIsFresh
  BY DEF Init, BeatIsFresh, RoundIsFresh, Idle
<1>3. Spaced
  <2>1. \A k \in Nat : Swept(k) = {} /\ Begun(k) = {}
    BY DEF Init, Swept, Begun, Listed, Idle
  <2>2. SinceFire = 0
    BY Constants DEF Init, SinceFire
  <2>3. Cardinality({}) = 0 /\ IsFiniteSet({})
    BY FS_EmptySet
  <2>4. 0 * Every = 0
    BY Constants
  <2>5. ASSUME NEW k \in Nat
        PROVE  /\ IsFiniteSet(Begun(k))
               /\ Cardinality(Swept(k)) * Every = 0 /\ Cardinality(Begun(k)) * Every = 0
               /\ 0 <= k - 0 + Every /\ 0 <= MaxDelay + k - 0 + Every
    <3>1. 0 <= k - 0 + Every /\ 0 <= MaxDelay + k - 0 + Every
      BY Constants
    <3> QED
      BY <2>1, <2>3, <2>4, <3>1
  <2> QED
    BY <2>2, <2>5 DEF Spaced
<1>4. Owed
  BY DEF Init, Owed
<1> QED
  BY <1>1, <1>2, <1>3, <1>4 DEF HealthInv

(* Customers, the administrator and the devices touch nothing of it.       *)
LEMMA OthersKeep ==
  HealthInv /\ UNCHANGED << status, age, beat, round, rest, throws >> => HealthInv'
BY DEF HealthInv, Types, BeatTypes, RoundTypes, BeatIsFresh, RoundIsFresh, Spaced, Owed,
       Listed, Swept, Begun, Pending, WillWrite, SinceFire

(* A heartbeat: rounds are as they were, a row is fresh.                   *)
LEMMA HeartbeatKeeps ==
  ASSUME HealthInv, NEW m \in Machines, Heartbeat(m)
  PROVE  HealthInv'
<1>0. /\ UNCHANGED << round, rest, throws >> /\ Types /\ BeatIsFresh /\ RoundIsFresh /\ Owed
  BY DEF HealthInv, Heartbeat, HeartbeatArrives, HeartbeatReads, HeartbeatWrites, world, rows
<1>1. /\ DOMAIN status' = Machines /\ \A n \in Machines \ { m } : status'[n] = status[n]
      /\ age' \in [ Machines -> 0..Oldest ] /\ \A n \in Machines \ { m } : age'[n] = age[n]
      /\ age'[m] \in { 0, age[m] }
  BY <1>0, Ages
  DEF Types, Heartbeat, HeartbeatArrives, HeartbeatReads, HeartbeatWrites, rows
<1>2. BeatTypes' /\ BeatIsFresh'
  <2>1. CASE HeartbeatArrives(m)
    BY <1>0, <2>1, Constants DEF HeartbeatArrives, Types, BeatTypes, BeatIsFresh
  <2>2. CASE HeartbeatReads(m)
    <3>1. /\ age' = age /\ DOMAIN beat' = Machines
          /\ \A n \in Machines \ { m } : beat'[n] = beat[n]
          /\ beat'[m] = Idle \/ beat'[m] = [ beat[m] EXCEPT !.at = "read" ]
      BY <1>0, <2>2 DEF HeartbeatReads, Types, BeatTypes, rows
    <3> QED
      BY <1>0, <2>2, <3>1 DEF HeartbeatReads, Types, BeatTypes, BeatIsFresh, Idle
  <2>3. CASE HeartbeatWrites(m)
    BY <1>0, <2>3 DEF HeartbeatWrites, Types, BeatTypes, BeatIsFresh, Idle
  <2> QED
    BY <2>1, <2>2, <2>3 DEF Heartbeat
<1>3. Types'
  BY <1>0, <1>1, <1>2 DEF Types, RoundTypes, Listed
<1>4. RoundIsFresh'
  <2> SUFFICES ASSUME NEW r \in Rounds, round[r].at = "machine", round[r].next = "ONLINE"
               PROVE  age'[round[r].machine] <= Online + round[r].since
    BY <1>0 DEF RoundIsFresh
  <2>1. age[round[r].machine] <= Online + round[r].since
    BY <1>0 DEF RoundIsFresh
  <2>2. round[r].since \in Nat
    BY <1>0 DEF Types, RoundTypes
  <2>3. CASE age'[round[r].machine] = age[round[r].machine]
    BY <2>1, <2>3
  <2>4. CASE round[r].machine = m
    BY <1>1, <2>1, <2>2, <2>4, Constants
  <2>5. round[r].machine \in Machines
    BY <1>0 DEF Types, RoundTypes
  <2> QED
    BY <1>1, <2>3, <2>4, <2>5
<1>5. Spaced'
  BY <1>0 DEF HealthInv, Spaced, Swept, Begun, Listed, SinceFire
<1>6. Owed'
  <2>1. ASSUME status'[m] = "ONLINE", age'[m] > LastWord PROVE status[m] = "ONLINE" /\ age'[m] = age[m]
    <3>1. age'[m] # 0
      BY <2>1, Constants DEF LastWord
    <3>2. ~ HeartbeatArrives(m)
      BY <1>0, <3>1 DEF HeartbeatArrives, Types
    <3>3. ~ HeartbeatWrites(m)
      BY <1>0, <1>1, <2>1, <3>1, Constants
      DEF HeartbeatWrites, BeatIsFresh, LastWord, Types, BeatTypes
    <3> QED
      BY <2>1, <3>2, <3>3 DEF Heartbeat, HeartbeatReads, rows
  <2>2. \A n \in Machines : age'[n] = age[n] => Pending(n)' = Pending(n)
    BY <1>0 DEF Pending, WillWrite, Listed
  <2> QED
    BY <1>0, <1>1, <2>1, <2>2 DEF Owed, SinceFire, LastWord
<1> QED
  BY <1>2, <1>3, <1>4, <1>5, <1>6 DEF HealthInv

-----------------------------------------------------------------------------
(* The rounds.                                                             *)

(* Of the rounds only r moves, or throws, and the counted ones do not grow.*)
Moves(r) ==
  /\ UNCHANGED << age, beat, rest >>
  /\ throws' \in { throws, throws + 1 } \cap (0..MaxThrows)
  /\ \A q \in Rounds \ { r } : round'[q] = round[q]
  /\ DOMAIN status' = Machines
  /\ round'[r].at = "sweep" => round'[r] = round[r]
  /\ Listed(r)' => round[r].at = "sweep" \/ (Listed(r) /\ round'[r].since = round[r].since)

LEMMA MovesKeep ==
  ASSUME HealthInv, NEW r \in Rounds, Moves(r), RoundTypes', RoundIsFresh',
         \A m \in Machines : status'[m] = "ONLINE" /\ age[m] > LastWord =>
           /\ status[m] = "ONLINE"
           /\ r \in Pending(m) => r \in Pending(m)' \/ throws' = throws + 1
  PROVE  HealthInv'
<1>0. Types /\ Spaced /\ Owed /\ RoundTypes
  BY DEF HealthInv, Types
<1>1. Types' /\ BeatIsFresh'
  BY DEF HealthInv, Moves, Types, BeatTypes, BeatIsFresh
<1>2. \A k \in Nat : Swept(k)' \subseteq Swept(k) /\ Begun(k)' \subseteq Begun(k)
  BY DEF Moves, Swept, Begun, Listed
<1>3. SinceFire' = SinceFire
  BY DEF Moves, SinceFire
<1>4. ASSUME NEW k \in Nat
      PROVE  /\ IsFiniteSet(Begun(k)') /\ Cardinality(Begun(k)') <= Cardinality(Begun(k))
             /\ Cardinality(Swept(k)') <= Cardinality(Swept(k))
             /\ { Cardinality(Begun(k)'), Cardinality(Begun(k)),
                  Cardinality(Swept(k)'), Cardinality(Swept(k)) } \subseteq Int
  <2>1. IsFiniteSet(Begun(k)) /\ IsFiniteSet(Swept(k))
    BY <1>0, SweptAreBegun, FS_Subset DEF Spaced
  <2>2. IsFiniteSet(Begun(k)') /\ IsFiniteSet(Swept(k)')
    BY <1>2, <2>1, FS_Subset
  <2> QED
    BY <1>2, <2>1, <2>2, Counts
<1>5. Spaced'
  <2> SUFFICES ASSUME NEW k \in Nat
               PROVE  /\ IsFiniteSet(Begun(k)')
                      /\ Cardinality(Swept(k)') * Every <= k - SinceFire + Every
                      /\ Cardinality(Begun(k)') * Every <= MaxDelay + k - SinceFire + Every
    BY <1>3 DEF Spaced
  <2>1. /\ Cardinality(Swept(k)') * Every <= Cardinality(Swept(k)) * Every
        /\ Cardinality(Begun(k)') * Every <= Cardinality(Begun(k)) * Every
    BY <1>4, Products
  <2>2. { Cardinality(Swept(k)') * Every, Cardinality(Swept(k)) * Every,
          Cardinality(Begun(k)') * Every, Cardinality(Begun(k)) * Every, SinceFire } \subseteq Int
    BY <1>0, <1>4, Products, Constants DEF Types, SinceFire
  <2> QED
    BY <1>0, <1>4, <2>1, <2>2, Constants DEF Spaced
<1>6. Owed'
  <2> SUFFICES ASSUME NEW m \in Machines, status'[m] = "ONLINE", age[m] > LastWord
               PROVE  age[m] <= LastWord + SinceFire + (Cardinality(Pending(m)') + throws') * Every
    BY <1>3 DEF Owed, Moves, LastWord
  <2>1. age[m] <= LastWord + SinceFire + (Cardinality(Pending(m)) + throws) * Every
    BY <1>0 DEF Owed
  <2>2. /\ Pending(m) \subseteq Pending(m)' \cup { r }
        /\ throws' = throws + 1 \/ Pending(m) \subseteq Pending(m)'
    BY DEF Moves, Pending, Listed, WillWrite
  <2>3. IsFiniteSet(Pending(m)')
    <3>1. Pending(m)' \subseteq Begun(MaxDelay)'
      BY <1>1, Constants DEF Types, RoundTypes, RoundIsFresh, Pending, Begun, Listed
    <3> QED
      BY <1>4, <3>1, Constants, FS_Subset
  <2>4. /\ Cardinality(Pending(m)) <= Cardinality(Pending(m)') + 1
        /\ throws' = throws + 1 \/ Cardinality(Pending(m)) <= Cardinality(Pending(m)')
        /\ Cardinality(Pending(m)) \in Int /\ Cardinality(Pending(m)') \in Int
    <3>1. /\ IsFiniteSet(Pending(m)' \cup { r })
          /\ Cardinality(Pending(m)' \cup { r }) <= Cardinality(Pending(m)') + 1
      BY <2>3, Counts
    <3>2. IsFiniteSet(Pending(m)) /\ Cardinality(Pending(m)) <= Cardinality(Pending(m)' \cup { r })
      BY <2>2, <3>1, FS_Subset
    <3>3. /\ Cardinality(Pending(m)) \in Int /\ Cardinality(Pending(m)') \in Int
          /\ Cardinality(Pending(m)' \cup { r }) \in Int
      BY <2>3, <3>1, <3>2, Counts
    <3>4. throws' = throws + 1 \/ Cardinality(Pending(m)) <= Cardinality(Pending(m)')
      BY <2>2, <2>3, FS_Subset
    <3> QED
      BY <3>1, <3>2, <3>3, <3>4
  <2>5. PICK a, b \in Int : /\ a = Cardinality(Pending(m)) + throws
                            /\ b = Cardinality(Pending(m)') + throws' /\ a <= b
    <3>1. throws \in Int /\ throws' \in { throws, throws + 1 }
      BY <1>0, Numbers DEF Moves
    <3> QED
      BY <2>4, <3>1
  <2>6. a * Every <= b * Every /\ a * Every \in Int /\ b * Every \in Int
    BY <2>5, Products
  <2>7. SinceFire \in Int /\ LastWord \in Int /\ age[m] \in Int
    BY <1>0, Numbers
  <2> QED
    BY <2>1, <2>5, <2>6, <2>7
<1> QED
  BY <1>1, <1>5, <1>6 DEF HealthInv

(* What is asked of a round's frame.                                       *)
Frame(new) ==
  /\ { "at", "since" } \subseteq DOMAIN new /\ new.since \in Nat
  /\ new.at \in { "idle", "sweep", "list", "machine", "link" }
  /\ new.at \notin { "idle", "sweep" } => ListedFields \subseteq DOMAIN new
  /\ new.at \in { "machine", "link" } =>
       { "machine", "next", "link" } \subseteq DOMAIN new /\ new.machine \in Machines

Fresh(new) ==
  /\ new.at # "idle" => new.since <= MaxDelay
  /\ new.at = "machine" /\ new.next = "ONLINE" => age[new.machine] <= Online + new.since

LEMMA OneMoves ==
  ASSUME Types, RoundIsFresh, NEW r \in Rounds, NEW new, Frame(new), Fresh(new),
         round' = [ round EXCEPT ![r] = new ], age' = age
  PROVE  /\ RoundTypes' /\ RoundIsFresh' /\ round'[r] = new
         /\ \A q \in Rounds \ { r } : round'[q] = round[q]
BY DEF Types, RoundTypes, RoundIsFresh, Frame, Fresh, Listed

LEMMA FrameNow ==
  ASSUME Types, RoundIsFresh, NEW r \in Rounds
  PROVE  Frame(round[r]) /\ Fresh(round[r])
BY DEF Types, RoundTypes, RoundIsFresh, Frame, Fresh, Listed

LEMMA RoundListsKeeps == ASSUME HealthInv, NEW r \in Rounds, RoundLists(r) PROVE HealthInv'
<1>0. /\ Types /\ RoundIsFresh /\ UNCHANGED << age, status, beat, rest, throws >>
      /\ round[r].at = "sweep" /\ DOMAIN status = Machines
  BY DEF HealthInv, Types, RoundLists, rows, world
<1>1. PICK new : /\ new = [ at |-> "list", since |-> 0, todo |-> Machines,
                            was |-> status, active |-> enabled ]
                 /\ round' = [ round EXCEPT ![r] = new ]
  BY DEF RoundLists
<1>2. Frame(new) /\ Fresh(new)
  BY <1>1, Constants DEF Frame, Fresh, ListedFields
<1>3. /\ RoundTypes' /\ RoundIsFresh' /\ round'[r] = new
      /\ \A q \in Rounds \ { r } : round'[q] = round[q]
  BY <1>0, <1>1, <1>2, OneMoves
<1>4. Moves(r)
  BY <1>0, <1>1, <1>3 DEF Moves, Listed, Types
<1>5. ASSUME NEW m \in Machines, status[m] = "ONLINE", age[m] > LastWord
      PROVE  r \in Pending(m)'
  <2>1. age[m] - 0 > Online
    BY <1>0, <1>5, Numbers, Constants DEF LastWord
  <2> QED
    BY <1>0, <1>1, <1>3, <1>5, <2>1 DEF Pending, WillWrite, Listed
<1> QED
  BY <1>0, <1>3, <1>4, <1>5, MovesKeep

LEMMA RoundReadsKeeps ==
  ASSUME HealthInv, NEW r \in Rounds, NEW m \in Machines, RoundReads(r, m) PROVE HealthInv'
<1>0. /\ Types /\ RoundIsFresh /\ UNCHANGED << age, status, beat, rest, throws >>
      /\ round[r].at = "list" /\ DOMAIN status = Machines
  BY DEF HealthInv, Types, RoundReads, rows, world
<1>1. PICK new : /\ new = [ at |-> "machine", since |-> round[r].since,
                            todo |-> round[r].todo \ { m }, was |-> round[r].was,
                            active |-> round[r].active, machine |-> m,
                            next |-> Recomputed(r, m), link |-> link[m] ]
                 /\ round' = [ round EXCEPT ![r] = new ]
  BY <1>0 DEF RoundReads, Types, RoundTypes
<1>2. round[r].since \in Nat /\ round[r].since <= MaxDelay /\ age[m] \in Int
  BY <1>0, Numbers DEF Types, RoundTypes, RoundIsFresh
<1>3. Recomputed(r, m) = "ONLINE" => age[m] - round[r].since <= Online
  BY DEF Recomputed, Derived, AgeAt
<1>4. Frame(new) /\ Fresh(new)
  <2>1. Recomputed(r, m) = "ONLINE" => age[m] <= Online + round[r].since
    BY <1>2, <1>3, Constants
  <2> QED
    BY <1>1, <1>2, <2>1 DEF Frame, Fresh, ListedFields
<1>5. /\ RoundTypes' /\ RoundIsFresh' /\ round'[r] = new
      /\ \A q \in Rounds \ { r } : round'[q] = round[q]
  <2>1. round' = [ round EXCEPT ![r] = new ] /\ age' = age
    BY <1>0, <1>1
  <2> QED
    BY <1>0, <1>4, <2>1, OneMoves
<1>6. Moves(r)
  BY <1>0, <1>1, <1>5 DEF Moves, Listed, Types
<1>7. ASSUME NEW n \in Machines, r \in Pending(n)
      PROVE  r \in Pending(n)'
  <2>1. /\ round[r].was[n] = "ONLINE" /\ age[n] - round[r].since > Online
        /\ n \in round[r].todo
    BY <1>0, <1>7 DEF Pending, WillWrite
  <2>2. n = m => Recomputed(r, m) # "ONLINE"
    <3>1. n = m => ~ (age[m] - round[r].since <= Online)
      BY <1>2, <2>1, Constants
    <3> QED
      BY <1>3, <3>1
  <2> QED
    BY <1>0, <1>1, <1>5, <2>1, <2>2 DEF Pending, WillWrite, Listed
<1> QED
  BY <1>0, <1>5, <1>6, <1>7, MovesKeep

LEMMA RoundWritesKeeps == ASSUME HealthInv, NEW r \in Rounds, RoundWrites(r) PROVE HealthInv'
<1>0. /\ Types /\ RoundIsFresh /\ UNCHANGED << age, beat, rest, throws >>
      /\ round[r].at = "machine" /\ DOMAIN status = Machines
  BY DEF HealthInv, Types, RoundWrites, world
<1>1. PICK to \in { "link", "list" } : round' = [ round EXCEPT ![r].at = to ]
  BY DEF RoundWrites, Written
<1>2. PICK new : new = [ round[r] EXCEPT !.at = to ] /\ round' = [ round EXCEPT ![r] = new ]
  BY <1>1
<1>3. /\ new.at = to /\ DOMAIN new = DOMAIN round[r]
      /\ new.since = round[r].since /\ new.machine = round[r].machine
      /\ new.todo = round[r].todo /\ new.was = round[r].was
  BY <1>0, <1>2 DEF Types, RoundTypes, Listed, ListedFields
<1>4. Frame(new) /\ Fresh(new)
  BY <1>0, <1>3, FrameNow DEF Frame, Fresh
<1>5. /\ RoundTypes' /\ RoundIsFresh' /\ round'[r] = new
      /\ \A q \in Rounds \ { r } : round'[q] = round[q]
  BY <1>0, <1>2, <1>4, OneMoves
<1>6. DOMAIN status' = Machines
  BY <1>0 DEF RoundWrites
<1>7. Moves(r)
  BY <1>0, <1>3, <1>5, <1>6 DEF Moves, Listed, Types
<1>8. ASSUME NEW m \in Machines, status'[m] = "ONLINE", age[m] > LastWord
      PROVE  status[m] = "ONLINE" /\ (r \in Pending(m) => r \in Pending(m)')
  <2>1. status'[m] = IF m # round[r].machine \/ round[r].next = round[r].was[m]
                       THEN status[m] ELSE round[r].next
    BY <1>0 DEF RoundWrites
  <2>2. m = round[r].machine => round[r].next # "ONLINE"
    BY <1>0, <1>8, Numbers, Constants DEF RoundIsFresh, LastWord, Types, RoundTypes
  <2>3. status[m] = "ONLINE"
    BY <1>8, <2>1, <2>2
  <2>4. ASSUME r \in Pending(m) PROVE r \in Pending(m)'
    <3>1. /\ round[r].was[m] = "ONLINE" /\ age[m] - round[r].since > Online
          /\ m \in round[r].todo \/ m = round[r].machine
      BY <1>0, <2>4 DEF Pending, WillWrite
    <3>2. m \in round[r].todo
      BY <1>8, <2>1, <2>2, <3>1
    <3> QED
      BY <1>0, <1>3, <1>5, <3>1, <3>2 DEF Pending, WillWrite, Listed
  <2> QED
    BY <2>3, <2>4
<1> QED
  BY <1>5, <1>7, <1>8, MovesKeep

LEMMA RoundClosesKeeps ==
  ASSUME HealthInv, NEW r \in Rounds, RoundUnlinks(r) \/ RoundEnds(r) PROVE HealthInv'
<1>0. /\ Types /\ RoundIsFresh /\ UNCHANGED << age, status, beat, rest, throws >>
      /\ DOMAIN status = Machines
      /\ round[r].at = "link" \/ (round[r].at = "list" /\ round[r].todo = {})
  BY DEF HealthInv, Types, RoundUnlinks, RoundEnds, rows, world
<1>1. PICK new :
        /\ \/ round[r].at = "link" /\ new = [ round[r] EXCEPT !.at = "list" ]
           \/ round[r].at = "list" /\ new = Idle
        /\ round' = [ round EXCEPT ![r] = new ]
  BY DEF RoundUnlinks, RoundEnds
<1>2. /\ round[r].at = "link" =>
           /\ new.at = "list" /\ DOMAIN new = DOMAIN round[r] /\ new.since = round[r].since
           /\ new.todo = round[r].todo /\ new.was = round[r].was
      /\ round[r].at = "list" => new.at = "idle" /\ new.since = 0 /\ DOMAIN new = { "at", "since" }
  BY <1>0, <1>1 DEF Types, RoundTypes, Listed, ListedFields, Idle
<1>3. Frame(new) /\ Fresh(new)
  BY <1>0, <1>2, FrameNow DEF Frame, Fresh
<1>4. /\ RoundTypes' /\ RoundIsFresh' /\ round'[r] = new
      /\ \A q \in Rounds \ { r } : round'[q] = round[q]
  BY <1>0, <1>1, <1>3, OneMoves
<1>5. Moves(r)
  BY <1>0, <1>2, <1>4 DEF Moves, Listed, Types
<1>6. ASSUME NEW m \in Machines, r \in Pending(m) PROVE r \in Pending(m)'
  BY <1>0, <1>2, <1>4, <1>6 DEF Pending, WillWrite, Listed
<1> QED
  BY <1>0, <1>4, <1>5, <1>6, MovesKeep

LEMMA SweepThrowsKeeps == ASSUME HealthInv, NEW r \in Rounds, SweepThrows(r) PROVE HealthInv'
<1>0. /\ Types /\ RoundIsFresh /\ UNCHANGED << age, status, beat, rest >>
      /\ DOMAIN status = Machines /\ throws' = throws + 1 /\ throws' \in 0..MaxThrows
      /\ round' = [ round EXCEPT ![r] = Idle ]
  BY Constants DEF HealthInv, Types, SweepThrows, rows
<1>1. Frame(Idle) /\ Fresh(Idle)
  BY DEF Frame, Fresh, Idle
<1>2. /\ RoundTypes' /\ RoundIsFresh' /\ round'[r] = Idle
      /\ \A q \in Rounds \ { r } : round'[q] = round[q]
  BY <1>0, <1>1, OneMoves
<1>3. Moves(r)
  BY <1>0, <1>2 DEF Moves, Listed, Idle
<1> QED
  BY <1>0, <1>2, <1>3, MovesKeep

(* The timer fires: one round more.                                        *)
LEMMA RoundBeginsKeeps == ASSUME HealthInv, NEW r \in Rounds, RoundBegins(r) PROVE HealthInv'
<1>0. /\ Types /\ RoundIsFresh /\ Spaced /\ Owed
      /\ UNCHANGED << age, status, beat, throws >>
      /\ rest = 0 /\ rest' = Every /\ round[r].at = "idle"
  BY DEF HealthInv, Types, RoundBegins, rows
<1>1. PICK new : /\ new = [ at |-> "sweep", since |-> 0 ]
                 /\ round' = [ round EXCEPT ![r] = new ]
  BY DEF RoundBegins
<1>2. Frame(new) /\ Fresh(new)
  BY <1>1, Constants DEF Frame, Fresh
<1>3. /\ RoundTypes' /\ RoundIsFresh' /\ round'[r] = new
      /\ \A q \in Rounds \ { r } : round'[q] = round[q]
  BY <1>0, <1>1, <1>2, OneMoves
<1>4. SinceFire = Every /\ SinceFire' = 0
  BY <1>0, Constants DEF SinceFire
<1>5. Types' /\ BeatIsFresh'
  BY <1>0, <1>3, Constants DEF HealthInv, Types, BeatTypes, BeatIsFresh
<1>6. ASSUME NEW k \in Nat
      PROVE  /\ IsFiniteSet(Begun(k)')
             /\ Cardinality(Swept(k)') * Every <= k - 0 + Every
             /\ Cardinality(Begun(k)') * Every <= MaxDelay + k - 0 + Every
  <2>1. Swept(k)' \subseteq Swept(k) \cup { r } /\ Begun(k)' \subseteq Begun(k) \cup { r }
    BY <1>3 DEF Swept, Begun, Listed
  <2>2. IsFiniteSet(Begun(k)) /\ IsFiniteSet(Swept(k))
    BY <1>0, SweptAreBegun, FS_Subset DEF Spaced
  <2>3. /\ IsFiniteSet(Begun(k) \cup { r }) /\ IsFiniteSet(Swept(k) \cup { r })
        /\ Cardinality(Begun(k) \cup { r }) <= Cardinality(Begun(k)) + 1
        /\ Cardinality(Swept(k) \cup { r }) <= Cardinality(Swept(k)) + 1
    BY <2>2, Counts
  <2>4. /\ IsFiniteSet(Begun(k)') /\ IsFiniteSet(Swept(k)')
        /\ Cardinality(Begun(k)') <= Cardinality(Begun(k) \cup { r })
        /\ Cardinality(Swept(k)') <= Cardinality(Swept(k) \cup { r })
    BY <2>1, <2>3, FS_Subset
  <2>5. PICK b, s, nb, ns \in Int :
          /\ b = Cardinality(Begun(k)) /\ s = Cardinality(Swept(k))
          /\ nb = Cardinality(Begun(k)') /\ ns = Cardinality(Swept(k)')
          /\ nb <= b + 1 /\ ns <= s + 1
    <3>1. /\ { Cardinality(Begun(k)), Cardinality(Swept(k)), Cardinality(Begun(k)'),
               Cardinality(Swept(k)'), Cardinality(Begun(k) \cup { r }),
               Cardinality(Swept(k) \cup { r }) } \subseteq Int
      BY <2>2, <2>3, <2>4, Counts
    <3> QED
      BY <2>3, <2>4, <3>1
  <2>6. /\ s * Every <= k - Every + Every /\ b * Every <= MaxDelay + k - Every + Every
    BY <1>0, <1>4, <2>5 DEF Spaced
  <2>7. /\ ns * Every <= s * Every + Every /\ nb * Every <= b * Every + Every
        /\ { ns * Every, nb * Every, s * Every, b * Every } \subseteq Int
    <3>1. s + 1 \in Int /\ b + 1 \in Int
      BY <2>5
    <3>2. /\ ns * Every <= (s + 1) * Every /\ nb * Every <= (b + 1) * Every
          /\ (s + 1) * Every = s * Every + Every /\ (b + 1) * Every = b * Every + Every
      BY <2>5, <3>1, Products
    <3> QED
      BY <2>5, <3>2, Products
  <2>8. ns * Every <= k - 0 + Every /\ nb * Every <= MaxDelay + k - 0 + Every
    BY <2>6, <2>7, Constants
  <2> QED
    BY <2>4, <2>5, <2>8
<1>7. Spaced'
  BY <1>4, <1>6 DEF Spaced
<1>8. Owed'
  <2> SUFFICES ASSUME NEW m \in Machines, status[m] = "ONLINE", age[m] > LastWord
               PROVE  age[m] <= LastWord + 0 + (Cardinality(Pending(m)') + throws) * Every
    BY <1>0, <1>4 DEF Owed, LastWord
  <2>1. age[m] <= LastWord + Every + (Cardinality(Pending(m)) + throws) * Every
    BY <1>0, <1>4 DEF Owed
  <2>2. Pending(m)' = Pending(m) \cup { r } /\ r \notin Pending(m)
    BY <1>0, <1>1, <1>3 DEF Pending, Listed, WillWrite
  <2>3. IsFiniteSet(Pending(m))
    BY <1>0, PendingIsBegun, FS_Subset, Constants DEF Spaced
  <2>4. PICK c \in Int : /\ c = Cardinality(Pending(m)) + throws
                         /\ c + 1 = Cardinality(Pending(m)') + throws
    <3>1. /\ Cardinality(Pending(m)') = Cardinality(Pending(m)) + 1
          /\ Cardinality(Pending(m)) \in Int
      BY <2>2, <2>3, Counts
    <3>2. throws \in Int
      BY <1>0, Numbers
    <3> QED
      BY <3>1, <3>2
  <2>5. c * Every \in Int /\ (c + 1) * Every = c * Every + Every
    BY <2>4, Products
  <2>6. age[m] \in Int /\ LastWord \in Int
    BY <1>0, Numbers
  <2> QED
    BY <2>1, <2>4, <2>5, <2>6, Constants
<1> QED
  BY <1>3, <1>5, <1>7, <1>8 DEF HealthInv

-----------------------------------------------------------------------------
(* How old a heartbeat may be while the machine is ONLINE.                 *)
LEMMA StatusIsFresh ==
  HealthInv => \A m \in Machines : status[m] = "ONLINE" => age[m] <= Staleness
<1> SUFFICES ASSUME HealthInv, NEW m \in Machines, status[m] = "ONLINE"
             PROVE  age[m] <= Staleness
  OBVIOUS
<1>0. Types /\ RoundIsFresh /\ Spaced /\ Owed
  BY DEF HealthInv
<1>1. /\ age[m] \in Int /\ SinceFire \in 0..Every /\ throws \in 0..MaxThrows
  BY <1>0, Numbers DEF Types
<1>2. PICK t, most \in Nat : t = throws * Every /\ most = MaxThrows * Every /\ t <= most
  <2>1. throws \in Nat /\ throws <= MaxThrows
    BY <1>1, Constants
  <2>2. throws * Every <= MaxThrows * Every
    BY <2>1, Products, Constants
  <2>3. throws * Every \in Nat /\ MaxThrows * Every \in Nat
    BY <2>1, Constants
  <2> QED
    BY <2>2, <2>3
<1>3. CASE ~ (age[m] > LastWord)
  BY <1>1, <1>2, <1>3, Constants DEF Staleness, LastWord
<1>4. CASE age[m] > LastWord
  <2>1. age[m] <= LastWord + SinceFire + (Cardinality(Pending(m)) + throws) * Every
    BY <1>0, <1>4 DEF Owed
  <2>2. /\ IsFiniteSet(Begun(MaxDelay)) /\ IsFiniteSet(Pending(m))
        /\ Cardinality(Pending(m)) <= Cardinality(Begun(MaxDelay))
        /\ Cardinality(Begun(MaxDelay)) * Every <= MaxDelay + MaxDelay - SinceFire + Every
    BY <1>0, PendingIsBegun, FS_Subset, Constants DEF Spaced
  <2>3. PICK p, b \in Int : p = Cardinality(Pending(m)) /\ b = Cardinality(Begun(MaxDelay)) /\ p <= b
    BY <2>2, Counts
  <2>4. p * Every <= b * Every /\ p * Every \in Int /\ b * Every \in Int
    BY <2>3, Products
  <2>5. (p + throws) * Every = p * Every + t
    BY <1>1, <1>2, <2>3, Constants
  <2> QED
    BY <1>1, <1>2, <2>1, <2>2, <2>3, <2>4, <2>5, Constants DEF Staleness, LastWord
<1> QED
  BY <1>3, <1>4

(* What passing time does to a frame.                                      *)
LEMMA LongerFrame ==
  ASSUME NEW frame, { "at", "since" } \subseteq DOMAIN frame, frame.since \in Nat,
         frame.at = "idle" \/ frame.since < MaxDelay
  PROVE  /\ DOMAIN Longer(frame) = DOMAIN frame /\ Longer(frame).at = frame.at
         /\ \A field \in DOMAIN frame \ { "since" } : Longer(frame)[field] = frame[field]
         /\ Longer(frame).since \in Nat
         /\ frame.at = "idle" => Longer(frame).since = frame.since
         /\ frame.at # "idle" =>
              Longer(frame).since = frame.since + 1 /\ Longer(frame).since <= MaxDelay
<1>1. CASE frame.at = "idle"
  BY <1>1 DEF Longer
<1>2. CASE frame.at # "idle"
  <2>1. PICK n \in Nat : n = frame.since + 1
    OBVIOUS
  <2>2. n <= MaxDelay
    BY <1>2, <2>1, Constants
  <2>3. Longer(frame) = [ frame EXCEPT !.since = n ]
    BY <1>2, <2>1 DEF Longer
  <2> QED
    BY <1>2, <2>1, <2>2, <2>3
<1> QED
  BY <1>1, <1>2

LEMMA ElapseKeeps == HealthInv /\ Elapse => HealthInv'
<1> SUFFICES ASSUME HealthInv, Elapse PROVE HealthInv'
  OBVIOUS
<1>0. Types /\ BeatIsFresh /\ RoundIsFresh /\ Spaced /\ Owed
  BY DEF HealthInv
<1>1. /\ UNCHANGED << status, throws >> /\ rest > 0 /\ rest' = rest - 1
      /\ age' = [ m \in Machines |-> IF age[m] < Oldest THEN age[m] + 1 ELSE age[m] ]
      /\ beat' = [ m \in Machines |-> Longer(beat[m]) ]
      /\ round' = [ r \in Rounds |-> Longer(round[r]) ]
  BY DEF Elapse
<1>2. /\ \A m \in Machines : beat[m].at = "idle" \/ beat[m].since < MaxDelay
      /\ \A r \in Rounds : round[r].at = "idle" \/ round[r].since < MaxDelay
  BY DEF Elapse
<1>3. /\ age' \in [ Machines -> 0..Oldest ]
      /\ \A m \in Machines : /\ age'[m] <= age[m] + 1
                             /\ age[m] < Oldest => age'[m] = age[m] + 1
  BY <1>0, <1>1, Ages DEF Types
<1>4. /\ SinceFire' = SinceFire + 1 /\ SinceFire \in Nat /\ rest' \in 0..Every
  BY <1>0, <1>1, Constants DEF Types, SinceFire
<1>5. ASSUME NEW m \in Machines
      PROVE  /\ { "at", "since" } \subseteq DOMAIN beat'[m] /\ beat'[m].since \in Nat
             /\ beat'[m].at # "idle" => age'[m] <= beat'[m].since /\ beat'[m].since <= MaxDelay
  <2>1. { "at", "since" } \subseteq DOMAIN beat[m] /\ beat[m].since \in Nat
    BY <1>0 DEF Types, BeatTypes
  <2>2. /\ DOMAIN beat'[m] = DOMAIN beat[m] /\ beat'[m].at = beat[m].at
        /\ beat'[m].since \in Nat
        /\ beat[m].at # "idle" =>
             beat'[m].since = beat[m].since + 1 /\ beat'[m].since <= MaxDelay
    BY <1>1, <1>2, <2>1, LongerFrame
  <2>3. beat[m].at # "idle" => age[m] <= beat[m].since
    BY <1>0 DEF BeatIsFresh
  <2>4. age[m] \in Int /\ age'[m] \in Int /\ age'[m] <= age[m] + 1
    BY <1>0, <1>3, Numbers, Ages
  <2> QED
    BY <2>1, <2>2, <2>3, <2>4
<1>6. ASSUME NEW r \in Rounds
      PROVE  /\ { "at", "since" } \subseteq DOMAIN round[r] /\ round[r].since \in Nat
             /\ DOMAIN round'[r] = DOMAIN round[r] /\ round'[r].at = round[r].at
             /\ \A field \in DOMAIN round[r] \ { "since" } : round'[r][field] = round[r][field]
             /\ round'[r].since \in Nat
             /\ round[r].at # "idle" =>
                  round'[r].since = round[r].since + 1 /\ round'[r].since <= MaxDelay
  <2>1. { "at", "since" } \subseteq DOMAIN round[r] /\ round[r].since \in Nat
    BY <1>0 DEF Types, RoundTypes
  <2> QED
    BY <1>1, <1>2, <2>1, LongerFrame
<1>7. \A r \in Rounds :
        /\ Listed(r) => /\ round'[r].todo = round[r].todo /\ round'[r].was = round[r].was
        /\ round[r].at \in { "machine", "link" } =>
             round'[r].machine = round[r].machine /\ round'[r].next = round[r].next
  BY <1>0, <1>6 DEF Types, RoundTypes, ListedFields
<1>8. Types'
  <2>1. BeatTypes'
    BY <1>1, <1>5 DEF BeatTypes
  <2>2. RoundTypes'
    BY <1>0, <1>1, <1>6, <1>7 DEF Types, RoundTypes, Listed
  <2> QED
    BY <1>0, <1>1, <1>3, <1>4, <2>1, <2>2 DEF Types
<1>9. BeatIsFresh'
  BY <1>5 DEF BeatIsFresh
<1>10. RoundIsFresh'
  <2>1. ASSUME NEW r \in Rounds, round'[r].at = "machine", round'[r].next = "ONLINE"
        PROVE  age'[round'[r].machine] <= Online + round'[r].since
    <3>1. /\ round[r].at = "machine" /\ round'[r].machine = round[r].machine
          /\ age[round[r].machine] <= Online + round[r].since /\ round[r].machine \in Machines
      BY <1>0, <1>6, <1>7, <2>1 DEF RoundIsFresh, Types, RoundTypes
    <3>2. round'[r].since = round[r].since + 1 /\ round[r].since \in Nat
      BY <1>6, <3>1
    <3>3. PICK m \in Machines : m = round[r].machine /\ age'[m] <= age[m] + 1
      BY <1>3, <3>1
    <3>4. age[m] \in Int /\ age'[m] \in Int
      BY <1>0, <1>3, Numbers, Ages
    <3> QED
      BY <3>1, <3>2, <3>3, <3>4, Constants
  <2> QED
    BY <1>6, <2>1 DEF RoundIsFresh
<1>11. Spaced'
  <2> SUFFICES ASSUME NEW k \in Nat
               PROVE  /\ IsFiniteSet(Begun(k)')
                      /\ Cardinality(Swept(k)') * Every <= k - (SinceFire + 1) + Every
                      /\ Cardinality(Begun(k)') * Every <= MaxDelay + k - (SinceFire + 1) + Every
    BY <1>4 DEF Spaced
  <2>1. CASE k # 0
    <3>1. PICK j \in Nat : j = k - 1
      BY <2>1
    <3>2. Swept(k)' = Swept(j) /\ Begun(k)' = Begun(j)
      BY <1>6, <3>1 DEF Swept, Begun, Listed
    <3>3. /\ IsFiniteSet(Begun(j))
          /\ Cardinality(Swept(j)) * Every <= j - SinceFire + Every
          /\ Cardinality(Begun(j)) * Every <= MaxDelay + j - SinceFire + Every
      BY <1>0 DEF Spaced
    <3>4. /\ j - SinceFire + Every = k - (SinceFire + 1) + Every
          /\ MaxDelay + j - SinceFire + Every = MaxDelay + k - (SinceFire + 1) + Every
      BY <1>4, <3>1, Constants
    <3> QED
      BY <3>2, <3>3, <3>4
  <2>2. CASE k = 0
    <3>1. Swept(0)' = {}
      BY <1>6 DEF Swept
    <3>2. Begun(0)' \subseteq { r \in Rounds : round[r].at = "sweep" /\ round[r].since < MaxDelay }
      BY <1>2, <1>6 DEF Begun, Listed
    <3>3. CASE MaxDelay = 0
      <4>1. Begun(0)' = {}
        BY <1>6, <3>2, <3>3
      <4>2. /\ 0 * Every = 0 /\ IsFiniteSet({}) /\ Cardinality({}) = 0
            /\ 0 <= 0 - (SinceFire + 1) + Every /\ 0 <= MaxDelay + 0 - (SinceFire + 1) + Every
        BY <1>1, <1>4, <3>3, FS_EmptySet, Constants DEF SinceFire
      <4> QED
        BY <2>2, <3>1, <4>1, <4>2
    <3>4. CASE MaxDelay # 0
      <4>1. PICK j \in Nat : j = MaxDelay - 1
        BY <3>4, Constants
      <4>2. Begun(0)' \subseteq Swept(j)
        BY <1>6, <3>2, <4>1, Constants DEF Swept
      <4>3. IsFiniteSet(Swept(j)) /\ Cardinality(Swept(j)) * Every <= j - SinceFire + Every
        BY <1>0, SweptAreBegun, FS_Subset DEF Spaced
      <4>4. IsFiniteSet(Begun(0)') /\ Cardinality(Begun(0)') <= Cardinality(Swept(j))
        BY <4>2, <4>3, FS_Subset
      <4>5. PICK b, s \in Int : b = Cardinality(Begun(0)') /\ s = Cardinality(Swept(j)) /\ b <= s
        BY <4>3, <4>4, Counts
      <4>6. b * Every <= s * Every /\ b * Every \in Int /\ s * Every \in Int
        BY <4>5, Products
      <4>7. b * Every <= MaxDelay + 0 - (SinceFire + 1) + Every
        BY <1>4, <4>1, <4>3, <4>5, <4>6, Constants
      <4>8. 0 * Every = 0 /\ 0 <= 0 - (SinceFire + 1) + Every /\ Cardinality({}) = 0
        BY <1>1, <1>4, FS_EmptySet, Constants DEF SinceFire
      <4> QED
        BY <2>2, <3>1, <4>4, <4>5, <4>7, <4>8
    <3> QED
      BY <3>3, <3>4
  <2> QED
    BY <2>1, <2>2
<1>12. Owed'
  <2> SUFFICES ASSUME NEW m \in Machines, status[m] = "ONLINE", age'[m] > LastWord
               PROVE  age'[m] <= LastWord + (SinceFire + 1) + (Cardinality(Pending(m)') + throws) * Every
    BY <1>1, <1>4 DEF Owed, LastWord
  <2>1. age[m] \in Int /\ age'[m] = age[m] + 1 /\ LastWord \in Int
    <3>1. age[m] <= Staleness
      BY StatusIsFresh
    <3>2. age[m] \in Int /\ age[m] < Oldest /\ LastWord \in Int
      BY <1>0, <3>1, Numbers, Ages
    <3> QED
      BY <1>3, <3>2
  <2>2. IsFiniteSet(Pending(m)')
    <3>1. Pending(m)' \subseteq Begun(MaxDelay)'
      BY <1>8, <1>10, Constants DEF Types, RoundTypes, RoundIsFresh, Pending, Begun, Listed
    <3> QED
      BY <1>11, <3>1, FS_Subset, Constants DEF Spaced
  <2>3. PICK c \in Nat : c = Cardinality(Pending(m)') + throws
    BY <1>0, <2>2, Counts, Numbers
  <2>4. c * Every \in Nat
    BY <2>3, Constants
  <2>5. CASE ~ (age[m] > LastWord)
    BY <1>4, <2>1, <2>3, <2>4, <2>5
  <2>6. CASE age[m] > LastWord
    <3>1. ASSUME NEW r \in Rounds, Listed(r)
          PROVE  age'[m] - round'[r].since = age[m] - round[r].since
      BY <1>6, <2>1, <3>1 DEF Listed
    <3>2. Pending(m)' = Pending(m)
      BY <1>6, <1>7, <3>1 DEF Pending, WillWrite, Listed
    <3>3. age[m] <= LastWord + SinceFire + c * Every
      BY <1>0, <2>3, <2>6, <3>2 DEF Owed
    <3> QED
      BY <1>4, <2>1, <2>3, <2>4, <3>3
  <2> QED
    BY <2>5, <2>6
<1> QED
  BY <1>8, <1>9, <1>10, <1>11, <1>12 DEF HealthInv

LEMMA HealthStep == HealthInv /\ [Next]_vars => HealthInv'
<1> SUFFICES ASSUME HealthInv, [Next]_vars PROVE HealthInv'
  OBVIOUS
<1>1. ASSUME NEW m \in Machines, DeviceChanges(m) PROVE HealthInv'
  BY <1>1, OthersKeep DEF DeviceChanges, rows, handlers
<1>2. ASSUME NEW m \in Machines, Customer(m) PROVE HealthInv'
  BY <1>2, OthersKeep
  DEF Customer, CheckoutReads, CheckoutReserves, PaymentApproved, SessionEnds, rows, handlers, world
<1>3. ASSUME NEW r \in Rounds, Round(r) \/ SweepThrows(r) PROVE HealthInv'
  BY <1>3, RoundBeginsKeeps, RoundListsKeeps, RoundReadsKeeps, RoundWritesKeeps,
     RoundClosesKeeps, SweepThrowsKeeps DEF Round
<1>4. ASSUME NEW p \in Patches, PatchWrites(p) \/ \E m \in Machines : PatchReads(p, m)
      PROVE  HealthInv'
  BY <1>4, OthersKeep DEF PatchWrites, PatchReads, rows, world
<1>5. CASE UNCHANGED vars
  BY <1>5, OthersKeep DEF vars, rows, handlers, world
<1>6. Sold \subseteq Machines
  BY HealthAssumption DEF HealthAssumption
<1> QED
  BY <1>1, <1>2, <1>3, <1>4, <1>5, <1>6, HeartbeatKeeps, ElapseKeeps DEF Next

(* machineService.ts:172: whatever heartbeats, rounds and the administrator*)
(* overwrite, a machine that is sold has been heard of within the threshold*)
(* and the time the handlers take, with any number of machines, of rounds  *)
(* that overlap and of sweeps that throw.                                  *)
THEOREM SoldAlwaysAlive == Spec => SoldIsAlive
<1>1. HealthInv /\ [Next]_vars => HealthInv'
  BY HealthStep
<1>2. HealthInv /\ [Next]_vars =>
        [ \A m \in Machines : session[m] = "none" /\ session'[m] = "pending"
            => age[m] <= Staleness ]_vars
  <2> SUFFICES ASSUME HealthInv, Next, NEW m \in Machines,
                      session[m] = "none", session'[m] = "pending"
               PROVE  age[m] <= Staleness
    OBVIOUS
  <2>1. \/ UNCHANGED session
        \/ \E n \in Sold : CheckoutReserves(n) \/ PaymentApproved(n) \/ SessionEnds(n)
    BY DEF Next, Heartbeat, HeartbeatArrives, HeartbeatReads, HeartbeatWrites, DeviceChanges,
           Customer, CheckoutReads, Round, RoundBegins, RoundLists, RoundReads, RoundWrites,
           RoundUnlinks, RoundEnds, SweepThrows, PatchWrites, PatchReads, Elapse, rows
  <2>2. PICK n \in Sold : CheckoutReserves(n) \/ PaymentApproved(n) \/ SessionEnds(n)
    BY <2>1
  <2>3. \A to : session' = [ session EXCEPT ![n] = to ] => n = m /\ to = "pending"
    OBVIOUS
  <2>4. Payable(m)
    BY <2>2, <2>3 DEF CheckoutReserves, PaymentApproved, SessionEnds
  <2> QED
    BY <2>4, StatusIsFresh DEF Payable
<1> QED
  BY <1>1, <1>2, HealthInit, PTL DEF Spec, SoldIsAlive
=============================================================================
