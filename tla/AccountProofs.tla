---------------------------- MODULE AccountProofs ----------------------------
(***************************************************************************)
(* Theorems about Account, for every set of callers and tags, every age    *)
(* limit and every cap of the gateway.                                     *)
(*                                                                         *)
(* The state falls into two halves that touch in one place, Acquire, which *)
(* may spawn the pump: callers and their lock, pump and stores.  That a    *)
(* call's wait is bounded is not inductive: what decreases with each       *)
(* foreign wait is the caller's place in the queue.                        *)
(***************************************************************************)
EXTENDS Account, FiniteSetTheorems, SequenceTheorems, TLAPS

(* Half one: the callers, their lock, and what a place in its queue costs. *)
CallersType ==
    /\ cpc \in [Caller -> {"idle", "queued", "waiting"}]
    /\ queue \in Seq(Caller) /\ present \in Nat
    /\ waits \in [Caller -> Nat]

PlaceBoundsWaits ==
    /\ present <= Len(queue)
    /\ \A i \in 1..Len(queue) : waits[queue[i]] + i <= Cardinality(Caller)
    /\ \A c \in Caller : ~Open(c) => waits[c] = 0

CallersInv == CallersType /\ LockDiscipline /\ PlaceBoundsWaits

(* Half two: the session, the pump, and the snapshots it leaves.           *)
PumpType ==
    /\ conn \in {"none", "live", "stale", "dead"} /\ leaked \in 0..Cap
    /\ hand \in {"none", "current", "closed", "orphan"}
    /\ pumpRunning \in BOOLEAN
    /\ ppc \in {"off", "client", "open", "stream", "refused", "record", "truncate",
                "write", "pause"}
    /\ got \in SUBSET Tags /\ ended \in BOOLEAN
    /\ cache \in Snapshots /\ age \in 0..StaleMax
    /\ last \in Snapshots /\ disk \in {Corrupt} \cup Snapshots

PumpCount ==
    /\ pumpRunning <=> ppc # "off"
    /\ pumpRunning => pumps = 1
    /\ ~pumpRunning => pumps = 0

(* What the pump is about to write, or has written.                        *)
StoreInv ==
    /\ ppc = "record" => cache = got
    /\ ppc \in {"truncate", "write"} => last = got
    /\ LastGoodFollowsCache

PumpInv == PumpType /\ PumpCount /\ StoreInv

IInv == CallersInv /\ PumpInv

-----------------------------------------------------------------------------
USE TagAssumption, AgeAssumption

(* A sequence without repetition is no longer than the set it draws from.  *)
LEMMA NoMoreThan ==
    ASSUME NEW S, IsFiniteSet(S), NEW n \in Nat, NEW f \in [1..n -> S],
           \A i, j \in 1..n : f[i] = f[j] => i = j
    PROVE  n <= Cardinality(S)
<1>1. IsFiniteSet(1..n) /\ Cardinality(1..n) = n
  BY FS_Interval
<1>2. Cardinality(S) \in Nat
  BY FS_CardinalityType
<1>3. ASSUME Cardinality(S) < Cardinality(1..n) PROVE FALSE
  BY <1>1, <1>3, FS_PigeonHole
<1> QED
  BY <1>1, <1>2, <1>3

(* A caller that is not in the queue finds room for one more place.        *)
LEMMA RoomForOneMore ==
    ASSUME CallersInv, NEW c \in Caller, ~Open(c)
    PROVE  Len(queue) + 1 <= Cardinality(Caller)
<1> DEFINE f == [i \in 1..(Len(queue) + 1) |-> IF i = Len(queue) + 1 THEN c ELSE queue[i]]
<1> USE DEF CallersInv, CallersType
<1>1. Len(queue) \in Nat /\ Cardinality(Caller) \in Nat
  BY FS_CardinalityType, CallerAssumption
<1>2. f \in [1..(Len(queue) + 1) -> Caller]
  <2>1. \A i \in 1..(Len(queue) + 1) : i # Len(queue) + 1 => queue[i] \in Caller
    BY <1>1
  <2> QED
    BY <2>1
<1>3. \A i, j \in 1..(Len(queue) + 1) : f[i] = f[j] => i = j
  <2>1. \A i \in 1..Len(queue) : queue[i] # c
    BY <1>1 DEF LockDiscipline
  <2>2. \A i, j \in 1..Len(queue) : queue[i] = queue[j] => i = j
    BY <1>1 DEF LockDiscipline
  <2>3. \A i \in 1..Len(queue) : f[i] = queue[i]
    BY <1>1
  <2>4. f[Len(queue) + 1] = c
    BY <1>1
  <2>5. \A i \in 1..(Len(queue) + 1) : i \in 1..Len(queue) \/ i = Len(queue) + 1
    BY <1>1
  <2> HIDE DEF f, CallersInv, CallersType
  <2> SUFFICES ASSUME NEW i \in 1..(Len(queue) + 1), NEW j \in 1..(Len(queue) + 1),
                      f[i] = f[j]
               PROVE  i = j
    OBVIOUS
  <2>6. CASE i = Len(queue) + 1 /\ j = Len(queue) + 1
    BY <2>6
  <2>7. CASE i \in 1..Len(queue) /\ j = Len(queue) + 1
    BY <2>1, <2>3, <2>4, <2>7
  <2>8. CASE i = Len(queue) + 1 /\ j \in 1..Len(queue)
    BY <2>1, <2>3, <2>4, <2>8
  <2>9. CASE i \in 1..Len(queue) /\ j \in 1..Len(queue)
    BY <2>2, <2>3, <2>9
  <2> QED
    BY <2>5, <2>6, <2>7, <2>8, <2>9
<1>4. Len(queue) + 1 \in Nat
  BY <1>1
<1> HIDE DEF f
<1> QED
  BY <1>2, <1>3, <1>4, CallerAssumption, NoMoreThan, Zenon

(* A call joins the queue at its end.                                      *)
LEMMA Joining ==
    ASSUME CallersInv, NEW c \in Caller, CallQueues(c) PROVE CallersInv'
<1> USE DEF CallersInv, CallersType, CallQueues, Open
<1>1. Len(queue) + 1 <= Cardinality(Caller)
  BY RoomForOneMore
<1>2. /\ queue' \in Seq(Caller) /\ Len(queue') = Len(queue) + 1 /\ queue' # <<>>
      /\ \A i \in 1..Len(queue) : queue'[i] = queue[i]
      /\ queue'[Len(queue) + 1] = c
      /\ Len(queue) \in Nat
  BY AppendProperties
<1>3. Cardinality(Caller) \in Nat
  BY FS_CardinalityType, CallerAssumption
<1>4. DOMAIN queue = 1..Len(queue) /\ DOMAIN queue' = 1..Len(queue')
  BY <1>2
<1>5. CallersType'
  BY <1>2
<1>6. LockDiscipline'
  <2>1. \A d \in Caller : cpc'[d] = "waiting" => queue' # <<>> /\ Head(queue') = d
    <3> SUFFICES ASSUME NEW d \in Caller, cpc'[d] = "waiting"
                 PROVE  Head(queue') = d
      BY <1>2
    <3>1. queue # <<>> /\ Head(queue) = d
      BY DEF LockDiscipline
    <3> QED
      BY <3>1, HeadTailAppend
  <2>2. ASSUME NEW d \in Caller
        PROVE  Open(d)' <=> \E i \in 1..Len(queue') : queue'[i] = d
    <3>1. CASE d = c
      BY <1>2, <3>1
    <3>2. CASE d # c
      <4>1. Open(d)' <=> Open(d)
        BY <3>2
      <4>2. Open(d) <=> \E i \in 1..Len(queue) : queue[i] = d
        BY <1>4 DEF LockDiscipline
      <4>3. \A i \in 1..Len(queue') : queue'[i] = d => i \in 1..Len(queue)
        BY <1>2, <3>2
      <4>4. 1..Len(queue) \subseteq 1..Len(queue')
        BY <1>2
      <4> QED
        BY <1>2, <4>1, <4>2, <4>3, <4>4
    <3> QED
      BY <3>1, <3>2
  <2>3. \A i, j \in DOMAIN queue' : queue'[i] = queue'[j] => i = j
    <3>1. \A i \in 1..Len(queue) : queue[i] # c
      BY <1>4 DEF LockDiscipline
    <3>2. \A i, j \in 1..Len(queue) : queue[i] = queue[j] => i = j
      BY <1>4 DEF LockDiscipline
    <3> QED
      BY <1>2, <1>4, <3>1, <3>2
  <2> QED
    BY <1>4, <2>1, <2>2, <2>3, Zenon DEF LockDiscipline
<1>7. PlaceBoundsWaits'
  BY <1>1, <1>2, <1>3 DEF PlaceBoundsWaits
<1> QED
  BY <1>5, <1>6, <1>7

(* The head of the queue leaves: it got an answer, or its wait is over.    *)
(* Whoever is behind it moves up, and has seen at most one more wait.      *)
Leaves(c) ==
    /\ queue # <<>> /\ Head(queue) = c
    /\ queue' = Tail(queue) /\ present' = 0
    /\ cpc' = [cpc EXCEPT ![c] = "idle"]
    /\ waits' \in [Caller -> Nat]
    /\ \A d \in Caller : waits'[d] <= waits[d] + 1
    /\ \A d \in Caller : ~Open(d)' => waits'[d] = 0

LEMMA Leaving ==
    ASSUME CallersInv, NEW c \in Caller, Leaves(c) PROVE CallersInv'
<1> USE DEF CallersInv, CallersType, Leaves, Open
<1>1. /\ queue' \in Seq(Caller) /\ Len(queue') = Len(queue) - 1
      /\ \A i \in 1..Len(queue') : queue'[i] = queue[i + 1]
      /\ Len(queue) \in Nat /\ Len(queue') \in Nat
  BY HeadTailProperties
<1>2. DOMAIN queue = 1..Len(queue) /\ DOMAIN queue' = 1..Len(queue')
  BY <1>1
<1>3. queue[1] = c
  OBVIOUS
<1>4. \A i, j \in 1..Len(queue) : queue[i] = queue[j] => i = j
  BY <1>2 DEF LockDiscipline
<1>5. CallersType'
  BY <1>1
<1>6. LockDiscipline'
  <2>1. \A d \in Caller : cpc'[d] # "waiting"
    BY DEF LockDiscipline
  <2>2. ASSUME NEW d \in Caller
        PROVE  Open(d)' <=> \E i \in 1..Len(queue') : queue'[i] = d
    <3>1. CASE d = c
      <4>1. ASSUME NEW i \in 1..Len(queue') PROVE queue[i + 1] # queue[1]
        <5>1. i + 1 \in 1..Len(queue) /\ 1 \in 1..Len(queue) /\ i + 1 # 1
          BY <1>1
        <5> QED
          BY <1>4, <5>1
      <4> QED
        BY <1>1, <1>3, <3>1, <4>1
    <3>2. CASE d # c
      <4>1. Open(d)' <=> Open(d)
        BY <3>2
      <4>2. Open(d) <=> \E i \in 1..Len(queue) : queue[i] = d
        BY <1>2 DEF LockDiscipline
      <4>3. ASSUME NEW i \in 1..Len(queue), queue[i] = d
            PROVE  i - 1 \in 1..Len(queue') /\ queue'[i - 1] = d
        BY <1>1, <1>3, <3>2, <4>3
      <4>4. ASSUME NEW i \in 1..Len(queue'), queue'[i] = d
            PROVE  i + 1 \in 1..Len(queue) /\ queue[i + 1] = d
        BY <1>1, <4>4
      <4> QED
        BY <4>1, <4>2, <4>3, <4>4
    <3> QED
      BY <3>1, <3>2
  <2>3. \A i, j \in 1..Len(queue') : queue'[i] = queue'[j] => i = j
    <3> SUFFICES ASSUME NEW i \in 1..Len(queue'), NEW j \in 1..Len(queue'),
                        queue'[i] = queue'[j]
                 PROVE  i = j
      OBVIOUS
    <3>1. i + 1 \in 1..Len(queue) /\ j + 1 \in 1..Len(queue)
      BY <1>1
    <3>2. queue[i + 1] = queue[j + 1]
      BY <1>1
    <3> QED
      BY <1>4, <3>1, <3>2
  <2> QED
    BY <1>2, <2>1, <2>2, <2>3, Zenon DEF LockDiscipline
<1>7. PlaceBoundsWaits'
  <2>1. ASSUME NEW i \in 1..Len(queue')
        PROVE  waits'[queue'[i]] + i <= Cardinality(Caller)
    <3>1. i + 1 \in 1..Len(queue) /\ queue'[i] = queue[i + 1] /\ queue[i + 1] \in Caller
      BY <1>1
    <3>2. waits[queue[i + 1]] + (i + 1) <= Cardinality(Caller)
      BY <3>1 DEF PlaceBoundsWaits
    <3>3. PICK d \in Caller : d = queue[i + 1]
      BY <3>1
    <3>4. waits[d] \in Nat /\ waits'[d] \in Nat /\ waits'[d] <= waits[d] + 1
      OBVIOUS
    <3>5. Cardinality(Caller) \in Nat
      BY FS_CardinalityType, CallerAssumption
    <3>6. waits[d] + (i + 1) <= Cardinality(Caller)
      BY <3>2, <3>3
    <3>7. waits'[d] + i <= Cardinality(Caller)
      BY <3>4, <3>5, <3>6
    <3> QED
      BY <3>1, <3>3, <3>7
  <2>2. present' <= Len(queue')
    BY <1>1
  <2> QED
    BY <2>1, <2>2 DEF PlaceBoundsWaits
<1> QED
  BY <1>5, <1>6, <1>7

(* The steps of a caller that is at the head keep its half.                *)
LEMMA CallersWork ==
    ASSUME CallersInv, NEW c \in Caller, CallerStep(c) PROVE CallersInv'
<1> USE DEF CallersInv, CallersType
<1>1. \A d \in Caller : Open(d) => queue # <<>>
  BY DEF LockDiscipline
<1>2. ASSUME cpc[c] = "queued" \/ cpc[c] = "waiting", Head(queue) = c, Return(c), Release
      PROVE  CallersInv'
  <2>1. queue # <<>>
    BY <1>1, <1>2 DEF Open
  <2>2. Leaves(c)
    BY <1>2, <2>1 DEF Leaves, Return, Release, Open, PlaceBoundsWaits
  <2> QED
    BY <2>2, Leaving
<1>3. CASE Acquire(c)
  <2>1. CASE Return(c) /\ Release
    BY <1>2, <1>3, <2>1 DEF Acquire
  <2>2. CASE /\ cpc' = [cpc EXCEPT ![c] = "waiting"]
             /\ present' = Len(queue) /\ UNCHANGED <<queue, waits>>
    <3>1. queue # <<>> /\ Head(queue) = c /\ Open(c)
      BY <1>1, <1>3 DEF Acquire, Open
    <3>2. \A d \in Caller : Open(d)' <=> Open(d)
      BY <2>2, <3>1 DEF Open
    <3>3. LockDiscipline'
      <4>1. \A d \in Caller : cpc'[d] = "waiting" => Head(queue) = d
        BY <2>2, <3>1 DEF LockDiscipline
      <4> QED
        BY <2>2, <3>1, <3>2, <4>1, Zenon DEF LockDiscipline
    <3>4. PlaceBoundsWaits'
      BY <2>2, <3>2 DEF PlaceBoundsWaits
    <3> QED
      BY <2>2, <3>3, <3>4
  <2> QED
    BY <1>3, <2>1, <2>2 DEF Acquire
<1>4. CASE Poll(c)
  <2>1. Head(queue) = c
    BY <1>4 DEF Poll, LockDiscipline
  <2> QED
    BY <1>2, <1>4, <2>1 DEF Poll
<1>5. CASE WaitEnds(c)
  <2>1. queue # <<>> /\ Head(queue) = c
    BY <1>5 DEF WaitEnds, LockDiscipline
  <2>2. queue[1] = c /\ DOMAIN queue = 1..Len(queue) /\ Len(queue) \in Nat
    BY <2>1
  <2>3. \A i \in 2..present : i \in DOMAIN queue /\ Open(queue[i]) /\ queue[i] # c
    <3> SUFFICES ASSUME NEW i \in 2..present
                 PROVE  i \in DOMAIN queue /\ Open(queue[i]) /\ queue[i] # c
      OBVIOUS
    <3>1. i \in DOMAIN queue /\ i # 1 /\ 1 \in DOMAIN queue
      BY <2>1, <2>2 DEF PlaceBoundsWaits
    <3>2. queue[i] \in Caller
      BY <2>2, <3>1
    <3> QED
      BY <2>2, <3>1, <3>2 DEF LockDiscipline
  <2>4. waits' \in [Caller -> Nat] /\ \A d \in Caller : waits'[d] <= waits[d] + 1
    BY <1>5 DEF WaitEnds
  <2>5. ASSUME NEW d \in Caller, ~Open(d)' PROVE waits'[d] = 0
    <3>1. CASE d = c
      BY <1>5, <2>3, <3>1 DEF WaitEnds
    <3>2. CASE d # c
      <4>1. ~Open(d)
        BY <1>5, <2>5, <3>2 DEF WaitEnds, Open
      <4>2. waits[d] = 0
        BY <4>1 DEF PlaceBoundsWaits
      <4> QED
        BY <1>5, <2>3, <3>2, <4>1, <4>2 DEF WaitEnds
    <3> QED
      BY <3>1, <3>2
  <2>6. Leaves(c)
    BY <1>5, <2>1, <2>4, <2>5 DEF Leaves, WaitEnds, Release
  <2> QED
    BY <2>6, Leaving
<1> QED
  BY <1>3, <1>4, <1>5 DEF CallerStep, ServeStale, Refuse

-----------------------------------------------------------------------------
(* The steps of the pump keep theirs, one case per action.                 *)
USE DEF PumpInv, PumpType, PumpCount, StoreInv, LastGoodFollowsCache, Snapshots

LEMMA PumpMovesOn ==
    ASSUME PumpInv, Pump \/ Deliver \/ StreamFault
    PROVE  PumpInv' /\ UNCHANGED callerVars
<1> USE DEF PumpMoves, storeVars, OverCap
<1>1. CASE PumpGetClient
  BY <1>1 DEF PumpGetClient, Slot!GetClient
<1>2. CASE PumpWakes
  BY <1>2 DEF PumpWakes
<1>3. CASE PumpOpen
  <2>1. PumpType'
    BY <1>3 DEF PumpOpen
  <2>2. PumpCount' /\ StoreInv' /\ UNCHANGED callerVars
    BY <1>3 DEF PumpOpen
  <2> QED
    BY <2>1, <2>2
<1>4. CASE PumpOpenFails
  BY <1>4 DEF PumpOpenFails
<1>5. CASE RecordMemory
  BY <1>5 DEF RecordMemory
<1>6. CASE RecordTruncate
  BY <1>6 DEF RecordTruncate
<1>7. CASE RecordWrite
  BY <1>7 DEF RecordWrite
<1>8. CASE StreamCloses
  BY <1>8 DEF StreamCloses, PumpPauses
<1>9. ASSUME NEW t \in Tags, PumpSummary(t) PROVE PumpInv' /\ UNCHANGED callerVars
  BY <1>9 DEF PumpSummary, CacheWrite
<1>10. CASE PumpEnd
  BY <1>10 DEF PumpEnd, CacheWrite
<1>11. CASE StreamFault
  <2>1. leaked' \in 0..Cap
    BY <1>11 DEF StreamFault
  <2>2. ended' \in BOOLEAN
    BY <1>11, Zenon DEF StreamFault, PumpPauses
  <2>3. /\ UNCHANGED <<conn, pumpRunning, pumps, callerVars, hand, cache, age, last, disk>>
        /\ ppc = "stream" /\ ppc' = "pause" /\ got' = {}
    BY <1>11, Zenon DEF StreamFault, PumpPauses
  <2>4. PumpType'
    BY <2>1, <2>2, <2>3
  <2> QED
    BY <2>3, <2>4
<1> QED
  BY <1>1, <1>2, <1>3, <1>4, <1>5, <1>6, <1>7, <1>8, <1>9, <1>10, <1>11
     DEF Pump, Deliver

Managed == SessionUp \/ SessionStale \/ SessionDies \/ SessionDown \/ OrphanCloses

(* Session, time, and the death of the process with what load_from_disk    *)
(* makes of the file it left.                                              *)
LEMMA EnvironmentMoves ==
    ASSUME IInv, Managed \/ Tick \/ Crash
    PROVE  IInv'
<1> USE DEF IInv, storeVars, pumpVars
<1>1. CASE Crash
  <2>1. PumpInv'
    <3>1. PumpType'
      <4>1. last' \in Snapshots
        BY <1>1 DEF Crash, LoadFromDisk, Slot!Ends
      <4>2. pumpRunning' \in BOOLEAN /\ ended' \in BOOLEAN
        BY <1>1, Zenon DEF Crash, Slot!Ends
      <4>3. conn' = "none" /\ hand' = "none" /\ ppc' = "off" /\ leaked' = 0 /\ age' = 0
            /\ got' = {} /\ cache' = None /\ disk' = disk
        BY <1>1, Zenon DEF Crash, Slot!Ends
      <4>4. leaked' \in 0..Cap /\ age' \in 0..StaleMax
        BY <4>3
      <4> QED
        BY <4>1, <4>2, <4>3, <4>4, Zenon
    <3>2. PumpCount'
      BY <1>1 DEF Crash
    <3>3. StoreInv'
      BY <1>1 DEF Crash, LoadFromDisk, Slot!Ends
    <3> QED
      BY <3>1, <3>2, <3>3
  <2>2. CallersInv'
    BY <1>1, FS_CardinalityType, CallerAssumption
       DEF Crash, CallersInv, CallersType, LockDiscipline, PlaceBoundsWaits, Open
  <2> QED
    BY <2>1, <2>2
<1>2. CASE Tick \/ Managed
  <2>1. UNCHANGED callerVars
    BY <1>2 DEF Managed, SessionUp, SessionStale, SessionDies, SessionDown, OrphanCloses,
                Tick, ManagerOnly
  <2>2. CallersInv'
    BY <2>1 DEF callerVars, CallersInv, CallersType, LockDiscipline, PlaceBoundsWaits, Open
  <2>3. PumpInv'
    BY <1>2 DEF Managed, SessionUp, SessionStale, SessionDies, SessionDown, OrphanCloses,
                Tick, ManagerOnly, Slot!Offered, Slot!TurnsStale, Slot!Dies, Slot!Withdrawn,
                Slot!Closes
  <2> QED
    BY <2>2, <2>3
<1> QED
  BY <1>1, <1>2

(* A caller touches the other half only by spawning the pump, and only     *)
(* when there is none.                                                     *)
LEMMA CallersKeepPump ==
    ASSUME PumpInv, NEW c \in Caller, CallQueues(c) \/ CallerStep(c) PROVE PumpInv'
<1>1. CallerSees /\ (KeepPump \/ SpawnSummaryPump)
  BY DEF CallQueues, CallerStep, Acquire, Poll, ServeStale, Refuse, WaitEnds
<1> QED
  <2>1. CASE KeepPump
    BY <1>1, <2>1 DEF CallerSees, KeepPump, storeVars
  <2>2. CASE ~pumpRunning /\ SpawnSummaryPump
    BY <1>1, <2>2 DEF CallerSees, SpawnSummaryPump, storeVars
  <2>3. CASE pumpRunning /\ SpawnSummaryPump
    BY <2>1, <2>3 DEF SpawnSummaryPump
  <2> QED
    BY <1>1, <2>1, <2>2, <2>3

LEMMA InitInv == Init => IInv
<1> SUFFICES ASSUME Init PROVE IInv
  OBVIOUS
<1>1. PumpInv
  <2>1. PumpType
    <3>1. pumpRunning \in BOOLEAN /\ ended \in BOOLEAN
      BY Zenon DEF Init
    <3>2. leaked \in 0..Cap /\ age \in 0..StaleMax
      BY DEF Init
    <3> QED
      BY <3>1, <3>2, Zenon DEF Init
  <2>2. PumpCount /\ StoreInv
    BY DEF Init
  <2> QED
    BY <2>1, <2>2
<1>2. CallersInv
  BY FS_CardinalityType, CallerAssumption
     DEF Init, CallersInv, CallersType, LockDiscipline, PlaceBoundsWaits, Open
<1> QED
  BY <1>1, <1>2 DEF IInv

LEMMA NextInv == IInv /\ [Next]_vars => IInv'
<1> SUFFICES ASSUME IInv, [Next]_vars PROVE IInv'
  OBVIOUS
<1> USE DEF IInv
<1>1. CASE Managed \/ Tick \/ Crash
  BY <1>1, EnvironmentMoves
<1>2. CASE Pump \/ Deliver \/ StreamFault
  <2>1. PumpInv' /\ UNCHANGED callerVars
    BY <1>2, PumpMovesOn, Zenon
  <2>2. CallersInv'
    BY <2>1 DEF callerVars, CallersInv, CallersType, LockDiscipline, PlaceBoundsWaits, Open
  <2> QED
    BY <2>1, <2>2
<1>3. ASSUME NEW c \in Caller, CallQueues(c) \/ CallerStep(c) PROVE IInv'
  <2>1. PumpInv'
    BY <1>3, CallersKeepPump
  <2>2. CallersInv'
    BY <1>3, Joining, CallersWork
  <2> QED
    BY <2>1, <2>2
<1>4. CASE UNCHANGED vars
  <2>1. CallersInv'
    BY <1>4 DEF vars, callerVars, CallersInv, CallersType, LockDiscipline,
                PlaceBoundsWaits, Open
  <2>2. PumpInv'
    BY <1>4 DEF vars, pumpVars, storeVars
  <2> QED
    BY <2>1, <2>2
<1> QED
  BY <1>1, <1>2, <1>3, <1>4 DEF Next, Managed

-----------------------------------------------------------------------------
(* Every reachable state of account information and its last-good snapshot *)
(* satisfies IInv.                                                         *)
THEOREM InductiveInvariant == Spec => []IInv
<1> QED
  BY InitInv, NextInv, PTL DEF Spec

(* The variables keep their types, present and waits without any bound.    *)
THEOREM TypeCorrect == Spec => []TypeOK
<1>1. IInv => TypeOK
  BY DEF IInv, CallersInv, CallersType, TypeOK
<1> QED
  BY <1>1, InductiveInvariant, PTL

(* spawn_summary_pump starts at most one pump in a process, however many   *)
(* callers come at once.                                                   *)
THEOREM SinglePump == Spec => []OnePump
<1>1. IInv => OnePump
  BY DEF IInv, OnePump
<1> QED
  BY <1>1, InductiveInvariant, PTL

(* fetch_lock: one caller at a time waits for the pump, in order of        *)
(* arrival, and no call is lost from its queue.                            *)
THEOREM LockDisciplined == Spec => []LockDiscipline
<1>1. IInv => LockDiscipline
  BY DEF IInv, CallersInv
<1> QED
  BY <1>1, InductiveInvariant, PTL

(* With n callers, a call of get_account_info sees at most n - 1 waits of  *)
(* others before its own.                                                  *)
THEOREM BoundedWait == Spec => []WaitBounded
<1>1. ASSUME IInv, NEW c \in Caller PROVE waits[c] < Cardinality(Caller)
  <2> USE <1>1 DEF IInv, CallersInv, CallersType
  <2>1. Cardinality(Caller) \in Nat /\ waits[c] \in Nat
    BY FS_CardinalityType, CallerAssumption
  <2>2. CASE Open(c)
    <3>1. PICK i \in 1..Len(queue) : queue[i] = c
      BY <2>2 DEF LockDiscipline
    <3>2. waits[c] + i <= Cardinality(Caller)
      BY <3>1 DEF PlaceBoundsWaits
    <3> QED
      BY <2>1, <3>1, <3>2
  <2>3. CASE ~Open(c)
    <3>1. waits[c] = 0
      BY <2>3 DEF PlaceBoundsWaits
    <3>2. Len(queue) + 1 <= Cardinality(Caller) /\ Len(queue) \in Nat
      BY <2>3, RoomForOneMore
    <3> QED
      BY <2>1, <3>1, <3>2
  <2> QED
    BY <2>2, <2>3
<1>2. IInv => WaitBounded
  BY <1>1 DEF WaitBounded
<1> QED
  BY <1>2, InductiveInvariant, PTL

(* What persistence::get and the file hold is what the cache holds, or     *)
(* what the process that wrote it left behind, through any crash.          *)
THEOREM LastGood == Spec => []LastGoodFollowsCache
<1>1. IInv => LastGoodFollowsCache
  BY DEF IInv
<1> QED
  BY <1>1, InductiveInvariant, PTL

(* The pump meets the connection manager only as ClientSlot allows: its    *)
(* own steps leave the session on offer alone and change its client by     *)
(* get_client only.                                                        *)
THEOREM KeepsToClientSlot == Spec => Slot!Spec
<1>1. Init => Slot!Init
  BY DEF Init, Slot!Init
<1>2. [Next]_vars => [Slot!Next]_(Slot!vars)
  <2> SUFFICES ASSUME [Next]_vars PROVE Slot!Next \/ UNCHANGED <<conn, hand>>
    BY DEF Slot!vars
  <2>1. CASE Managed \/ Crash
    BY <2>1, Zenon DEF Managed, SessionUp, SessionStale, SessionDies, SessionDown, OrphanCloses,
                Crash, Slot!Next, Slot!Environment
  <2>2. CASE Tick \/ UNCHANGED vars
    BY <2>2 DEF Tick, vars, pumpVars
  <2>3. CASE Pump
    <3>1. CASE PumpGetClient
      BY <3>1, Zenon DEF PumpGetClient, Slot!Next
    <3>2. CASE ~PumpGetClient
      BY <2>3, <3>2 DEF Pump, PumpWakes, PumpOpen, PumpOpenFails, RecordMemory,
                RecordTruncate, RecordWrite, StreamCloses, PumpPauses, PumpMoves
    <3> QED
      BY <3>1, <3>2
  <2>4. CASE Deliver \/ StreamFault
    BY <2>4 DEF Deliver, PumpSummary, PumpEnd, StreamFault, PumpPauses, PumpMoves
  <2>5. ASSUME NEW c \in Caller, CallQueues(c) \/ CallerStep(c)
        PROVE  UNCHANGED <<conn, hand>>
    BY <2>5 DEF CallQueues, CallerStep, Acquire, Poll, ServeStale, Refuse, WaitEnds, CallerSees
  <2> QED
    BY <2>1, <2>2, <2>3, <2>4, <2>5 DEF Next, Managed
<1> QED
  BY <1>1, <1>2, PTL DEF Spec, Slot!Spec
=============================================================================
