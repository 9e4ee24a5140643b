-------------------------- MODULE MarketDataProofs --------------------------
(***************************************************************************)
(* Theorems about MarketData, for every set of callers and keys.           *)
(*                                                                         *)
(* With the types known, both properties hold step by step: a call takes   *)
(* its claim on the session's type with it through every move, and gives   *)
(* it up only by switching back, by going on record as stranded, or with   *)
(* the session.                                                            *)
(***************************************************************************)
EXTENDS MarketData, TLAPS

(* The call that will switch the session back.                             *)
Claims(c) == /\ hand[c] = "current" /\ Switches(c)
             /\ pc[c] \in {"subscribe", "stream", "back"}

(* A call under way knows what it is asked for.                            *)
Typed == TypeOK /\ \A c \in Caller : pc[c] # "idle" => key[c] \in Key

IInv == Typed /\ OnlyEarlyReturnStrands

(* What a step of one call does: the other calls stay where they are, and  *)
(* if this one had a claim, it has one still, or is on record, or the      *)
(* session is back in Realtime.                                            *)
OthersStay(c) ==
    \A d \in Caller \ {c} : pc'[d] = pc[d] /\ at'[d] = at[d] /\ hand'[d] = hand[d]
ClaimKept(c) ==
    \/ sessionType' = "Realtime" \/ stranded' \/ Claims(c)'
    \/ sessionType' = sessionType /\ ~stranded /\ ~Claims(c)

(* A call that ends without a quote has tried every type, or has no        *)
(* session to try it on.                                                   *)
EndsLate(c) == pc[c] # "idle" /\ pc'[c] = "idle" => got[c] \/ at[c] = 4 \/ session = "down"

Sound(c) == Typed' /\ OthersStay(c) /\ ClaimKept(c) /\ EndsLate(c)

-----------------------------------------------------------------------------
USE KeyAssumption

LEMMA CascadeTypes ==
    /\ Len(Cascade) = 4
    /\ \A i \in 1..4 : Cascade[i] \in Sources /\ (Cascade[i] = "Realtime" <=> i = 1)
<1>1. Cascade = <<"Realtime", "Frozen", "DelayedFrozen", "Delayed">>
  BY DEF Cascade
<1>2. Len(Cascade) = 4
  BY <1>1
<1>3. \A i \in 1..4 : Cascade[i] \in Sources
  BY DEF Sources
<1>4. \A i \in 1..4 : Cascade[i] = "Realtime" <=> i = 1
  BY <1>1
<1> QED
  BY <1>2, <1>3, <1>4

(* The two ways in which a fetch hands over: the end of the call, and a    *)
(* type of the cascade for the key it is about.                            *)
Handover(c) ==
    \/ Done(c)
    \/ \E i \in 1..4 : Turn(c, i) /\ \E k \in Key : key' = [key EXCEPT ![c] = k]

LEMMA HandingOver ==
    ASSUME Typed, NEW c \in Caller, Handover(c),
           sessionType' \in Sources, stranded' \in BOOLEAN,
           delayed' \subseteq Key, cache' \subseteq Key
    PROVE  Typed' /\ OthersStay(c)
<1> USE DEF Typed, OthersStay
<1>1. TypeOK
  OBVIOUS
<1>2. CASE Done(c)
  <2>1. /\ session' = session
        /\ pc' = [pc EXCEPT ![c] = "idle"] /\ key' = [key EXCEPT ![c] = None]
        /\ at' = [at EXCEPT ![c] = 1] /\ hand' = [hand EXCEPT ![c] = "none"]
        /\ got' = [got EXCEPT ![c] = FALSE]
    BY <1>2, Zenon DEF Done
  <2> QED
    BY <2>1 DEF TypeOK
<1>3. ASSUME NEW i \in 1..4, Turn(c, i), NEW k \in Key, key' = [key EXCEPT ![c] = k]
      PROVE  Typed' /\ OthersStay(c)
  BY <1>3 DEF TypeOK, Turn
<1> QED
  BY <1>2, <1>3 DEF Handover

LEMMA NextTypes ==
    ASSUME Typed, NEW c \in Caller, NextType(c), pc[c] # "idle"
    PROVE  Handover(c) /\ (pc'[c] = "idle" => at[c] = 4)
<1>1. CASE at[c] < Len(Cascade)
  <2>1. Turn(c, at[c] + 1) /\ at[c] + 1 \in 1..4
    BY <1>1, CascadeTypes DEF NextType, Typed, TypeOK
  <2>2. key[c] \in Key /\ key' = [key EXCEPT ![c] = key[c]]
    BY <1>1 DEF NextType, Typed, TypeOK
  <2>3. pc'[c] = "client"
    BY <2>1 DEF Turn, Typed, TypeOK
  <2> QED
    BY <2>1, <2>2, <2>3 DEF Handover
<1>2. CASE ~(at[c] < Len(Cascade))
  BY <1>2, CascadeTypes DEF NextType, Handover, Typed, TypeOK
<1> QED
  BY <1>1, <1>2

LEMMA CallSteps ==
    ASSUME IInv, NEW c \in Caller,
           (\E k \in Key : Ask(c, k)) \/ Progress(c) \/ Gateway(c) \/ OrphanCloses(c)
    PROVE  Sound(c)
<1> USE DEF IInv, Sound
<1>0. Typed /\ TypeOK
  BY DEF Typed
<1>1. ASSUME NEW k \in Key, Ask(c, k) PROVE Sound(c)
  <2>1. PICK i \in 1..4 : Turn(c, i) /\ key' = [key EXCEPT ![c] = k]
    BY <1>1 DEF Ask
  <2>2. Typed' /\ OthersStay(c)
    BY <1>0, <1>1, <2>1, HandingOver DEF Ask, TypeOK, Handover
  <2>3. ClaimKept(c) /\ EndsLate(c)
    BY <1>1 DEF Ask, ClaimKept, Claims, EndsLate
  <2> QED
    BY <2>2, <2>3
<1>2. CASE GetClient(c)
  <2>1. CASE session = "up" /\ Moves(c, "client", IF Switches(c) THEN "switch" ELSE "subscribe")
             /\ hand' = [hand EXCEPT ![c] = "current"] /\ UNCHANGED got
    BY <1>0, <1>2, <2>1
       DEF GetClient, Moves, Typed, TypeOK, OthersStay, ClaimKept, Claims, EndsLate
  <2>2. CASE session = "down" /\ pc[c] = "client" /\ Done(c)
    <3>1. Typed' /\ OthersStay(c)
      BY <1>0, <1>2, <2>2, HandingOver DEF GetClient, TypeOK, Handover
    <3>2. ClaimKept(c) /\ EndsLate(c)
      BY <1>2, <2>2 DEF GetClient, ClaimKept, Claims, EndsLate
    <3> QED
      BY <3>1, <3>2
  <2> QED
    BY <1>2, <2>1, <2>2 DEF GetClient
<1>3. CASE Switch(c)
  <2>1. TypeOf(c) \in Sources /\ (TypeOf(c) = "Realtime" <=> ~Switches(c))
    BY <1>0, CascadeTypes DEF TypeOf, Switches, TypeOK
  <2>2. Typed' /\ OthersStay(c) /\ EndsLate(c)
    BY <1>0, <1>3, <2>1 DEF Switch, Moves, Typed, TypeOK, OthersStay, EndsLate
  <2>3. ClaimKept(c)
    BY <1>0, <1>3, <2>1 DEF Switch, Moves, TypeOK, ClaimKept, Claims, Switches, TypeOf
  <2> QED
    BY <2>2, <2>3
<1>4. CASE Subscribe(c)
  BY <1>0, <1>4 DEF Subscribe, Moves, Typed, TypeOK, OthersStay, EndsLate, ClaimKept,
                    Claims, Switches, TypeOf
<1>5. CASE DataTick(c)
  BY <1>0, <1>5 DEF DataTick, Moves, Typed, TypeOK, OthersStay, EndsLate, ClaimKept,
                    Claims, Switches, TypeOf
<1>6. ASSUME LeaveEarly(c), delayed' \subseteq Key, pc[c] # "idle" PROVE Sound(c)
  <2>1. Handover(c) /\ (pc'[c] = "idle" => at[c] = 4)
    BY <1>0, <1>6, NextTypes DEF LeaveEarly
  <2>2. sessionType' \in Sources /\ cache' \subseteq Key
    BY <1>0, <1>6 DEF LeaveEarly, TypeOK
  <2>3. stranded' \in BOOLEAN
    BY <1>6, Zenon DEF LeaveEarly
  <2>4. Typed' /\ OthersStay(c)
    BY <1>0, <1>6, <2>1, <2>2, <2>3, HandingOver
  <2>5. ClaimKept(c)
    BY <1>6 DEF LeaveEarly, ClaimKept, Claims
  <2> QED
    BY <2>1, <2>4, <2>5 DEF EndsLate
<1>7. CASE SubscribeFails(c) \/ StreamError(c)
  BY <1>0, <1>6, <1>7 DEF SubscribeFails, StreamError, TypeOK
<1>8. CASE Refused(c)
  <2>1. pc[c] # "idle"
    BY <1>8 DEF Refused
  <2>2. delayed' \subseteq Key
    BY <1>0, <1>8, <2>1 DEF Refused, Typed, TypeOK
  <2> QED
    BY <1>6, <1>8, <2>1, <2>2 DEF Refused
<1>9. ASSUME Conclude(c), UNCHANGED delayed, sessionType' \in Sources, stranded' \in BOOLEAN,
             pc[c] # "idle"
      PROVE  Typed' /\ OthersStay(c) /\ EndsLate(c)
  <2>1. CASE got[c] /\ cache' = cache \cup {key[c]} /\ Done(c)
    <3>1. cache' \subseteq Key /\ delayed' \subseteq Key
      BY <1>0, <1>9, <2>1 DEF Typed, TypeOK
    <3>2. Typed' /\ OthersStay(c)
      BY <1>0, <1>9, <2>1, <3>1, HandingOver DEF Handover
    <3> QED
      BY <2>1, <3>2 DEF EndsLate
  <2>2. CASE ~got[c] /\ UNCHANGED cache /\ NextType(c)
    <3>1. Handover(c) /\ (pc'[c] = "idle" => at[c] = 4)
      BY <1>0, <1>9, <2>2, NextTypes
    <3>2. cache' \subseteq Key /\ delayed' \subseteq Key
      BY <1>0, <1>9, <2>2 DEF TypeOK
    <3>3. Typed' /\ OthersStay(c)
      BY <1>0, <1>9, <3>1, <3>2, HandingOver
    <3> QED
      BY <3>1, <3>3 DEF EndsLate
  <2> QED
    BY <1>9, <2>1, <2>2 DEF Conclude
<1>10. CASE StreamEnds(c)
  <2>1. CASE Switches(c) /\ Moves(c, "stream", "back") /\ UNCHANGED <<cache, hand, got>>
    BY <1>0, <1>10, <2>1 DEF StreamEnds, Moves, Typed, TypeOK, OthersStay, EndsLate,
                             ClaimKept, Claims, Switches, TypeOf
  <2>2. CASE ~Switches(c) /\ Conclude(c)
    <3>1. Typed' /\ OthersStay(c) /\ EndsLate(c)
      BY <1>0, <1>9, <1>10, <2>2 DEF StreamEnds, TypeOK
    <3>2. ClaimKept(c)
      BY <1>10, <2>2 DEF StreamEnds, ClaimKept, Claims
    <3> QED
      BY <3>1, <3>2
  <2> QED
    BY <1>10, <2>1, <2>2 DEF StreamEnds
<1>11. CASE SwitchBack(c)
  <2>1. sessionType' \in Sources /\ stranded' \in BOOLEAN
    <3>1. "Realtime" \in Sources
      BY CascadeTypes
    <3> QED
      BY <1>0, <1>11, <3>1 DEF SwitchBack, TypeOK
  <2>2. Typed' /\ OthersStay(c) /\ EndsLate(c)
    BY <1>9, <1>11, <2>1 DEF SwitchBack
  <2>3. ClaimKept(c)
    BY <1>11 DEF SwitchBack, ClaimKept, Claims
  <2> QED
    BY <2>2, <2>3
<1>12. CASE OrphanCloses(c)
  BY <1>0, <1>12 DEF OrphanCloses, Typed, TypeOK, OthersStay, EndsLate, ClaimKept, Claims
<1> QED
  BY <1>1, <1>2, <1>3, <1>4, <1>5, <1>7, <1>8, <1>10, <1>11, <1>12
     DEF Progress, Gateway

(* No call gives up another call's claim.                                  *)
LEMMA CallInv ==
    ASSUME IInv, NEW c \in Caller, Sound(c) PROVE IInv'
<1>1. ASSUME sessionType' # "Realtime", ~stranded', NEW d \in Caller \ {c}, Claims(d)
      PROVE  Claims(d)'
  BY <1>1 DEF Claims, Sound, OthersStay, Switches, TypeOf
<1>2. OnlyEarlyReturnStrands'
  BY <1>1 DEF IInv, Sound, ClaimKept, OnlyEarlyReturnStrands, Claims
<1> QED
  BY <1>2 DEF IInv, Sound

LEMMA InitInv == Init => IInv
<1> SUFFICES ASSUME Init PROVE IInv
  OBVIOUS
<1>1. "Realtime" \in Sources
  BY CascadeTypes
<1>2. stranded \in BOOLEAN
  BY Zenon DEF Init
<1>3. TypeOK
  BY <1>1, <1>2 DEF Init, TypeOK
<1> QED
  BY <1>3 DEF Init, IInv, Typed, OnlyEarlyReturnStrands

LEMMA NextInv ==
    ASSUME IInv, [Next]_vars
    PROVE  IInv' /\ \A c \in Caller : EndsLate(c)
<1> USE DEF IInv
<1>1. ASSUME NEW c \in Caller,
             (\E k \in Key : Ask(c, k)) \/ Progress(c) \/ Gateway(c) \/ OrphanCloses(c)
      PROVE  IInv' /\ \A d \in Caller : EndsLate(d)
  <2>1. Sound(c)
    BY <1>1, CallSteps
  <2>2. \A d \in Caller \ {c} : EndsLate(d)
    BY <2>1 DEF Sound, OthersStay, EndsLate
  <2> QED
    BY <2>1, <2>2, CallInv DEF Sound
<1>2. CASE SessionUp \/ (\E k \in Key : Expire(k)) \/ UNCHANGED vars
  BY <1>2 DEF SessionUp, Expire, vars, callVars, Typed, TypeOK, OnlyEarlyReturnStrands,
              EndsLate, Switches, TypeOf
<1>3. CASE SessionDown
  <2>1. sessionType' = "Realtime" /\ sessionType' \in Sources /\ stranded' \in BOOLEAN
    <3>1. "Realtime" \in Sources
      BY CascadeTypes
    <3>2. stranded' \in BOOLEAN
      BY <1>3, Zenon DEF SessionDown
    <3> QED
      BY <1>3, <3>1, <3>2 DEF SessionDown
  <2>2. hand' \in [Caller -> {"none", "current", "closed", "orphan"}]
    BY <1>3 DEF SessionDown, Typed, TypeOK
  <2>3. Typed'
    BY <1>3, <2>1, <2>2 DEF SessionDown, Typed, TypeOK
  <2>4. \A c \in Caller : EndsLate(c)
    BY <1>3 DEF SessionDown, EndsLate
  <2> QED
    BY <2>1, <2>3, <2>4 DEF OnlyEarlyReturnStrands
<1> QED
  BY <1>1, <1>2, <1>3 DEF Next

-----------------------------------------------------------------------------
(* The variables keep their types: nothing but a key of a call enters the  *)
(* cache or delayed_symbols.                                               *)
THEOREM TypeCorrect == Spec => []TypeOK
<1>1. IInv => TypeOK
  BY DEF IInv, Typed
<1> QED
  BY <1>1, InitInv, NextInv, PTL DEF Spec

(* However many quotes are fetched at once, the session's market data type *)
(* stays off Realtime only for a call that will switch it back, or because *)
(* an early return forgot to.                                              *)
THEOREM EarlyReturnStrands == Spec => []OnlyEarlyReturnStrands
<1>1. IInv => OnlyEarlyReturnStrands
  BY DEF IInv
<1> QED
  BY <1>1, InitInv, NextInv, PTL DEF Spec

(* A quote is given up only at the end of the cascade, or without session. *)
THEOREM WholeCascade == Spec => CascadeExhausted
<1>1. IInv /\ [Next]_vars =>
        [\A c \in Caller : pc[c] # "idle" /\ pc'[c] = "idle" =>
             got[c] \/ at[c] = 4 \/ session = "down"]_vars
  BY NextInv DEF EndsLate
<1> QED
  BY <1>1, InitInv, NextInv, PTL DEF Spec, CascadeExhausted
=============================================================================
