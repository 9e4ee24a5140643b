----------------------------- MODULE MarketData -----------------------------
(***************************************************************************)
(* Quotes (src/src/ibkr/market_data.rs): concurrent calls of get_quote and *)
(* get_option_quote, each of which walks the cascade of market data types  *)
(* until one of them yields data.  The type is a setting of the broker     *)
(* session, not of the request: all calls share it.                        *)
(*                                                                         *)
(* A key is a symbol or the label of an option: the two functions share    *)
(* the cache and delayed_symbols and differ only in the ticks that count   *)
(* as data.  The content of a quote is left out, its source included,      *)
(* which only selects the TTL; a cache entry past its TTL is no entry.     *)
(* Definitions named Mutant... are not part of the model: see              *)
(* Connection.tla.                                                         *)
(***************************************************************************)
EXTENDS Naturals, Sequences

CONSTANTS
    Caller,       \* concurrent calls
    Key,          \* cache keys
    None          \* no key

ASSUME KeyAssumption == None \notin Key

VARIABLES
    session,      \* environment: "up" or "down"
    sessionType,  \* environment: the market data type of the session
    stranded,     \* history: a call left without switching the session back
    delayed,      \* delayed_symbols
    cache,        \* keys with a quote younger than its TTL
    pc,           \* where each call is
    key,          \* what it is asked for
    at,           \* its position in the cascade
    hand,         \* the session it holds: "none", "current", "closed", "orphan"
    got           \* got_data

callVars == <<pc, key, at, hand, got>>
vars == <<session, sessionType, stranded, delayed, cache, callVars>>

Cascade == <<"Realtime", "Frozen", "DelayedFrozen", "Delayed">>
TypeOf(c) == Cascade[at[c]]
Switches(c) == TypeOf(c) # "Realtime"
LiveType(c) == TypeOf(c) \in {"Realtime", "Frozen"}

-----------------------------------------------------------------------------
Init ==
    /\ session = "down" /\ sessionType = "Realtime" /\ stranded = FALSE
    /\ delayed = {} /\ cache = {}
    /\ pc = [c \in Caller |-> "idle"] /\ key = [c \in Caller |-> None]
    /\ at = [c \in Caller |-> 1] /\ hand = [c \in Caller |-> "none"]
    /\ got = [c \in Caller |-> FALSE]

-----------------------------------------------------------------------------
(* Environment.  A new session starts in Realtime; a withdrawn one closes  *)
(* its streams, or leaves them pending when its disconnect timed out.      *)

SessionUp ==
    /\ session = "down" /\ session' = "up"
    /\ UNCHANGED <<sessionType, stranded, delayed, cache, callVars>>

SessionDown ==
    /\ session = "up" /\ session' = "down"
    /\ sessionType' = "Realtime" /\ stranded' = FALSE
    /\ \E left \in {"closed", "orphan"} :
          hand' = [c \in Caller |-> IF hand[c] = "current" THEN left ELSE hand[c]]
    /\ UNCHANGED <<delayed, cache, pc, key, at, got>>

OrphanCloses(c) ==
    /\ hand[c] = "orphan" /\ hand' = [hand EXCEPT ![c] = "closed"]
    /\ UNCHANGED <<session, sessionType, stranded, delayed, cache, pc, key, at, got>>

Expire(k) ==
    /\ k \in cache /\ cache' = cache \ {k}
    /\ UNCHANGED <<session, sessionType, stranded, delayed, callVars>>

-----------------------------------------------------------------------------
(* The steps of a call.                                                    *)

Moves(c, from, to) ==
    /\ pc[c] = from /\ pc' = [pc EXCEPT ![c] = to]
    /\ UNCHANGED <<session, key, at>>

(* The call is over, or turns to the type at position i.                   *)
Done(c) ==
    /\ pc' = [pc EXCEPT ![c] = "idle"] /\ key' = [key EXCEPT ![c] = None]
    /\ at' = [at EXCEPT ![c] = 1] /\ hand' = [hand EXCEPT ![c] = "none"]
    /\ got' = [got EXCEPT ![c] = FALSE]
    /\ UNCHANGED session

Turn(c, i) ==
    /\ pc' = [pc EXCEPT ![c] = "client"] /\ at' = [at EXCEPT ![c] = i]
    /\ hand' = [hand EXCEPT ![c] = "none"]
    /\ got' = [got EXCEPT ![c] = FALSE]
    /\ UNCHANGED session

(* Unavailable or refused: the next type of the cascade, if there is one.  *)
NextType(c) ==
    /\ IF at[c] < Len(Cascade) THEN Turn(c, at[c] + 1) /\ UNCHANGED key ELSE Done(c)

(* A call that finds a fresh entry is served at once and leaves no trace.  *)
Ask(c, k) ==
    /\ pc[c] = "idle" /\ k \notin cache
    /\ key' = [key EXCEPT ![c] = k]
    /\ Turn(c, IF k \in delayed THEN 3 ELSE 1)
    /\ UNCHANGED <<sessionType, stranded, delayed, cache>>

GetClient(c) ==
    /\ \/ /\ session = "up"
          /\ Moves(c, "client", IF Switches(c) THEN "switch" ELSE "subscribe")
          /\ hand' = [hand EXCEPT ![c] = "current"] /\ UNCHANGED got
       \/ session = "down" /\ pc[c] = "client" /\ Done(c)
    /\ UNCHANGED <<sessionType, stranded, delayed, cache>>

(* A switch that fails is logged and the request goes on.                  *)
Switch(c) ==
    /\ Moves(c, "switch", "subscribe")
    /\ \/ hand[c] = "current" /\ sessionType' = TypeOf(c)
       \/ UNCHANGED sessionType
    /\ UNCHANGED <<stranded, delayed, cache, hand, got>>

Subscribe(c) ==
    /\ hand[c] # "closed"
    /\ Moves(c, "subscribe", "stream")
    /\ UNCHANGED <<sessionType, stranded, delayed, cache, hand, got>>

(* Every early return of a fetch passes by the switch back.                *)
LeaveEarly(c) ==
    /\ stranded' = (stranded \/ (hand[c] = "current" /\ Switches(c)))
    /\ NextType(c)
    /\ UNCHANGED <<sessionType, cache>>

SubscribeFails(c) ==
    /\ pc[c] = "subscribe" /\ LeaveEarly(c) /\ UNCHANGED delayed

(* Bid, ask or last; for an option, model greeks with a delta as well.     *)
DataTick(c) ==
    /\ hand[c] = "current" /\ ~got[c]
    /\ Moves(c, "stream", "stream")
    /\ got' = [got EXCEPT ![c] = TRUE]
    /\ UNCHANGED <<sessionType, stranded, delayed, cache, hand>>

MutantRefusalEndsCall(c) ==
    /\ hand[c] = "current" /\ pc[c] = "stream"
    /\ stranded' = (stranded \/ Switches(c)) /\ Done(c)
    /\ delayed' = IF LiveType(c) THEN delayed \cup {key[c]} ELSE delayed
    /\ UNCHANGED <<sessionType, cache>>
MutantRetryDelayed(c) ==
    /\ hand[c] = "current" /\ pc[c] = "stream"
    /\ stranded' = (stranded \/ Switches(c)) /\ Turn(c, 3)
    /\ delayed' = IF LiveType(c) THEN delayed \cup {key[c]} ELSE delayed
    /\ UNCHANGED <<key, sessionType, cache>>

MutantRawSymbol(c) ==
    /\ hand[c] = "current" /\ pc[c] = "stream" /\ LeaveEarly(c)
    /\ delayed' = IF LiveType(c) THEN delayed \cup {<<"as typed", key[c]>>} ELSE delayed

(* An entitlement error: a live type is given up for this key for good.    *)
Refused(c) ==
    /\ hand[c] = "current" /\ pc[c] = "stream" /\ LeaveEarly(c)
    /\ delayed' = IF LiveType(c) THEN delayed \cup {key[c]} ELSE delayed

StreamError(c) ==
    /\ hand[c] = "current" /\ pc[c] = "stream" /\ LeaveEarly(c)
    /\ UNCHANGED delayed

(* After the loop and the switch back: the quote, or the next type.        *)
Conclude(c) ==
    \/ got[c] /\ cache' = cache \cup {key[c]} /\ Done(c)
    \/ ~got[c] /\ UNCHANGED cache /\ NextType(c)

MutantBackOnlyWithData(c) ==
    /\ pc[c] = "stream" /\ hand[c] # "orphan"
    /\ \/ /\ Switches(c) /\ got[c] /\ Moves(c, "stream", "back")
          /\ UNCHANGED <<cache, hand, got>>
       \/ ~(Switches(c) /\ got[c]) /\ Conclude(c)
    /\ UNCHANGED <<sessionType, stranded, delayed>>

(* SnapshotEnd, or the end of the stream because its session is gone.      *)
StreamEnds(c) ==
    /\ pc[c] = "stream" /\ hand[c] # "orphan"
    /\ \/ Switches(c) /\ Moves(c, "stream", "back") /\ UNCHANGED <<cache, hand, got>>
       \/ ~Switches(c) /\ Conclude(c)
    /\ UNCHANGED <<sessionType, stranded, delayed>>

(* Back to Realtime; a failure is logged.                                  *)
SwitchBack(c) ==
    /\ pc[c] = "back"
    /\ \/ hand[c] = "current" /\ sessionType' = "Realtime" /\ stranded' = FALSE
       \/ hand[c] = "current" /\ UNCHANGED sessionType /\ stranded' = TRUE
       \/ hand[c] # "current" /\ UNCHANGED <<sessionType, stranded>>
    /\ Conclude(c)
    /\ UNCHANGED delayed

-----------------------------------------------------------------------------
Gateway(c) == DataTick(c) \/ Refused(c) \/ StreamError(c)
Progress(c) == GetClient(c) \/ Switch(c) \/ Subscribe(c) \/ SubscribeFails(c)
               \/ StreamEnds(c) \/ SwitchBack(c)

Next ==
    \/ SessionUp \/ SessionDown
    \/ \E k \in Key : Expire(k)
    \/ \E c \in Caller : \/ (\E k \in Key : Ask(c, k))
                         \/ Progress(c) \/ Gateway(c) \/ OrphanCloses(c)

(* Every call proceeds, and the gateway ends every snapshot it accepted: a *)
(* session on which it does not is withdrawn, which closes the streams.    *)
Fairness == \A c \in Caller : WF_vars(Progress(c))

Spec == Init /\ [][Next]_vars
FairSpec == Spec /\ Fairness

-----------------------------------------------------------------------------
(* Properties.                                                             *)

Sources == {Cascade[i] : i \in 1..4}

(* Every variable has its type.                                            *)
TypeOK ==
    /\ session \in {"up", "down"} /\ sessionType \in Sources /\ stranded \in BOOLEAN
    /\ delayed \subseteq Key /\ cache \subseteq Key
    /\ pc \in [Caller -> {"idle", "client", "switch", "subscribe", "stream", "back"}]
    /\ key \in [Caller -> Key \cup {None}] /\ at \in [Caller -> 1..4]
    /\ hand \in [Caller -> {"none", "current", "closed", "orphan"}]
    /\ got \in [Caller -> BOOLEAN]

(* However the calls overlap, the session is in a type other than Realtime *)
(* only while a call that asked for one is still going to switch it back,  *)
(* or because some call returned early past its switch back.               *)
OnlyEarlyReturnStrands ==
    sessionType # "Realtime" =>
      \/ stranded
      \/ \E c \in Caller : /\ hand[c] = "current" /\ Switches(c)
                           /\ pc[c] \in {"subscribe", "stream", "back"}

(* A call ends without a quote only at the end of the cascade or without a *)
(* session: a refusal of live data never hides that delayed data exist.    *)
CascadeExhausted ==
    [][\A c \in Caller :
         pc[c] # "idle" /\ pc'[c] = "idle" => got[c] \/ at[c] = 4 \/ session = "down"]_vars

(* Every call is answered, unless it hangs on the dead socket of a session *)
(* whose disconnect timed out.                                             *)
QuoteAnswered ==
    \A c \in Caller : pc[c] # "idle" ~> (pc[c] = "idle" \/ hand[c] = "orphan")

(* market_data.rs:145: a Realtime request needs no switch because Realtime *)
(* is "already default".                                                   *)
RealtimeIsDefault ==
    \A c \in Caller :
      pc[c] = "subscribe" /\ hand[c] = "current" /\ ~Switches(c) => sessionType = "Realtime"
=============================================================================
