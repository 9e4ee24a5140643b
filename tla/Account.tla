------------------------------ MODULE Account ------------------------------
(***************************************************************************)
(* Account information (src/src/ibkr/account.rs) and the last-good         *)
(* snapshot (src/src/persistence.rs): callers of get_account_info, the one *)
(* background pump that holds the account-summary subscription, the cache  *)
(* between them, and the snapshot kept in memory and in a file across      *)
(* crashes.                                                                *)
(*                                                                         *)
(* A snapshot is abstracted to the set of tags it really holds, of those   *)
(* build_account_info reads - the others are the 0.0 it puts for a missing *)
(* tag.  Ages are counted in ticks; the sleeps of the pump and the 10 s of *)
(* a caller end at some later moment.  Definitions named Mutant... are not *)
(* part of the model: see Connection.tla.                                  *)
(***************************************************************************)
EXTENDS Integers, Sequences, FiniteSets

CONSTANTS
    Caller,       \* concurrent callers of get_account_info
    Tags,         \* the summary tags requested
    NLV,          \* NetLiquidation, one of Tags
    None,         \* no snapshot, no file
    Corrupt,      \* a file that does not parse
    CacheTtl,     \* cache_ttl in ticks
    StaleMax,     \* stale_max in ticks
    Cap           \* concurrent account-summary requests a session allows

ASSUME TagAssumption ==
    /\ NLV \in Tags
    /\ None # Corrupt
    /\ \A s \in SUBSET Tags : s # None /\ s # Corrupt
ASSUME CallerAssumption == IsFiniteSet(Caller)
ASSUME AgeAssumption ==
    /\ CacheTtl \in Nat \ {0} /\ StaleMax \in Nat /\ CacheTtl < StaleMax
    /\ Cap \in Nat \ {0}

VARIABLES
    conn,        \* the session on offer, as in ClientSlot
    leaked,      \* environment: slots the gateway holds for closed requests
    hand,        \* the pump's own client, as in ClientSlot
    pumpRunning, \* SummaryState.pump_running
    pumps,       \* history: pump tasks spawned in this process
    ppc,         \* where the pump is
    got,         \* the pump's accumulator: tags of this subscription
    ended,       \* this subscription has delivered End
    cache,       \* tags of the cached snapshot, or None
    age,         \* its age in ticks
    last,        \* the last-good snapshot in memory
    disk,        \* the last-good file
    cpc,         \* where each caller is
    queue,       \* fetch_lock: its holder, then those that wait, in order
    present,     \* history: length of the queue when the holder began to wait
    waits        \* history: 10 s waits of others that lie within a caller's call

pumpVars == <<hand, pumpRunning, pumps, ppc, got, ended>>
storeVars == <<last, disk>>
callerVars == <<cpc, queue, present, waits>>
vars == <<conn, leaked, pumpVars, cache, age, storeVars, callerVars>>

Snapshots == {None} \cup {s : s \in SUBSET Tags}
Fresh == cache # None /\ age < CacheTtl

-----------------------------------------------------------------------------
Init ==
    /\ conn = "none" /\ leaked = 0
    /\ hand = "none" /\ pumpRunning = FALSE /\ pumps = 0
    /\ ppc = "off" /\ got = {} /\ ended = FALSE
    /\ cache = None /\ age = 0
    /\ last = None /\ disk = None
    /\ cpc = [c \in Caller |-> "idle"] /\ queue = <<>>
    /\ present = 0 /\ waits = [c \in Caller |-> 0]

-----------------------------------------------------------------------------
(* Environment: the connection manager, as ClientSlot describes it and as  *)
(* Connection keeps it (ImplementsClientSlot), and time.                   *)

Slot == INSTANCE ClientSlot

ManagerOnly ==
    UNCHANGED <<pumpRunning, pumps, ppc, got, ended, cache, age, storeVars, callerVars>>

SessionUp == Slot!Offered /\ leaked' = 0 /\ ManagerOnly
SessionStale == Slot!TurnsStale /\ UNCHANGED leaked /\ ManagerOnly
SessionDies == Slot!Dies /\ UNCHANGED leaked /\ ManagerOnly
SessionDown == Slot!Withdrawn /\ UNCHANGED leaked /\ ManagerOnly
OrphanCloses == Slot!Closes /\ UNCHANGED leaked /\ ManagerOnly

Tick ==
    /\ cache # None /\ age < StaleMax
    /\ age' = age + 1
    /\ UNCHANGED <<conn, leaked, pumpVars, cache, storeVars, callerVars>>

(* The process dies and a new one starts: load_from_disk takes the file if *)
(* it parses and ignores it otherwise.                                     *)
MutantLoadWhateverIsThere == disk

LoadFromDisk == IF disk = Corrupt THEN None ELSE disk

Crash ==
    /\ Slot!Ends /\ leaked' = 0
    /\ pumpRunning' = FALSE /\ pumps' = 0
    /\ ppc' = "off" /\ got' = {} /\ ended' = FALSE
    /\ cache' = None /\ age' = 0
    /\ last' = LoadFromDisk /\ disk' = disk
    /\ cpc' = [c \in Caller |-> "idle"] /\ queue' = <<>>
    /\ present' = 0 /\ waits' = [c \in Caller |-> 0]

-----------------------------------------------------------------------------
(* pump_loop.                                                              *)

PumpMoves(from, to) ==
    /\ ppc = from /\ ppc' = to
    /\ UNCHANGED <<conn, pumpRunning, pumps, callerVars>>

PumpGetClient ==
    /\ Slot!GetClient
    /\ \/ conn # "none" /\ PumpMoves("client", "open")
       \/ conn = "none" /\ PumpMoves("client", "pause")
    /\ UNCHANGED <<leaked, got, ended, cache, age, storeVars>>

(* sleep_with_backoff, or the five minutes after a [322].                  *)
PumpWakes ==
    /\ PumpMoves("pause", "client")
    /\ UNCHANGED <<leaked, hand, got, ended, cache, age, storeVars>>

(* account_summary starts a subscription with an empty accumulator.  Over  *)
(* the cap the refusal is an error of the call, or a notice on a stream    *)
(* that then stays silent.                                                 *)
OverCap == hand = "current" /\ leaked >= Cap

PumpOpen ==
    /\ hand # "closed"
    /\ \/ ~OverCap /\ PumpMoves("open", "stream")
       \/ OverCap /\ PumpMoves("open", "refused")
    /\ got' = {} /\ ended' = FALSE
    /\ UNCHANGED <<leaked, hand, cache, age, storeVars>>

PumpOpenFails ==
    /\ hand = "closed" \/ OverCap
    /\ PumpMoves("open", "pause")
    /\ UNCHANGED <<leaked, hand, got, ended, cache, age, storeVars>>

(* build_account_info, and the cache under its mutex.                      *)
CacheWrite == cache' = got' /\ age' = 0

(* A session that has been withdrawn may still deliver until it is closed. *)
Delivers == (hand = "current" /\ conn = "live") \/ hand = "orphan"

(* One Summary item.  The cache is written as soon as NLV has been seen.   *)
PumpSummary(t) ==
    /\ Delivers
    /\ got' = got \cup {t}
    /\ \/ NLV \in got' /\ CacheWrite /\ PumpMoves("stream", "record")
       \/ NLV \notin got' /\ UNCHANGED <<cache, age>> /\ PumpMoves("stream", "stream")
    /\ UNCHANGED <<leaked, hand, ended, storeVars>>

(* End closes the initial snapshot; what has come by then is written, NLV  *)
(* or not, unless nothing has come at all.                                 *)
PumpEnd ==
    /\ Delivers
    /\ ~ended /\ ended' = TRUE
    /\ UNCHANGED got
    /\ \/ got # {} /\ CacheWrite /\ PumpMoves("stream", "record")
       \/ got = {} /\ UNCHANGED <<cache, age>> /\ PumpMoves("stream", "stream")
    /\ UNCHANGED <<leaked, hand, storeVars>>

(* persistence::record: memory, then fs::write, which opens the file - the *)
(* path may be unwritable, which is only logged - and truncates it.        *)
MutantRecordOnce ==
    /\ PumpMoves("record", "truncate")
    /\ last' = IF last = None THEN got ELSE last
    /\ UNCHANGED <<leaked, hand, got, ended, cache, age, disk>>

RecordMemory ==
    /\ PumpMoves("record", "truncate")
    /\ last' = got
    /\ UNCHANGED <<leaked, hand, got, ended, cache, age, disk>>

RecordTruncate ==
    /\ \/ PumpMoves("truncate", "write") /\ disk' = Corrupt
       \/ PumpMoves("truncate", "stream") /\ UNCHANGED disk
    /\ UNCHANGED <<leaked, hand, got, ended, cache, age, last>>

(* The content reaches the file, or the write fails and is only logged.    *)
RecordWrite ==
    /\ PumpMoves("write", "stream")
    /\ disk' \in {got, Corrupt}
    /\ UNCHANGED <<leaked, hand, got, ended, cache, age, last>>

(* The loop body is left, and its accumulator with it.                     *)
PumpPauses(from) == PumpMoves(from, "pause") /\ got' = {} /\ ended' = FALSE

(* An Err item on a session that stays: dropping a subscription cancels it *)
(* at the gateway, but not once its End has been consumed.                 *)
StreamFault ==
    /\ hand = "current"
    /\ PumpPauses("stream")
    /\ leaked' = IF ended /\ leaked < Cap THEN leaked + 1 ELSE leaked
    /\ UNCHANGED <<hand, cache, age, storeVars>>

(* The session closed under the stream.                                    *)
MutantPumpExits ==
    /\ hand = "closed"
    /\ PumpMoves("stream", "off") \/ PumpMoves("refused", "off")
    /\ UNCHANGED <<leaked, hand, got, ended, cache, age, storeVars>>

StreamCloses ==
    /\ hand = "closed"
    /\ PumpPauses("stream") \/ PumpPauses("refused")
    /\ UNCHANGED <<leaked, hand, cache, age, storeVars>>

Deliver == (\E t \in Tags : PumpSummary(t)) \/ PumpEnd

Pump ==
    \/ PumpGetClient \/ PumpWakes \/ PumpOpen \/ PumpOpenFails
    \/ RecordMemory \/ RecordTruncate \/ RecordWrite
    \/ StreamCloses

-----------------------------------------------------------------------------
(* get_account_info.                                                       *)

CallerSees == UNCHANGED <<conn, leaked, hand, got, ended, cache, age, storeVars>>
KeepPump == UNCHANGED <<pumpRunning, pumps, ppc>>

Open(c) == cpc[c] # "idle"

Return(c) ==
    /\ cpc' = [cpc EXCEPT ![c] = "idle"]
    /\ waits' = [waits EXCEPT ![c] = 0]

(* Drop of the permit: the next in the queue gets the lock.                *)
MutantLeakPermit == UNCHANGED queue /\ present' = 0

Release == queue' = Tail(queue) /\ present' = 0

(* A call that finds a fresh cache is served at once and leaves no trace.  *)
CallQueues(c) ==
    /\ ~Open(c) /\ ~Fresh
    /\ cpc' = [cpc EXCEPT ![c] = "queued"]
    /\ queue' = Append(queue, c)
    /\ KeepPump /\ UNCHANGED <<present, waits>> /\ CallerSees

(* spawn_summary_pump: compare_exchange on pump_running.                   *)
MutantSpawnAlways == pumpRunning' = TRUE /\ pumps' = pumps + 1 /\ ppc' = "client"

SpawnSummaryPump ==
    IF pumpRunning
    THEN KeepPump
    ELSE pumpRunning' = TRUE /\ pumps' = pumps + 1 /\ ppc' = "client"

(* The lock is granted: look again, then make sure the pump runs and wait. *)
Acquire(c) ==
    /\ cpc[c] = "queued" /\ Head(queue) = c
    /\ \/ Fresh /\ Return(c) /\ Release /\ KeepPump
       \/ /\ ~Fresh /\ cpc' = [cpc EXCEPT ![c] = "waiting"]
          /\ SpawnSummaryPump
          /\ present' = Len(queue) /\ UNCHANGED <<queue, waits>>
    /\ CallerSees

Poll(c) ==
    /\ cpc[c] = "waiting" /\ Fresh
    /\ Return(c) /\ Release
    /\ KeepPump /\ CallerSees

(* Ten seconds are over.  They lie within the calls of all that were       *)
(* queued when they began.                                                 *)
WaitEnds(c) ==
    /\ cpc[c] = "waiting"
    /\ cpc' = [cpc EXCEPT ![c] = "idle"]
    /\ waits' = [d \in Caller |->
                   IF \E i \in 2..present : queue[i] = d THEN waits[d] + 1
                   ELSE IF d = c THEN 0 ELSE waits[d]]
    /\ Release
    /\ KeepPump /\ CallerSees

(* The caller is given what is younger than stale_max, or an error.        *)
ServeStale(c) == cache # None /\ age < StaleMax /\ WaitEnds(c)
MutantRefuseOnlyStale(c) == cache # None /\ age >= StaleMax /\ WaitEnds(c)
MutantRetry(c) ==
    /\ cpc[c] = "waiting" /\ cpc' = [cpc EXCEPT ![c] = "queued"]
    /\ waits' = [d \in Caller |->
                   IF \E i \in 2..present : queue[i] = d THEN waits[d] + 1 ELSE waits[d]]
    /\ queue' = Append(Tail(queue), c) /\ present' = 0
    /\ KeepPump /\ CallerSees
Refuse(c) == (cache = None \/ age >= StaleMax) /\ WaitEnds(c)

CallerStep(c) == Acquire(c) \/ Poll(c) \/ ServeStale(c) \/ Refuse(c)

-----------------------------------------------------------------------------
Next ==
    \/ SessionUp \/ SessionStale \/ SessionDies \/ SessionDown \/ OrphanCloses
    \/ Tick \/ Crash
    \/ Pump \/ Deliver \/ StreamFault
    \/ \E c \in Caller : CallQueues(c) \/ CallerStep(c)

(* The pump's sleeps end, a caller's 10 s end, and a live gateway pushes   *)
(* every tag again on an open subscription.  Nothing is assumed of the     *)
(* connection, of time, or of a half-dead socket.                          *)
Fairness ==
    /\ WF_vars(Pump)
    /\ \A t \in Tags : WF_vars(PumpSummary(t) /\ hand = "current")
    /\ \A c \in Caller : WF_vars(CallerStep(c))

Spec == Init /\ [][Next]_vars
FairSpec == Spec /\ Fairness

-----------------------------------------------------------------------------
(* Properties.                                                             *)

TypeOK ==
    /\ conn \in {"none", "live", "stale", "dead"} /\ leaked \in 0..Cap
    /\ hand \in {"none", "current", "closed", "orphan"}
    /\ pumpRunning \in BOOLEAN /\ pumps \in Nat
    /\ ppc \in {"off", "client", "open", "stream", "refused", "record", "truncate",
                "write", "pause"}
    /\ got \in SUBSET Tags /\ ended \in BOOLEAN
    /\ cache \in Snapshots /\ age \in 0..StaleMax
    /\ last \in Snapshots /\ disk \in {Corrupt} \cup Snapshots
    /\ cpc \in [Caller -> {"idle", "queued", "waiting"}]
    /\ queue \in Seq(Caller) /\ present \in Nat
    /\ waits \in [Caller -> Nat]

(* However many callers miss the cache at once, and however often sessions *)
(* and streams break off, at most one pump task is ever spawned by a       *)
(* process, and pump_running says whether it has been.  This is not what   *)
(* the comment at account.rs:226 says, by which the pump clears the flag   *)
(* and exits when its stream ends and the next call spawns another: the    *)
(* loop reopens its stream itself, nothing clears the flag, and no call    *)
(* spawns a second pump.                                                   *)
OnePump == pumps <= 1 /\ (ppc # "off" <=> pumpRunning)

(* One caller at a time waits for the pump, and it is the one at the head  *)
(* of the lock's queue, in which each open call stands once.               *)
LockDiscipline ==
    /\ \A c \in Caller : cpc[c] = "waiting" => queue # <<>> /\ Head(queue) = c
    /\ \A c \in Caller : Open(c) <=> \E i \in DOMAIN queue : queue[i] = c
    /\ \A i, j \in DOMAIN queue : queue[i] = queue[j] => i = j

(* A call lasts at most one 10 s wait of each other caller before its own. *)
WaitBounded == \A c \in Caller : waits[c] < Cardinality(Caller)

(* The last-good snapshot health serves is the cached one, except while it *)
(* is being recorded; and as long as the process has none, no file has one *)
(* it should have loaded.  A file that a crash left truncated is lost, and *)
(* is allowed here: what must not happen is that it is taken for a         *)
(* snapshot, or that the three tell different ones.                        *)
LastGoodFollowsCache ==
    /\ cache # None /\ ppc # "record" => last = cache
    /\ last = None => disk \in {None, Corrupt}

(* Every call is answered, whatever the gateway does.                      *)
EveryCallAnswered == \A c \in Caller : Open(c) ~> ~Open(c)

(* A pump on a healthy session gets back to a fresh cache, as long as the *)
(* gateway has a slot left for it and the pump does not hang on the dead   *)
(* socket of the session before.                                           *)
PumpRecovers ==
    /\ <>[](conn = "live" /\ leaked < Cap /\ pumpRunning /\ hand # "orphan")
    /\ <>[][~StreamFault]_vars
    => []<>Fresh

(* account.rs:334-335: the cache is written "once NLV is present to avoid  *)
(* partial snapshots".                                                     *)
NoPartialSnapshot == cache # None => cache = Tags

(* account.rs:139-141: callers "wait (bounded by 10s)".                    *)
CallBoundedByOneWait == \A c \in Caller : waits[c] = 0
=============================================================================
