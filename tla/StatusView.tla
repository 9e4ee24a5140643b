------------------------------ MODULE StatusView ------------------------------
(***************************************************************************)
(* What the bridge says of itself.  The status tool (get_connection_status *)
(* in src/src/mcp/tools.rs) and GET /health/broker (src/src/mcp/health.rs) *)
(* make the same reads: the slot, the failure count, and for the outage    *)
(* the failure count again and its start.  Meanwhile the canary stores,    *)
(* one atomic at a time, as in Connection.  GET /health/last-good reads    *)
(* the last-good snapshot (src/src/persistence.rs) twice, while the pump   *)
(* of Account may record another.                                          *)
(*                                                                         *)
(* acc.board and acc.store are not the handler's: they are what canary and *)
(* pump have published.  An outage is reported or not; its length is left  *)
(* out.  A snapshot is when it was fetched, before the call or during it.  *)
(***************************************************************************)
EXTENDS ToolCall

CONSTANT MaxFailures    \* bound: where the failure count saturates

ASSUME StatusAssumption == MaxFailures \in Nat \ {0}

(* pending: the second store of a canary result, still to come.            *)
Board == [failures : 0..MaxFailures, started : BOOLEAN, pending : {"no", "clear", "stamp"}]

(* What a call can find: see OutageFlagsAgree of Connection.               *)
Found == {b \in Board : \/ b.pending = "no" /\ (b.started <=> b.failures > 0)
                        \/ b.pending = "clear" /\ b.failures = 0
                        \/ b.pending = "stamp" /\ b.failures = 1 /\ ~b.started}

CallStatus == \E b \in Found :
    Arrives("get_connection_status", [found |-> b], "status.slot",
            [board |-> b, connected |-> None, failures |-> 0])

(* is_connected: true or false, as the slot happens to be.                 *)
StatusSlot == \E c \in BOOLEAN :
    /\ Goes("status.slot", "status.failures")
    /\ acc' = [acc EXCEPT !.connected = c] /\ UNCHANGED heard

StatusFailures ==
    /\ Goes("status.failures", "status.recheck")
    /\ acc' = [acc EXCEPT !.failures = acc.board.failures] /\ UNCHANGED heard

StatusAnswer(outage) ==
    Success([connected |-> acc.connected, failures |-> acc.failures, outage |-> outage])

(* broker_outage_secs: two loads, None if either says that nothing is wrong*)
MutantStatusRecheck ==
    /\ pc = "status.recheck"
    /\ \/ acc.board.failures = 0 /\ Answers("status.recheck", StatusAnswer(acc.connected = FALSE))
       \/ /\ acc.board.failures > 0
          /\ Goes("status.recheck", "status.started") /\ UNCHANGED <<heard, acc>>

StatusRecheck ==
    /\ pc = "status.recheck"
    /\ \/ acc.board.failures = 0 /\ Answers("status.recheck", StatusAnswer(FALSE))
       \/ /\ acc.board.failures > 0
          /\ Goes("status.recheck", "status.started") /\ UNCHANGED <<heard, acc>>

StatusStarted == Answers("status.started", StatusAnswer(acc.board.started))

(* The canary stores, between any two reads.                               *)
Stored(b) ==
    CASE b.pending = "clear" -> {[b EXCEPT !.started = FALSE, !.pending = "no"]}
      [] b.pending = "stamp" -> {[b EXCEPT !.started = TRUE, !.pending = "no"]}
      [] OTHER -> {[b EXCEPT !.failures = 0, !.pending = "clear"],
                   [b EXCEPT !.failures = IF @ < MaxFailures THEN @ + 1 ELSE @,
                             !.pending = IF b.failures = 0 THEN "stamp" ELSE "no"]}

CanaryStores == \E at \in {"status.slot", "status.failures", "status.recheck", "status.started"} :
    /\ Hears(at, [kind |-> "store"])
    /\ Goes(at, at)
    /\ \E b \in Stored(acc.board) : acc' = [acc EXCEPT !.board = b]

-----------------------------------------------------------------------------
(* The last-good snapshot.                                                 *)

Snapshot == [fetched : {"before", "during"}, fromDisk : BOOLEAN]
ASSUME SnapshotAssumption == None \notin Snapshot
Kept == {s \in Snapshot : s.fetched = "before"}

CallLastGood == \E s \in Kept \cup {None} :
    Arrives("health_last_good", [found |-> s], "snapshot.get", [store |-> s, told |-> None])

(* persistence::get: 404 as long as there is none.                         *)
LastGoodGet ==
    /\ pc = "snapshot.get"
    /\ \/ acc.store = None /\ Answers("snapshot.get", Failure("no snapshot"))
       \/ /\ acc.store # None /\ Goes("snapshot.get", "snapshot.age")
          /\ acc' = [acc EXCEPT !.told = acc.store] /\ UNCHANGED heard

(* persistence::age_secs looks the snapshot up again.                      *)
MutantLastGoodAge ==
    Answers("snapshot.age", Success([told |-> acc.told,
        fetched |-> IF acc.told.fromDisk THEN "during" ELSE acc.store.fetched]))

LastGoodAge ==
    Answers("snapshot.age", Success([told |-> acc.told, fetched |-> acc.store.fetched]))

(* persistence::record, by the pump.                                       *)
PumpRecords == \E at \in {"snapshot.get", "snapshot.age"} :
    /\ Hears(at, [kind |-> "record"])
    /\ Goes(at, at)
    /\ acc' = [acc EXCEPT !.store = [fetched |-> "during", fromDisk |-> FALSE]]

-----------------------------------------------------------------------------
StatusCall == CallStatus \/ CallLastGood
StatusOwn == StatusSlot \/ StatusFailures \/ StatusRecheck \/ StatusStarted
             \/ LastGoodGet \/ LastGoodAge
StatusOthers == CanaryStores \/ PumpRecords

-----------------------------------------------------------------------------
(* Properties.                                                             *)

(* The failures and the outage in one status answer contradict each other  *)
(* only if the canary stored during the call, or the call fell between the *)
(* two stores of one result; an outage is never invented: its start was    *)
(* there at the beginning or was stored since.                             *)
StatusTellsOneStory ==
    pc = "done" /\ tool = "get_connection_status" =>
      /\ heard = <<>> /\ args.found.pending = "no" =>
           (answer.body.outage <=> answer.body.failures > 0)
      /\ answer.body.outage => args.found.started \/ heard # <<>>

(* A snapshot is told with another's age only if the pump recorded between *)
(* the two reads, and then with a younger one: the age belongs to the told *)
(* snapshot or to a later one, wherever that came from.                    *)
AgeOfToldOrLater ==
    pc = "done" /\ tool = "health_last_good" /\ answer.ok =>
      /\ answer.body.told.fetched = "during" => answer.body.fetched = "during"
      /\ Heard("record") = {} => /\ answer.body.told = args.found
                                /\ answer.body.fetched = args.found.fetched
=============================================================================
