--------------------------------- MODULE Tools ---------------------------------
(***************************************************************************)
(* The tool surface (src/src/mcp/tools.rs): any tool, or health endpoint,  *)
(* may be called, and after its answer the next.  Quotes are the subject   *)
(* of MarketData, the numbers of an account that of Account.               *)
(***************************************************************************)
EXTENDS OpenOrders, Fills, History, Events, Scanner, Chains, StatusView

Calls == CallAccountInfo \/ OpenOrdersCall \/ FillsCall \/ HistoryCall
         \/ EventsCall \/ ScannerCall \/ ChainsCall \/ StatusCall

(* What a handler does by itself: it needs no answer from the gateway, a   *)
(* timer at most.                                                          *)
Own == AccountInfo \/ OpenOrdersOwn \/ FillsOwn \/ HistoryOwn \/ EventsOwn
       \/ ScannerOwn \/ ChainsOwn \/ StatusOwn

Gateway == OpenOrdersGateway \/ FillsGateway \/ HistoryGateway \/ EventsGateway
           \/ ScannerGateway \/ ChainsGateway

Next == Calls \/ Own \/ Gateway \/ ScannerPeers \/ StatusOthers \/ Sent

(* Timers run out and requests are sent; the gateway owes nothing.         *)
Spec == Init /\ [][Next]_vars
FairSpec == Spec /\ WF_vars(Own)

-----------------------------------------------------------------------------
(* Properties.                                                             *)

ToolName == AccountScoped \cup
    {"get_historical_data", "get_market_data", "get_iv_rank", "get_historical_ticks",
     "get_events", "run_scanner", "get_option_chain", "get_bulk_quotes", "get_connection_status",
     "health_last_good"}

ASSUME NoneAssumption == None \notin ToolName

Await == {"account.answer", "orders.open", "orders.stream", "preview.open",
          "preview.stream", "positions.open", "positions.stream", "positions.pnl",
          "fills.open", "fills.stream", "bars.open", "bars.fetch", "iv.open", "iv.fetch",
          "ticks.open", "ticks.stream", "events.open", "events.resolve", "events.probe",
          "events.fetch", "scan.open", "scan.subscribe", "scan.stream",
          "chain.open", "chain.resolve", "chain.stream", "bulk.join",
          "status.slot", "status.failures", "status.recheck", "status.started",
          "snapshot.get", "snapshot.age"}

(* Every variable has its type, and a call has an answer when it is done.  *)
TypeOK ==
    /\ gate \subseteq Flag /\ spoken \subseteq Flag
    /\ tool \in ToolName \cup {None}
    /\ pc \in Await \cup {"ready", "done"}
    /\ pc = "ready" <=> tool = None
    /\ Len(heard) <= Patience + 1
    /\ IF pc = "done" THEN answer.ok \in BOOLEAN ELSE answer = None
    /\ permits \in 0..MaxScans /\ peers \in 0..MaxScans /\ ghosts \in 0..MaxGhosts

(* A success on the broker's data rests on something that came from the    *)
(* session, never on a timer or an error: orders on the end of their       *)
(* stream, the others on data.  The stream of orders ends with openOrderEnd*)
(* or with its session, and open_orders takes both for the end of the list *)
(* (orders.rs:153), so a list cut off by a closing session is a success    *)
(* too, although orders.rs:126 says "a failed read is an error".           *)
(* Positions, executions and scans are not among them: they take silence   *)
(* for an empty list.                                                      *)
SuccessRestsOnData ==
    pc = "done" /\ answer.ok =>
      CASE tool = "get_open_orders" -> Heard("end") \cup Heard("closed") # {}
        [] tool = "what_if" -> \E i \in Heard("preview") : heard[i].own
        [] tool \in {"get_historical_data", "get_market_data", "get_iv_rank"} ->
               Heard("bars") # {}
        [] tool = "get_historical_ticks" -> Heard("tick") # {}
        [] tool = "get_events" -> Heard("payload") \cup Heard("fetch error") # {}
        [] tool = "get_option_chain" -> Heard("chain") # {}
        [] OTHER -> TRUE

(* A gateway that never answers keeps no call waiting, except those of the *)
(* two tools whose requests are under no timer.                            *)
AnsweredDespiteSilence ==
    tool \in ToolName \ {"get_option_chain", "get_bulk_quotes"} ~> pc = "done"
=============================================================================
