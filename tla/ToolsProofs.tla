------------------------------ MODULE ToolsProofs ------------------------------
(***************************************************************************)
(* Theorems about Tools, for every set of accounts, orders, contracts and  *)
(* fills, and every limit.                                                 *)
(*                                                                         *)
(* That permits are accounted for needs only that they are numbers.  That  *)
(* calls are refused as configured needs more: that the gate holds what    *)
(* the operator said last, and that whoever is past the gate is someone    *)
(* the gate lets through.                                                  *)
(***************************************************************************)
EXTENDS Tools, TLAPS

ScanAwait == {"scan.open", "scan.subscribe", "scan.stream"}

(* What the operator asked to refuse, in terms of the gate.                *)
Refused == Refuses(tool, args.account)

(* A call arrives and is let in, refused, or rejected for its arguments.   *)
Admits ==
    /\ UNCHANGED <<gate, spoken>>
    /\ tool' \in AccountScoped => args'.account \in AccountArg
    /\ \/ pc' \notin {"ready", "done"} /\ ~Refused'
       \/ /\ pc' = "done" /\ ~answer'.ok
          /\ answer'.why = "refused" <=> Refused'

(* The handler goes on; if it answers, then not with a refusal.            *)
Works ==
    /\ UNCHANGED frame
    /\ pc \notin {"ready", "done"} /\ pc' # "ready"
    /\ pc' = "done" => answer'.ok \/ answer'.why # "refused"

(* A step of the tools that have nothing to do with scans.                 *)
Quiet ==
    /\ UNCHANGED scans
    /\ pc \notin ScanAwait /\ pc' \notin ScanAwait

(* The shapes of a step, as far as permits go.                             *)
Takes == /\ permits > 0 /\ permits' = permits - 1 /\ peers' = peers
         /\ pc \notin ScanAwait /\ pc' \in ScanAwait
Gives == /\ permits' = permits + 1 /\ peers' = peers
         /\ pc \in ScanAwait /\ pc' \notin ScanAwait
Holds == /\ permits' = permits /\ peers' = peers
         /\ pc \in ScanAwait <=> pc' \in ScanAwait
PeerTakes == /\ permits > 0 /\ permits' = permits - 1 /\ peers' = peers + 1
             /\ pc' = pc
PeerGives == /\ peers > 0 /\ permits' = permits + 1 /\ peers' = peers - 1
             /\ pc' = pc

GateInv ==
    /\ gate = spoken
    /\ pc # "ready" /\ tool \in AccountScoped => args.account \in AccountArg
    /\ pc \notin {"ready", "done"} => ~Refused
    /\ RefusedAsConfigured

PermitInv ==
    /\ permits \in Nat /\ peers \in Nat
    /\ PermitsAccounted

-----------------------------------------------------------------------------
USE DEF ScanAwait, Quiet, frame, scans, call

LEMMA QuietOrders == OpenOrdersCall \/ OpenOrdersOwn \/ OpenOrdersGateway => Quiet
<1>1. ASSUME OpenOrdersCall PROVE Quiet
  BY <1>1 DEF OpenOrdersCall, CallOpenOrders, CallWhatIf, Gated, Arrives, Enters, Rejected
<1>2. ASSUME OpenOrdersOwn PROVE Quiet
  BY <1>2 DEF OpenOrdersOwn, OpenOrdersOpen, OrdersTimeout, WhatIfOpen, WhatIfTimeout,
              Opens, Goes, Answers, Concludes, TimesOut
<1>3. ASSUME OpenOrdersGateway PROVE Quiet
  BY <1>3 DEF OpenOrdersGateway, OrdersMessage, OrdersEnd, OrdersClose, OrdersFail, WhatIfItem,
              WhatIfReply, WhatIfCloses, Hears, Goes, Settles, Concludes, Answers, Fails
<1> QED
  BY <1>1, <1>2, <1>3

LEMMA QuietFills == FillsCall \/ FillsOwn \/ FillsGateway => Quiet
<1>1. ASSUME FillsCall PROVE Quiet
  BY <1>1 DEF FillsCall, CallPositions, CallExecutions, Gated, Arrives, Enters, Rejected
<1>2. ASSUME FillsOwn PROVE Quiet
  BY <1>2 DEF FillsOwn, PositionsOpen, PositionsSilent, PnlMissing, ExecutionsOpen,
              ExecutionsSilent, PositionsCollected, PnlRow, ExecutionsCollected,
              Opens, Goes, Answers, Concludes
<1>3. ASSUME FillsGateway PROVE Quiet
  BY <1>3 DEF FillsGateway, PositionItem, PositionEnd, PositionsFail, PnlReply, FillItem,
              CommissionItem, ExecutionsEnd, ExecutionsFail, PositionsCollected, PnlRow,
              ExecutionsCollected, Hears, Goes, Answers, Concludes, Fails
<1> QED
  BY <1>1, <1>2, <1>3

LEMMA QuietHistory == HistoryCall \/ HistoryOwn \/ HistoryGateway => Quiet
<1>1. ASSUME HistoryCall PROVE Quiet
  BY <1>1 DEF HistoryCall, CallHistoricalData, CallMarketDataHistorical, CallIvRank,
              CallTicks, Arrives, Enters, Rejected
<1>2. ASSUME HistoryOwn PROVE Quiet
  BY <1>2 DEF HistoryOwn, BarsOpen, BarsTimeout, IvOpen, IvTimeout, TicksOpen, TicksIdle,
              Opens, Goes, Answers, Concludes, TimesOut
<1>3. ASSUME HistoryGateway PROVE Quiet
  BY <1>3 DEF HistoryGateway, BarsReply, BarsFail, IvReply, IvFail, FetchBars, TicksItem,
              TicksEnd, TicksFail, TicksRefused, Hears, Goes, Settles, Concludes, Answers, Fails
<1> QED
  BY <1>1, <1>2, <1>3

LEMMA QuietEvents == EventsCall \/ EventsOwn \/ EventsGateway => Quiet
<1>1. ASSUME EventsCall PROVE Quiet
  BY <1>1 DEF EventsCall, CallEvents, Arrives, Enters, Rejected
<1>2. ASSUME EventsOwn PROVE Quiet
  BY <1>2 DEF EventsOwn, EventsResolveTimeout, EventsOpen, EventsProbeTimeout, EventsTimeout,
              Probed, Goes, Answers, Concludes, TimesOut
<1>3. ASSUME EventsGateway PROVE Quiet
  BY <1>3 DEF EventsGateway, EventsResolve, EventsProbe, EventsFetch, Probed,
              Hears, Goes, Settles, Concludes, Answers, Fails
<1> QED
  BY <1>1, <1>2, <1>3

LEMMA QuietChains == ChainsCall \/ ChainsOwn \/ ChainsGateway => Quiet
<1>1. ASSUME ChainsCall PROVE Quiet
  BY <1>1 DEF ChainsCall, CallOptionChain, CallBulkQuotes, Arrives, Enters
<1>2. ASSUME ChainsOwn PROVE Quiet
  BY <1>2 DEF ChainsOwn, ChainOpen, BulkJoins, Goes, Answers, Concludes
<1>3. ASSUME ChainsGateway PROVE Quiet
  BY <1>3 DEF ChainsGateway, ChainResolved, ChainItem, ChainEnd, ChainFail, TaskEnds,
              Hears, Goes, Settles, Concludes, Answers, Fails
<1> QED
  BY <1>1, <1>2, <1>3

LEMMA QuietStatus == StatusCall \/ StatusOwn \/ StatusOthers => Quiet
<1>1. ASSUME StatusCall PROVE Quiet
  BY <1>1 DEF StatusCall, CallStatus, CallLastGood, Arrives, Enters
<1>2. ASSUME StatusOwn PROVE Quiet
  BY <1>2 DEF StatusOwn, StatusSlot, StatusFailures, StatusRecheck, StatusStarted,
              LastGoodGet, LastGoodAge, Goes, Answers, Concludes
<1>3. ASSUME StatusOthers PROVE Quiet
  BY <1>3 DEF StatusOthers, CanaryStores, PumpRecords, Hears, Goes
<1> QED
  BY <1>1, <1>2, <1>3

LEMMA QuietFrame == CallAccountInfo \/ AccountInfo \/ Sent => Quiet
  BY DEF CallAccountInfo, AccountInfo, Sent, Gated, Arrives, Enters, Rejected,
         Answers, Concludes

-----------------------------------------------------------------------------
LEMMA PermitInit == Init => PermitInv
  BY BoundAssumption DEF Init, PermitInv, PermitsAccounted, ScanRunning

LEMMA ShapesKeepPermits ==
    ASSUME PermitInv, Takes \/ Gives \/ Holds \/ PeerTakes \/ PeerGives
    PROVE  PermitInv'
<1>1. ScanRunning <=> pc \in ScanAwait
  BY DEF ScanRunning
<1>2. ScanRunning' <=> pc' \in ScanAwait
  BY DEF ScanRunning
<1> HIDE DEF ScanAwait
<1>3. CASE Takes
  BY <1>1, <1>2, <1>3 DEF Takes, PermitInv, PermitsAccounted
<1>4. CASE Gives
  BY <1>1, <1>2, <1>4 DEF Gives, PermitInv, PermitsAccounted
<1>5. CASE Holds
  BY <1>1, <1>2, <1>5 DEF Holds, PermitInv, PermitsAccounted
<1>6. CASE PeerTakes
  BY <1>1, <1>2, <1>6 DEF PeerTakes, PermitInv, PermitsAccounted
<1>7. CASE PeerGives
  BY <1>1, <1>2, <1>7 DEF PeerGives, PermitInv, PermitsAccounted
<1> QED
  BY <1>3, <1>4, <1>5, <1>6, <1>7

(* Each step of a scan has one of the shapes: the ways out all give back.  *)
LEMMA ScannerShapes ==
    ASSUME PermitInv, ScannerCall \/ ScannerOwn \/ ScannerGateway \/ ScannerPeers
    PROVE  Takes \/ Gives \/ Holds \/ PeerTakes \/ PeerGives
<1> USE DEF Takes, Gives, Holds, ScanOver, ReleasePermit, Concludes, Goes
<1>1. CASE ScannerCall
  BY <1>1 DEF ScannerCall, CallScanner, PermitFree, Enters, Rejected
<1>2. CASE ScannerOwn
  <2>1. CASE ScanOpen
    BY <2>1 DEF ScanOpen, ScanFails
  <2>2. CASE ScanSubscribeTimeout
    BY <2>2 DEF ScanSubscribeTimeout
  <2>3. CASE ScanTimer
    BY <2>3 DEF ScanTimer, ScanFinishes
  <2> QED
    BY <1>2, <2>1, <2>2, <2>3 DEF ScannerOwn
<1>3. CASE ScannerGateway
  <2>1. CASE ScanSubscribed \/ ScanNotice
    BY <2>1 DEF ScanSubscribed, ScanNotice, Hears
  <2>2. CASE ScanSubscribeFails \/ ScanFail
    BY <2>2 DEF ScanSubscribeFails, ScanFail, ScanFails
  <2>3. CASE ScanBatch
    BY <2>3 DEF ScanBatch, Hears
  <2>4. CASE ScanEnd
    BY <2>4 DEF ScanEnd, ScanFinishes
  <2> QED
    BY <1>3, <2>1, <2>2, <2>3, <2>4 DEF ScannerGateway
<1>4. CASE ScannerPeers
  <2>1. PeerStarts => PeerTakes
    BY DEF PeerStarts, PeerTakes
  <2>2. PeerEnds => PeerGives
    BY DEF PeerEnds, PeerGives
  <2>3. GhostCloses => Holds
    BY DEF GhostCloses
  <2> QED
    BY <1>4, <2>1, <2>2, <2>3 DEF ScannerPeers
<1> QED
  BY <1>1, <1>2, <1>3, <1>4

LEMMA PermitNext == PermitInv /\ [Next]_vars => PermitInv'
<1> SUFFICES ASSUME PermitInv, [Next]_vars PROVE PermitInv'
  OBVIOUS
<1>1. CASE ScannerCall \/ ScannerOwn \/ ScannerGateway \/ ScannerPeers
  BY <1>1, ScannerShapes, ShapesKeepPermits
<1>2. Quiet \/ UNCHANGED vars => Holds
  BY DEF Holds, vars
<1>3. ASSUME Next, ~(ScannerCall \/ ScannerOwn \/ ScannerGateway \/ ScannerPeers)
      PROVE  Quiet
  BY <1>3, QuietOrders, QuietFills, QuietHistory, QuietEvents, QuietChains, QuietStatus,
     QuietFrame, Zenon DEF Next, Calls, Own, Gateway
<1> QED
  BY <1>1, <1>2, <1>3, ShapesKeepPermits

(* No scan gets lost and none is counted twice: the permits left, the      *)
(* other scans and the scan followed make up the limit.                    *)
THEOREM NoPermitLost == Spec => []PermitsAccounted
<1>1. PermitInv => PermitsAccounted
  BY DEF PermitInv
<1> QED
  BY <1>1, PermitInit, PermitNext, PTL DEF Spec

-----------------------------------------------------------------------------
(* The gate.                                                               *)

(* The two readings of the layers agree: a flag is on in the gate exactly  *)
(* if the last layer that sets it says true.                               *)
THEOREM GateIsLastWord ==
    ASSUME NEW layers \in Layers
    PROVE  FromConfig(layers) = LastWord(layers)
<1>1. ASSUME NEW f \in Flag
      PROVE  Merged(layers, f) /\ IsExplicit(layers, f) <=>
             \E i \in 1..3 : /\ layers[i][f] = "true"
                            /\ \A j \in (i + 1)..3 : layers[j][f] = "unset"
  <2>1. \A i \in 1..3 : layers[i][f] \in {"unset", "true", "false"}
    BY DEF Layers
  <2>2. 1..3 = {1, 2, 3} /\ 2..3 = {2, 3} /\ 3..3 = {3} /\ 4..3 = {}
    OBVIOUS
  <2> QED
    BY <2>1, <2>2 DEF Merged, IsExplicit, Given
<1> QED
  BY <1>1 DEF FromConfig, LastWord

(* An answer that is not a refusal.                                        *)
Harmless(a) == a.ok \/ a.why # "refused"

LEMMA HarmlessSuccess == \A body : Harmless(Success(body))
  BY DEF Harmless, Success
LEMMA HarmlessFailure == \A why : why # "refused" => Harmless(Failure(why))
  BY DEF Harmless, Failure

(* The operators the handlers are built from, once for all of them.        *)
LEMMA Answering ==
    ASSUME NEW from, NEW a, from \notin {"ready", "done"}, Harmless(a)
    PROVE  /\ Concludes(from, a) => Works
           /\ Answers(from, a) => Works
           /\ \A x : Settles(from, x, a) => Works
  BY DEF Concludes, Answers, Settles, Works, Harmless

LEMMA Going ==
    ASSUME NEW from, NEW to, from \notin {"ready", "done"}, to \notin {"ready", "done"}
    PROVE  Goes(from, to) => Works
  BY DEF Goes, Works

LEMMA Opening ==
    ASSUME NEW from, NEW to, from \notin {"ready", "done"}, to \notin {"ready", "done"}
    PROVE  Opens(from, to) => Works
  BY Answering, Going, HarmlessFailure DEF Opens

LEMMA Failing ==
    ASSUME NEW from, from \notin {"ready", "done"}, Fails(from) \/ TimesOut(from)
    PROVE  Works
  BY Answering, HarmlessFailure DEF Fails, TimesOut

LEMMA Arriving ==
    ASSUME NEW t, NEW a, t \notin AccountScoped
    PROVE  /\ \A to, start : to \notin {"ready", "done"} =>
                /\ Enters(t, a, to, start) => Admits
                /\ Arrives(t, a, to, start) => Admits
           /\ \A why : why # "refused" /\ Rejected(t, a, why) => Admits
  BY DEF Enters, Arrives, Rejected, Admits, Refused, Refuses, AccountScoped, OrderPath, Failure

LEMMA Gating ==
    ASSUME NEW t, NEW a, NEW to, NEW start,
           a.account \in AccountArg, to \notin {"ready", "done"}, Gated(t, a, to, start)
    PROVE  Admits
<1>1. CASE ~Refuses(t, a.account) /\ Arrives(t, a, to, start)
  BY <1>1 DEF Enters, Arrives, Admits, Refused, Refuses
<1>2. CASE Refuses(t, a.account) /\ Rejected(t, a, "refused")
  BY <1>2 DEF Rejected, Admits, Refused, Refuses, Failure
<1> QED
  BY <1>1, <1>2 DEF Gated

LEMMA Admission == Calls => Admits
<1> USE DEF AccountScoped
<1>1. ASSUME CallAccountInfo PROVE Admits
  BY <1>1, Gating DEF CallAccountInfo
<1>2. ASSUME OpenOrdersCall PROVE Admits
  <2>1. CallOpenOrders => Admits
    <3>1. ASSUME NEW a \in AccountArg, NEW s,
                 Gated("get_open_orders", [account |-> a, symbol |-> s], "orders.open", <<>>)
          PROVE  Admits
      BY <3>1, Gating
    <3> QED
      BY <3>1 DEF CallOpenOrders
  <2>2. CallWhatIf => Admits
    BY Gating DEF CallWhatIf
  <2> QED
    BY <1>2, <2>1, <2>2 DEF OpenOrdersCall
<1>3. ASSUME FillsCall PROVE Admits
  <2>1. CallPositions => Admits
    BY Gating DEF CallPositions
  <2>2. CallExecutions => Admits
    BY Gating DEF CallExecutions
  <2> QED
    BY <1>3, <2>1, <2>2 DEF FillsCall
<1>4. ASSUME HistoryCall PROVE Admits
  BY <1>4, Arriving DEF HistoryCall, CallHistoricalData, CallMarketDataHistorical,
                        CallIvRank, CallTicks
<1>5. ASSUME EventsCall PROVE Admits
  BY <1>5, Arriving DEF EventsCall, CallEvents
<1>6. ASSUME ScannerCall PROVE Admits
  BY <1>6, Arriving DEF ScannerCall, CallScanner
<1>7. ASSUME ChainsCall PROVE Admits
  BY <1>7, Arriving DEF ChainsCall, CallOptionChain, CallBulkQuotes
<1>8. ASSUME StatusCall PROVE Admits
  BY <1>8, Arriving DEF StatusCall, CallStatus, CallLastGood
<1> QED
  BY <1>1, <1>2, <1>3, <1>4, <1>5, <1>6, <1>7, <1>8 DEF Calls

LEMMA OrdersWork == OpenOrdersOwn \/ OpenOrdersGateway => Works
<1> USE Answering, Going, Opening, Failing, HarmlessSuccess, HarmlessFailure
<1>1. OpenOrdersOpen => Works
  BY DEF OpenOrdersOpen
<1>2. OrdersTimeout => Works
  BY DEF OrdersTimeout
<1>3. WhatIfOpen => Works
  BY DEF WhatIfOpen
<1>4. WhatIfTimeout => Works
  BY DEF WhatIfTimeout
<1>5. OrdersMessage => Works
  BY DEF OrdersMessage
<1>6. OrdersEnd \/ OrdersClose => Works
  BY DEF OrdersEnd, OrdersClose
<1>7. OrdersFail => Works
  BY DEF OrdersFail
<1>8. WhatIfItem => Works
  BY DEF WhatIfItem
<1>9. WhatIfReply => Works
  BY DEF WhatIfReply
<1>10. WhatIfCloses => Works
  BY DEF WhatIfCloses
<1> QED
  BY <1>1, <1>2, <1>3, <1>4, <1>5, <1>6, <1>7, <1>8, <1>9, <1>10 DEF OpenOrdersOwn,
     OpenOrdersGateway

LEMMA FillsWork == FillsOwn \/ FillsGateway => Works
<1> USE Answering, Going, Opening, Failing, HarmlessSuccess, HarmlessFailure
<1>1. PositionsCollected \/ ExecutionsCollected => Works
  BY DEF PositionsCollected, ExecutionsCollected, Works, Harmless
<1>2. \A pnl : PnlRow(pnl) => Works
  BY DEF PnlRow, Works, Harmless
<1>3. PositionsOpen => Works
  BY DEF PositionsOpen
<1>4. PositionsSilent => Works
  BY <1>1 DEF PositionsSilent
<1>5. PnlMissing => Works
  BY <1>2 DEF PnlMissing
<1>6. ExecutionsOpen => Works
  BY DEF ExecutionsOpen
<1>7. ExecutionsSilent => Works
  BY <1>1 DEF ExecutionsSilent
<1>8. PositionItem => Works
  BY DEF PositionItem
<1>9. PositionEnd => Works
  BY <1>1 DEF PositionEnd
<1>10. PositionsFail => Works
  BY DEF PositionsFail
<1>11. PnlReply => Works
  BY <1>2 DEF PnlReply
<1>12. FillItem => Works
  BY DEF FillItem
<1>13. CommissionItem => Works
  BY DEF CommissionItem
<1>14. ExecutionsEnd => Works
  BY <1>1 DEF ExecutionsEnd
<1>15. ExecutionsFail => Works
  BY DEF ExecutionsFail
<1> QED
  BY <1>3, <1>4, <1>5, <1>6, <1>7, <1>8, <1>9, <1>10, <1>11, <1>12, <1>13, <1>14,
     <1>15 DEF FillsOwn, FillsGateway

LEMMA HistoryWorks == HistoryOwn \/ HistoryGateway => Works
<1> USE Answering, Going, Opening, Failing, HarmlessSuccess, HarmlessFailure
<1>1. Harmless(DrainTicks) /\ \A bars : Harmless(IvAnswer(bars))
  BY DEF DrainTicks, IvAnswer
<1>2. BarsOpen => Works
  BY DEF BarsOpen
<1>3. BarsTimeout => Works
  BY DEF BarsTimeout
<1>4. IvOpen => Works
  BY DEF IvOpen
<1>5. IvTimeout => Works
  BY DEF IvTimeout
<1>6. TicksOpen => Works
  BY DEF TicksOpen
<1>7. TicksIdle => Works
  BY <1>1 DEF TicksIdle
<1>8. BarsReply => Works
  BY DEF BarsReply, FetchBars
<1>9. BarsFail => Works
  BY DEF BarsFail
<1>10. IvReply => Works
  BY <1>1 DEF IvReply, FetchBars
<1>11. IvFail => Works
  BY DEF IvFail
<1>12. TicksItem => Works
  BY DEF TicksItem
<1>13. TicksEnd => Works
  BY <1>1 DEF TicksEnd
<1>14. TicksFail => Works
  BY DEF TicksFail
<1>15. TicksRefused => Works
  BY DEF TicksRefused
<1> QED
  BY <1>2, <1>3, <1>4, <1>5, <1>6, <1>7, <1>8, <1>9, <1>10, <1>11, <1>12, <1>13,
     <1>14, <1>15 DEF HistoryOwn, HistoryGateway

LEMMA EventsWork == EventsOwn \/ EventsGateway => Works
<1> USE Answering, Going, Opening, Failing, HarmlessSuccess, HarmlessFailure
<1>1. \A e, s : Harmless(Report(e, s))
  BY DEF Report
<1>2. \A p : Harmless(PayloadReport(p))
  BY <1>1 DEF PayloadReport
<1>3. EventsResolveTimeout => Works
  BY DEF EventsResolveTimeout
<1>4. EventsOpen => Works
  BY DEF EventsOpen
<1>5. EventsProbeTimeout => Works
  BY DEF EventsProbeTimeout, Probed
<1>6. EventsTimeout => Works
  BY DEF EventsTimeout
<1>7. EventsResolve => Works
  BY DEF EventsResolve
<1>8. EventsProbe => Works
  BY DEF EventsProbe, Probed
<1>9. EventsFetch => Works
  BY <1>1, <1>2 DEF EventsFetch
<1> QED
  BY <1>3, <1>4, <1>5, <1>6, <1>7, <1>8, <1>9 DEF EventsOwn, EventsGateway

LEMMA ScannerWorks == ScannerOwn \/ ScannerGateway => Works
<1> USE Answering, Going, Opening, Failing, HarmlessSuccess, HarmlessFailure
<1>1. ASSUME ScannerOwn PROVE Works
  BY <1>1 DEF ScannerOwn, ScanOpen, ScanSubscribeTimeout, ScanTimer, ScanFinishes, ScanFails,
              ScanOver
<1>2. ASSUME ScannerGateway PROVE Works
  BY <1>2 DEF ScannerGateway, ScanSubscribed, ScanSubscribeFails, ScanBatch, ScanNotice,
              ScanEnd, ScanFail, ScanFinishes, ScanFails, ScanOver
<1> QED
  BY <1>1, <1>2

LEMMA ChainsWork == ChainsOwn \/ ChainsGateway => Works
<1> USE Answering, Going, Opening, Failing, HarmlessSuccess, HarmlessFailure
<1>1. ChainOpen => Works
  BY DEF ChainOpen
<1>2. BulkJoins => Works
  BY DEF BulkJoins
<1>3. ChainResolved => Works
  BY DEF ChainResolved
<1>4. ChainItem => Works
  BY DEF ChainItem
<1>5. ChainEnd => Works
  BY DEF ChainEnd
<1>6. ChainFail => Works
  BY DEF ChainFail
<1>7. TaskEnds => Works
  BY DEF TaskEnds
<1> QED
  BY <1>1, <1>2, <1>3, <1>4, <1>5, <1>6, <1>7 DEF ChainsOwn, ChainsGateway

LEMMA StatusWorks == StatusOwn \/ StatusOthers \/ AccountInfo => Works
<1> USE Answering, Going, Opening, Failing, HarmlessSuccess, HarmlessFailure
<1>1. \A o : Harmless(StatusAnswer(o))
  BY DEF StatusAnswer
<1>2. ASSUME StatusOwn PROVE Works
  BY <1>1, <1>2 DEF StatusOwn, StatusSlot, StatusFailures, StatusRecheck, StatusStarted,
                        LastGoodGet, LastGoodAge
<1>3. ASSUME StatusOthers PROVE Works
  BY <1>3 DEF StatusOthers, CanaryStores, PumpRecords
<1>4. ASSUME AccountInfo PROVE Works
  BY <1>4 DEF AccountInfo
<1> QED
  BY <1>2, <1>3, <1>4

(* In a call that names an account, the accounts that are not on paper are *)
(* the live ones and the empty one.                                        *)
LEMMA RefusedMeans ==
    ASSUME gate = spoken, tool \in AccountScoped => args.account \in AccountArg
    PROVE  Refused <=>
             \/ "read_only" \in spoken /\ tool = "what_if"
             \/ /\ "paper_trading" \in spoken
                /\ tool \in AccountScoped
                /\ args.account \in LiveAccount \cup {""}
  BY AccountAssumption DEF Refused, Refuses, OrderPath, AccountArg, Account

LEMMA GateInit == Init => GateInv
  BY GateIsLastWord DEF Init, GateInv, RefusedAsConfigured

LEMMA GateNext == GateInv /\ [Next]_vars => GateInv'
<1> SUFFICES ASSUME GateInv, [Next]_vars PROVE GateInv'
  OBVIOUS
<1> DEFINE Typed == gate = spoken /\ (tool \in AccountScoped => args.account \in AccountArg)
<1> DEFINE Asked == \/ "read_only" \in spoken /\ tool = "what_if"
                    \/ /\ "paper_trading" \in spoken
                       /\ tool \in AccountScoped
                       /\ args.account \in LiveAccount \cup {""}
<1>1. Typed => (Refused <=> Asked)
  BY RefusedMeans
<1>2. Typed' => (Refused' <=> Asked')
  BY RefusedMeans, PTL
<1>3. RefusedAsConfigured <=> (pc = "done" => ((~answer.ok /\ answer.why = "refused") <=> Asked))
  BY DEF RefusedAsConfigured, AccountScoped
<1>4. CASE Calls
  <2>1. Admits
    BY <1>4, Admission
  <2> QED
    BY <2>1, <1>2 DEF Admits, GateInv, RefusedAsConfigured, AccountScoped
<1>5. CASE Works
  BY <1>5, <1>1, <1>2 DEF Works, GateInv, RefusedAsConfigured, AccountScoped
<1>6. CASE ScannerPeers \/ UNCHANGED vars
  BY <1>6 DEF ScannerPeers, PeerStarts, PeerEnds, GhostCloses, vars, GateInv,
     RefusedAsConfigured, Refused, Refuses
<1>7. CASE Sent
  BY <1>7 DEF Sent, GateInv, RefusedAsConfigured
<1> QED
  BY <1>4, <1>5, <1>6, <1>7, OrdersWork, FillsWork, HistoryWorks, EventsWork, ScannerWorks,
     ChainsWork, StatusWorks, Zenon DEF Next, Own, Gateway

(* Every call of every tool is refused exactly when the operator's last    *)
(* word asks for it, for any accounts and any configuration.               *)
THEOREM Refusals == Spec => []RefusedAsConfigured
<1>1. GateInv => RefusedAsConfigured
  BY DEF GateInv
<1> QED
  BY <1>1, GateInit, GateNext, PTL DEF Spec
=============================================================================
