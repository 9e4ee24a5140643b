----------------------------- MODULE AnswerProofs -----------------------------
(***************************************************************************)
(* Theorems about what single answers of the tools rest on: success on     *)
(* data, event reports on what was said, the two reads of the status       *)
(* surfaces on one store, bulk results on their own tasks, the IV rank on  *)
(* the bars of the reply.  CallProofs gives the frame; each property has   *)
(* one invariant about its tool.                                           *)
(***************************************************************************)
EXTENDS CallProofs

Answered(t) == pc = "done" /\ tool = t /\ answer.ok

(* Each invariant is about one tool or two: a step of another one, or of   *)
(* nobody, keeps it.                                                       *)
OrdersRest ==
    tool \in OrderTools =>
      /\ Answered("get_open_orders") => Heard("end") \cup Heard("closed") # {}
      /\ Answered("what_if") => \E i \in Heard("preview") : heard[i].own

HistoryRest ==
    tool \in HistoryTools =>
      /\ Answered("get_historical_data") => Heard("bars") # {}
      /\ Answered("get_market_data") => Heard("bars") # {}
      /\ Answered("get_iv_rank") => Heard("bars") # {}
      /\ Answered("get_historical_ticks") => Heard("tick") # {}
      /\ pc = "ticks.open" => acc = 0
      /\ pc = "ticks.stream" => acc \in Nat /\ (acc > 0 => Heard("tick") # {})

ChainRest ==
    tool \in ChainTools =>
      /\ Answered("get_option_chain") => Heard("chain") # {}
      /\ pc \in {"chain.open", "chain.resolve"} => acc = None
      /\ pc = "chain.stream" /\ acc # None => Heard("chain") # {}

-----------------------------------------------------------------------------
LEMMA OrdersRestStep == ASSUME CallInv, OrdersRest, OrderSteps PROVE OrdersRest'
<1> USE DEF OrdersRest, Answered, frame, Concludes, Answers, Goes
<1>1. CASE OpenOrdersCall
  BY <1>1, NotOk DEF OpenOrdersCall, CallOpenOrders, CallWhatIf, Gated, Arrives, Enters,
     Rejected, Failure
<1>2. CASE OpenOrdersOwn
  BY <1>2, NotOk DEF OpenOrdersOwn, OpenOrdersOpen, OrdersTimeout, WhatIfOpen,
     WhatIfTimeout, Opens, TimesOut
<1>3. CASE OrdersMessage \/ WhatIfItem
  BY <1>3 DEF OrdersMessage, WhatIfItem
<1>4. CASE OrdersFail \/ WhatIfCloses
  BY <1>4, NotOk DEF OrdersFail, WhatIfCloses, Fails
<1>5. CASE OrdersEnd \/ OrdersClose
  <2>1. PICK how \in {"end", "closed"} : heard' = Append(heard, [kind |-> how])
    BY <1>5 DEF OrdersEnd, OrdersClose, Settles, HeardLast
  <2>2. Heard(how)' # {}
    BY <2>1, HeardAppend DEF CallInv
  <2>3. tool' = "get_open_orders"
    BY <1>5, Homes DEF OrdersEnd, OrdersClose, Settles, CallInv, Placed
  <2> QED
    BY <2>2, <2>3
<1>6. CASE WhatIfReply
  <2> DEFINE x == [kind |-> "preview", own |-> TRUE]
  <2>1. /\ Len(heard) + 1 \in Heard("preview")' /\ heard'[Len(heard) + 1] = x
        /\ tool' = "what_if"
    BY <1>6, HeardAppend, Homes DEF WhatIfReply, Settles, HeardLast, CallInv, Placed
  <2> QED
    BY <2>1
<1> QED
  BY <1>1, <1>2, <1>3, <1>4, <1>5, <1>6 DEF OrderSteps, OpenOrdersGateway

LEMMA OrdersRestNext == CallInv /\ OrdersRest /\ [Next]_vars => OrdersRest'
<1>1. UNCHANGED call /\ OrdersRest => OrdersRest'
  BY DEF call, frame, OrdersRest, Answered, Heard
<1>2. tool' \notin OrderTools => OrdersRest'
  BY DEF OrdersRest
<1> QED
  BY <1>1, <1>2, OwnSteps, OrdersRestStep

LEMMA HistoryRestStep == ASSUME CallInv, HistoryRest, HistorySteps PROVE HistoryRest'
<1> USE DEF HistoryRest, Answered, frame, Concludes, Answers, Goes
<1>1. CASE HistoryCall
  BY <1>1, NotOk DEF HistoryCall, CallHistoricalData, CallMarketDataHistorical, CallIvRank,
     CallTicks, Arrives, Enters, Rejected
<1>2. CASE BarsOpen \/ IvOpen \/ TicksOpen
  <2>1. \/ GivesUp
        \/ pc' \in {"bars.fetch", "iv.fetch"}
        \/ pc = "ticks.open" /\ pc' = "ticks.stream" /\ tool' = tool /\ acc' = acc
    BY <1>2, GivingUp DEF BarsOpen, IvOpen, TicksOpen
  <2> QED
    BY <2>1 DEF GivesUp
<1>3. CASE BarsTimeout \/ IvTimeout \/ BarsFail \/ IvFail \/ TicksFail \/ TicksRefused
  BY <1>3, NotOk DEF BarsTimeout, IvTimeout, BarsFail, IvFail, TicksFail, TicksRefused,
     TimesOut, Fails
<1>4. CASE BarsReply \/ IvReply
  <2>1. PICK bars : heard' = Append(heard, [kind |-> "bars", bars |-> bars])
    BY <1>4 DEF BarsReply, IvReply, FetchBars, Settles, HeardLast
  <2>2. Heard("bars")' # {}
    BY <2>1, HeardAppend DEF CallInv
  <2>3. pc' = "done" /\ tool' = tool /\ pc \in {"bars.fetch", "iv.fetch"}
    BY <1>4 DEF BarsReply, IvReply, FetchBars, Settles
  <2>4. tool # "get_historical_ticks"
    BY <2>3, Homes DEF CallInv, Placed
  <2> QED
    BY <2>2, <2>3, <2>4
<1>5. CASE TicksItem
  <2>1. /\ pc' = "ticks.stream" /\ pc = "ticks.stream" /\ tool' = tool
        /\ acc \in Nat /\ (acc > 0 => Heard("tick") # {})
    BY <1>5, Homes DEF TicksItem, CallInv, Placed, HistoryTools
  <2>2. PICK x : heard' = Append(heard, x) /\ ((x.kind = "tick" /\ acc' = acc + 1) \/ acc' = acc)
    BY <1>5 DEF TicksItem, Hears
  <2>3. acc' \in Nat /\ (acc' > 0 => Heard("tick")' # {})
    BY <2>1, <2>2, HeardAppend DEF CallInv
  <2> QED
    BY <2>1, <2>3
<1>6. CASE TicksEnd \/ TicksIdle
  <2>1. /\ pc' = "done" /\ pc = "ticks.stream" /\ tool' = tool /\ answer' = DrainTicks
        /\ tool = "get_historical_ticks"
        /\ heard' = heard \/ \E x : heard' = Append(heard, x)
    BY <1>6, Homes DEF TicksEnd, TicksIdle, Settles, HeardLast, CallInv, Placed
  <2>2. acc \in Nat /\ (acc > 0 => Heard("tick") # {})
    BY <2>1 DEF HistoryTools
  <2>3. Heard("tick") # {} => Heard("tick")' # {}
    BY <2>1, HeardAppend DEF CallInv, Heard
  <2>4. DrainTicks.ok => acc > 0
    BY NotOk DEF DrainTicks
  <2> QED
    BY <2>1, <2>2, <2>3, <2>4
<1> QED
  BY <1>1, <1>2, <1>3, <1>4, <1>5, <1>6 DEF HistorySteps, HistoryOwn, HistoryGateway

LEMMA HistoryRestNext == CallInv /\ HistoryRest /\ [Next]_vars => HistoryRest'
<1>1. UNCHANGED call /\ HistoryRest => HistoryRest'
  BY DEF call, frame, HistoryRest, Answered, Heard
<1>2. tool' \notin HistoryTools => HistoryRest'
  BY DEF HistoryRest
<1> QED
  BY <1>1, <1>2, OwnSteps, HistoryRestStep

LEMMA ChainRestStep == ASSUME CallInv, ChainRest, ChainSteps PROVE ChainRest'
<1> USE DEF ChainRest, Answered, frame, Concludes, Answers, Goes
<1>1. CASE ChainsCall
  BY <1>1, NotOk DEF ChainsCall, CallOptionChain, CallBulkQuotes, Arrives, Enters
<1>2. CASE ChainOpen \/ ChainResolved
  <2>1. \/ GivesUp
        \/ pc = "chain.open" /\ pc' = "chain.resolve" /\ tool' = tool /\ acc' = acc
        \/ pc = "chain.resolve" /\ pc' = "chain.stream" /\ tool' = tool /\ acc' = acc
    BY <1>2, GivingUp DEF ChainOpen, ChainResolved
  <2> QED
    BY <2>1 DEF GivesUp
<1>3. CASE ChainFail
  BY <1>3, NotOk DEF ChainFail, Fails
<1>4. CASE ChainItem
  <2>1. pc' = "chain.stream" /\ \E x : heard' = Append(heard, x) /\ x.kind = "chain"
    BY <1>4 DEF ChainItem, Hears
  <2>2. Heard("chain")' # {}
    BY <2>1, HeardAppend DEF CallInv
  <2> QED
    BY <2>1, <2>2
<1>5. CASE ChainEnd
  <2>1. /\ pc' = "done" /\ pc = "chain.stream" /\ tool \in ChainTools
        /\ \E x : heard' = Append(heard, x)
        /\ answer'.ok => acc # None
    BY <1>5, Homes, NotOk DEF ChainEnd, Settles, HeardLast, CallInv, Placed, ChainTools
  <2>2. Heard("chain") # {} => Heard("chain")' # {}
    BY <2>1, HeardAppend DEF CallInv
  <2> QED
    BY <2>1, <2>2
<1>6. CASE TaskEnds \/ BulkJoins
  BY <1>6, Homes DEF TaskEnds, BulkJoins, CallInv, Placed
<1> QED
  BY <1>1, <1>2, <1>3, <1>4, <1>5, <1>6 DEF ChainSteps, ChainsOwn, ChainsGateway

LEMMA ChainRestNext == CallInv /\ ChainRest /\ [Next]_vars => ChainRest'
<1>1. UNCHANGED call /\ ChainRest => ChainRest'
  BY DEF call, frame, ChainRest, Answered, Heard
<1>2. tool' \notin ChainTools => ChainRest'
  BY DEF ChainRest
<1> QED
  BY <1>1, <1>2, OwnSteps, ChainRestStep

-----------------------------------------------------------------------------
(* Events.  The contract of the call is fixed before anything is fetched,  *)
(* and what the fetch says of the service is the last thing heard.         *)
Entitlement == {"ok", "unavailable", "unknown"}

ContractFixed ==
    /\ acc.conid \in ConId /\ args.conid \in {None, 0, acc.conid}
    /\ args.conid \in {None, 0} => \E i \in Heard("contract") : heard[i].conid = acc.conid

EventsInv ==
    tool \in EventTools =>
      /\ pc # "done" => /\ Heard("payload") = {} /\ Heard("fetch error") = {}
                        /\ acc \in [conid : ConId \cup {None}, entitlement : Entitlement \cup {None}]
      /\ pc = "events.resolve" => args.conid \in {None, 0}
      /\ pc \in {"events.open", "events.probe", "events.fetch"} => ContractFixed
      /\ pc = "events.fetch" => /\ acc.entitlement \in Entitlement
                                /\ acc.entitlement = "ok" => Heard("metadata") # {}
      /\ Answered("get_events") => Heard("payload") \cup Heard("fetch error") # {}
      /\ EventReportHonest

(* The contract stays fixed as long as nobody resolves another.            *)
LEMMA FixedStays ==
    ASSUME CallInv, ContractFixed, UNCHANGED args, acc'.conid = acc.conid,
           heard' = heard \/ \E x : heard' = Append(heard, x)
    PROVE  ContractFixed'
<1>1. \A i \in Heard("contract") : i \in Heard("contract")' /\ heard'[i] = heard[i]
  BY HeardAppend DEF CallInv, Heard
<1> QED
  BY <1>1 DEF ContractFixed

LEMMA EventsStep == ASSUME CallInv, EventsInv, EventSteps PROVE EventsInv'
<1> USE DEF frame
<1>0. /\ tool' \in EventTools
      /\ pc \in Await => tool \in EventTools /\ tool' = tool
      /\ pc \in {"ready", "done"} => pc = "ready"
  BY EventsStay, Homes, OwnSteps DEF Stays, Comes, EventSteps, CallInv, Placed
<1>g. GivesUp => EventsInv'
  BY DEF GivesUp, EventsInv, Answered, EventReportHonest
<1>1. CASE EventsCall
  <2>1. ASSUME NEW c \in ConId,
               Arrives("get_events", [conid |-> c], "events.open", [conid |-> c, entitlement |-> None])
        PROVE  EventsInv'
    <3>1. /\ pc = "ready" /\ pc' = "events.open" /\ args' = [conid |-> c] /\ heard' = heard
          /\ acc' = [conid |-> c, entitlement |-> None]
      BY <2>1 DEF Arrives, Enters
    <3>2. \A k : Heard(k)' = {}
      BY <3>1, HeardNothing DEF CallInv, Heard
    <3>3. ContractFixed'
      BY <3>1, ConIdAssumption DEF ContractFixed
    <3> QED
      BY <3>1, <3>2, <3>3 DEF EventsInv, Answered, EventReportHonest
  <2>2. ASSUME NEW c \in {None, 0},
               Arrives("get_events", [conid |-> c], "events.resolve", [conid |-> None, entitlement |-> None])
        PROVE  EventsInv'
    <3>1. /\ pc = "ready" /\ pc' = "events.resolve" /\ args' = [conid |-> c] /\ heard' = heard
          /\ acc' = [conid |-> None, entitlement |-> None]
      BY <2>2 DEF Arrives, Enters
    <3>2. \A k : Heard(k)' = {}
      BY <3>1, HeardNothing DEF CallInv, Heard
    <3> QED
      BY <3>1, <3>2 DEF EventsInv, Answered, EventReportHonest
  <2> QED
    BY <1>1, <1>g, <2>1, <2>2, GivingUp DEF EventsCall, CallEvents
<1>2. CASE EventsResolve
  <2>1. ASSUME NEW c \in ConId,
               Hears("events.resolve", [kind |-> "contract", conid |-> c]),
               Goes("events.resolve", "events.open"), acc' = [acc EXCEPT !.conid = c]
        PROVE  EventsInv'
    <3> DEFINE x == [kind |-> "contract", conid |-> c]
    <3>1. /\ pc = "events.resolve" /\ pc' = "events.open" /\ args' = args /\ tool' = tool
          /\ heard' = Append(heard, x) /\ x.kind = "contract" /\ x.conid = c
      BY <2>1 DEF Hears, Goes
    <3>2. tool \in EventTools
      BY <1>0, <3>1, Homes
    <3> HIDE DEF x
    <3>5. /\ \A k : Heard(k)' = IF x.kind = k THEN Heard(k) \cup {Len(heard) + 1} ELSE Heard(k)
          /\ heard'[Len(heard) + 1] = x
      BY <3>1, HeardAppend DEF CallInv
    <3>6. Heard("payload") = {} /\ Heard("fetch error") = {}
      BY <3>1, <3>2 DEF EventsInv
    <3>3. /\ Heard("payload")' = {} /\ Heard("fetch error")' = {}
          /\ \E i \in Heard("contract")' : heard'[i].conid = c
      BY <3>1, <3>5, <3>6
    <3>4. /\ acc' \in [conid : ConId \cup {None}, entitlement : Entitlement \cup {None}]
          /\ acc'.conid = c
      BY <2>1, <3>1, <3>2 DEF EventsInv
    <3> QED
      BY <3>1, <3>2, <3>3, <3>4 DEF EventsInv, Answered, EventReportHonest, ContractFixed
  <2> QED
    BY <1>2, <1>g, <2>1, GivingUp DEF EventsResolve
<1>3. CASE EventsOpen
  <2>1. CASE Goes("events.open", "events.probe") /\ UNCHANGED <<heard, acc>>
    <3>1. /\ pc = "events.open" /\ pc' = "events.probe" /\ UNCHANGED <<args, tool, heard, acc>>
      BY <2>1 DEF Goes
    <3>2. tool \in EventTools
      BY <1>0, <3>1, Homes
    <3> QED
      BY <3>1, <3>2, FixedStays DEF EventsInv, Answered, EventReportHonest, Heard
  <2> QED
    BY <1>3, <1>g, <2>1, GivingUp DEF EventsOpen
<1>4. CASE EventsProbe \/ EventsProbeTimeout
  <2> DEFINE Heeds(e) == \/ heard' = heard /\ e # "ok"
                         \/ \E x : /\ heard' = Append(heard, x)
                                   /\ x.kind \notin {"payload", "fetch error"}
                                   /\ e = "ok" => x.kind = "metadata"
  <2>7. \E e \in Entitlement : Probed(e) /\ Heeds(e)
    <3>1. CASE Hears("events.probe", [kind |-> "metadata"]) /\ Probed("ok")
      <4> DEFINE y == [kind |-> "metadata"]
      <4>2. y.kind = "metadata" /\ heard' = Append(heard, y)
        BY <3>1 DEF Hears
      <4> HIDE DEF y
      <4>1. Heeds("ok")
        BY <4>2
      <4> QED
        BY <3>1, <4>1 DEF Entitlement
    <3>2. CASE Hears("events.probe", [kind |-> "metadata error"]) /\ Probed("unavailable")
      <4>1. Heeds("unavailable")
        BY <3>2 DEF Hears
      <4> QED
        BY <3>2, <4>1 DEF Entitlement
    <3>3. CASE EventsProbeTimeout
      <4>1. Heeds("unknown") /\ Probed("unknown")
        BY <3>3 DEF EventsProbeTimeout
      <4> QED
        BY <4>1 DEF Entitlement
    <3> QED
      BY <1>4, <3>1, <3>2, <3>3 DEF EventsProbe
  <2>1. PICK e \in Entitlement :
          /\ pc = "events.probe" /\ pc' = "events.fetch" /\ UNCHANGED <<args, tool>>
          /\ acc' = [acc EXCEPT !.entitlement = e]
          /\ Heeds(e)
    BY <2>7 DEF Probed, Goes
  <2>2. tool \in EventTools
    BY <1>0, <2>1, Homes
  <2>3. /\ acc' \in [conid : ConId \cup {None}, entitlement : Entitlement \cup {None}]
        /\ acc'.conid = acc.conid /\ acc'.entitlement = e
    BY <2>1, <2>2 DEF EventsInv
  <2>8. Heard("payload") = {} /\ Heard("fetch error") = {}
    BY <2>1, <2>2 DEF EventsInv
  <2>4. Heard("payload")' = {} /\ Heard("fetch error")' = {}
    <3>1. CASE heard' = heard
      BY <2>8, <3>1 DEF Heard
    <3>2. ASSUME NEW x, heard' = Append(heard, x), x.kind \notin {"payload", "fetch error"}
          PROVE  Heard("payload")' = {} /\ Heard("fetch error")' = {}
      BY <2>8, <3>2, HeardAppend DEF CallInv
    <3> QED
      BY <2>1, <3>1, <3>2
  <2>5. e = "ok" => Heard("metadata")' # {}
    BY <2>1, HeardAppend DEF CallInv
  <2>6. ContractFixed'
    BY <2>1, <2>2, <2>3, FixedStays DEF EventsInv
  <2> QED
    BY <2>1, <2>2, <2>3, <2>4, <2>5, <2>6 DEF EventsInv, Answered, EventReportHonest
<1>5. CASE EventsFetch
  <2> DEFINE Told(e, s) == [conid |-> acc.conid, entitlement |-> e, status |-> s]
  <2>1. PICK x, e, s :
          /\ Settles("events.fetch", x, Report(e, s))
          /\ \/ /\ x.kind = "payload"
                /\ \/ x.payload \in {"rows", "garbage"} /\ e = "ok" /\ s \in {"ok", "unparsed"}
                   \/ x.payload \notin {"rows", "garbage"} /\ e = acc.entitlement /\ s = "no_events"
             \/ x.kind = "fetch error" /\ e = "unavailable" /\ s = "not_entitled"
    <3> DEFINE y == [kind |-> "fetch error"]
    <3>2. CASE Settles("events.fetch", y, Report("unavailable", "not_entitled"))
      <4>1. y.kind = "fetch error"
        OBVIOUS
      <4> HIDE DEF y
      <4> QED
        BY <3>2, <4>1
    <3>1. ASSUME NEW p \in Payload,
                 Settles("events.fetch", [kind |-> "payload", payload |-> p], PayloadReport(p))
          PROVE  \E x, e, s :
          /\ Settles("events.fetch", x, Report(e, s))
          /\ x.kind = "payload"
          /\ \/ x.payload \in {"rows", "garbage"} /\ e = "ok" /\ s \in {"ok", "unparsed"}
             \/ x.payload \notin {"rows", "garbage"} /\ e = acc.entitlement /\ s = "no_events"
      <4> DEFINE x == [kind |-> "payload", payload |-> p]
      <4>1. x.kind = "payload" /\ x.payload = p
        OBVIOUS
      <4>2. \/ p = "rows" /\ PayloadReport(p) = Report("ok", "ok")
            \/ p = "garbage" /\ PayloadReport(p) = Report("ok", "unparsed")
            \/ p \notin {"rows", "garbage"} /\ PayloadReport(p) = Report(acc.entitlement, "no_events")
        BY DEF PayloadReport
      <4> HIDE DEF x
      <4> QED
        BY <3>1, <4>1, <4>2, Zenon DEF x
    <3> QED
      BY <1>5, <3>1, <3>2, Zenon DEF EventsFetch
  <2>2. /\ pc = "events.fetch" /\ pc' = "done" /\ UNCHANGED <<args, tool, acc>>
        /\ heard' = Append(heard, x) /\ answer' = Success(Told(e, s))
    BY <2>1 DEF Settles, Concludes, HeardLast, Report
  <2>3. answer'.body = Told(e, s)
    BY <2>2, BodyOf
  <2>4. tool \in EventTools
    BY <1>0, <2>2, Homes
  <2>5. /\ ContractFixed' /\ acc'.entitlement \in Entitlement
        /\ acc.entitlement = "ok" => Heard("metadata") # {}
        /\ Heard("payload") = {} /\ Heard("fetch error") = {}
    BY <2>2, <2>4, FixedStays DEF EventsInv
  <2>6. /\ Heard("payload")' = IF x.kind = "payload" THEN {Len(heard) + 1} ELSE {}
        /\ Heard("fetch error")' = IF x.kind = "fetch error" THEN {Len(heard) + 1} ELSE {}
        /\ heard'[Len(heard) + 1] = x
        /\ Heard("metadata") # {} => Heard("metadata")' # {}
    BY <2>2, <2>5, HeardAppend DEF CallInv
  <2>7. EventReportHonest'
    <3> DEFINE content == {i \in Heard("payload") : heard[i].payload \in {"rows", "garbage"}}
    <3>1. /\ answer'.body.conid = acc.conid /\ answer'.body.entitlement = e
          /\ answer'.body.status = s
      BY <2>3
    <3>2. content' = IF x.kind = "payload" /\ x.payload \in {"rows", "garbage"}
                     THEN {Len(heard) + 1} ELSE {}
      BY <2>6
    <3>3. e = "ok" => (Heard("metadata") \cup content)' # {}
      BY <2>1, <2>5, <2>6, <3>2
    <3>4. s = "no_events" => Heard("payload")' # {} /\ content' = {}
      BY <2>1, <2>6, <3>2
    <3>5. s = "not_entitled" <=> Heard("fetch error")' # {}
      BY <2>1, <2>6
    <3>6. /\ args'.conid \in {None, 0, answer'.body.conid}
          /\ args'.conid \in {None, 0} =>
               \E i \in Heard("contract")' : heard'[i].conid = answer'.body.conid
      BY <2>2, <2>5, <3>1 DEF ContractFixed
    <3> QED
      BY <3>1, <3>3, <3>4, <3>5, <3>6 DEF EventReportHonest
  <2> QED
    BY <2>1, <2>2, <2>6, <2>7 DEF EventsInv, Answered
<1>6. CASE EventsResolveTimeout \/ EventsTimeout
  BY <1>6, <1>g, GivingUp DEF EventsResolveTimeout, EventsTimeout
<1> QED
  BY <1>1, <1>2, <1>3, <1>4, <1>5, <1>6 DEF EventSteps, EventsCall, EventsOwn, EventsGateway

LEMMA EventsNext == CallInv /\ EventsInv /\ [Next]_vars => EventsInv'
<1>1. UNCHANGED call /\ EventsInv => EventsInv'
  <2> SUFFICES ASSUME UNCHANGED call, EventsInv PROVE EventsInv'
    OBVIOUS
  <2>1. UNCHANGED <<tool, args, pc, heard, acc, answer>>
    BY DEF call, frame
  <2>2. \A k : Heard(k)' = Heard(k)
    BY <2>1 DEF Heard
  <2>3. ContractFixed => ContractFixed'
    BY <2>1, <2>2 DEF ContractFixed
  <2>4. EventReportHonest => EventReportHonest'
    BY <2>1, <2>2 DEF EventReportHonest
  <2> QED
    BY <2>1, <2>2, <2>3, <2>4 DEF EventsInv, Answered
<1>2. tool' \notin EventTools => EventsInv'
  BY DEF EventsInv
<1> QED
  BY <1>1, <1>2, OwnSteps, EventsStep

-----------------------------------------------------------------------------
(* Status.  Until the canary stores, the board is the one the call found.  *)
StatusAcc == [board : Found, connected : BOOLEAN \cup {None}, failures : 0..MaxFailures]

StatusInv ==
    tool = "get_connection_status" =>
      /\ pc # "done" => /\ acc \in StatusAcc
                        /\ heard = <<>> => acc.board = args.found
      /\ pc \in {"status.recheck", "status.started"} /\ heard = <<>> =>
            acc.failures = args.found.failures
      /\ pc = "status.started" /\ heard = <<>> => acc.board.failures > 0
      /\ StatusTellsOneStory

(* A store takes a board that can be found to another.                     *)
LEMMA StoredFound == \A b \in Found : Stored(b) \subseteq Found
<1> SUFFICES ASSUME NEW b \in Found, NEW s \in Stored(b) PROVE s \in Found
  OBVIOUS
<1>0. /\ b \in Board /\ b.failures \in 0..MaxFailures /\ b.started \in BOOLEAN
      /\ b.pending \in {"no", "clear", "stamp"}
  BY DEF Found, Board
<1>m. 0 \in 0..MaxFailures /\ 1 \in 0..MaxFailures
  BY StatusAssumption
<1>1. CASE b.pending = "clear"
  <2>1. s = [b EXCEPT !.started = FALSE, !.pending = "no"]
    BY <1>1 DEF Stored
  <2>2. s \in Board /\ s.failures = b.failures /\ s.started = FALSE /\ s.pending = "no"
    BY <1>0, <2>1 DEF Board
  <2> QED
    BY <1>0, <1>1, <2>2 DEF Found
<1>2. CASE b.pending = "stamp"
  <2>1. s = [b EXCEPT !.started = TRUE, !.pending = "no"]
    BY <1>2 DEF Stored
  <2>2. s \in Board /\ s.failures = b.failures /\ s.started = TRUE /\ s.pending = "no"
    BY <1>0, <2>1 DEF Board
  <2> QED
    BY <1>0, <1>2, <2>2 DEF Found
<1>3. CASE b.pending = "no"
  <2>1. CASE s = [b EXCEPT !.failures = 0, !.pending = "clear"]
    <3>1. s \in Board /\ s.failures = 0 /\ s.started = b.started /\ s.pending = "clear"
      BY <1>0, <1>m, <2>1 DEF Board
    <3> QED
      BY <3>1 DEF Found
  <2>2. CASE s = [b EXCEPT !.failures = IF @ < MaxFailures THEN @ + 1 ELSE @,
                           !.pending = IF b.failures = 0 THEN "stamp" ELSE "no"]
    <3> DEFINE f == IF b.failures < MaxFailures THEN b.failures + 1 ELSE b.failures
    <3>1. f \in 0..MaxFailures /\ f > 0 /\ (b.failures = 0 => f = 1)
      BY <1>0, StatusAssumption
    <3>2. /\ s.failures = f /\ s.started = b.started
          /\ s.pending = IF b.failures = 0 THEN "stamp" ELSE "no"
      BY <1>0, <2>2 DEF Board
    <3>3. s \in Board
      BY <1>0, <2>2, <3>1 DEF Board
    <3>4. b.started <=> b.failures > 0
      BY <1>3 DEF Found
    <3> QED
      BY <1>0, <3>1, <3>2, <3>3, <3>4 DEF Found
  <2> QED
    BY <1>3, <2>1, <2>2 DEF Stored
<1> QED
  BY <1>0, <1>1, <1>2, <1>3

LEMMA StatusStep ==
    ASSUME CallInv, StatusInv, StatusSteps, tool' = "get_connection_status"
    PROVE  StatusInv'
<1> USE DEF frame
<1>0. /\ pc \in {"status.slot", "status.failures", "status.recheck", "status.started"} =>
            /\ pc # "done" /\ tool = "get_connection_status"
      /\ pc \in {"snapshot.get", "snapshot.age"} => tool = "health_last_good"
  BY Homes DEF CallInv, Placed
<1>1. CASE CallStatus
  <2>1. PICK b \in Found :
          Arrives("get_connection_status", [found |-> b], "status.slot",
                  [board |-> b, connected |-> None, failures |-> 0])
    BY <1>1 DEF CallStatus
  <2>2. /\ pc' = "status.slot" /\ args' = [found |-> b]
        /\ acc' = [board |-> b, connected |-> None, failures |-> 0]
    BY <2>1 DEF Arrives, Enters
  <2>3. acc' \in StatusAcc
    BY <2>2, StatusAssumption DEF StatusAcc
  <2> QED
    BY <2>2, <2>3 DEF StatusInv, StatusTellsOneStory
<1>2. CASE StatusSlot \/ StatusFailures
  <2>1. /\ pc \in {"status.slot", "status.failures"} /\ UNCHANGED <<tool, args, heard>>
        /\ \/ pc' = "status.failures" /\ \E c \in BOOLEAN : acc' = [acc EXCEPT !.connected = c]
           \/ pc' = "status.recheck" /\ acc' = [acc EXCEPT !.failures = acc.board.failures]
    BY <1>2 DEF StatusSlot, StatusFailures, Goes
  <2>2. acc \in StatusAcc /\ acc.board.failures \in 0..MaxFailures
    BY <1>0, <2>1 DEF StatusInv, StatusAcc, Found, Board
  <2>3. /\ acc' \in StatusAcc /\ acc'.board = acc.board
        /\ pc' = "status.recheck" => acc'.failures = acc.board.failures
    BY <2>1, <2>2 DEF StatusAcc
  <2> QED
    BY <1>0, <2>1, <2>3 DEF StatusInv, StatusTellsOneStory
<1>3. CASE StatusRecheck
  <2>1. CASE Goes("status.recheck", "status.started") /\ UNCHANGED <<heard, acc>>
             /\ acc.board.failures > 0
    <3>1. /\ pc = "status.recheck" /\ pc' = "status.started"
          /\ UNCHANGED <<tool, args, heard, acc>>
      BY <2>1 DEF Goes
    <3> QED
      BY <1>0, <2>1, <3>1 DEF StatusInv, StatusTellsOneStory
  <2>2. CASE Answers("status.recheck", StatusAnswer(FALSE)) /\ acc.board.failures = 0
    <3>1. /\ pc = "status.recheck" /\ pc' = "done" /\ UNCHANGED <<tool, args, heard, acc>>
          /\ answer'.body = [connected |-> acc.connected, failures |-> acc.failures,
                             outage |-> FALSE]
      BY <2>2, BodyOf DEF Answers, Concludes, StatusAnswer
    <3>2. answer'.body.outage = FALSE /\ answer'.body.failures = acc.failures
      BY <3>1
    <3>3. heard = <<>> => acc.failures = 0
      BY <1>0, <2>2, <3>1 DEF StatusInv
    <3> QED
      BY <3>1, <3>2, <3>3 DEF StatusInv, StatusTellsOneStory
  <2> QED
    BY <1>3, <2>1, <2>2 DEF StatusRecheck
<1>4. CASE StatusStarted
  <2>1. /\ pc = "status.started" /\ pc' = "done" /\ UNCHANGED <<tool, args, heard, acc>>
        /\ answer'.body = [connected |-> acc.connected, failures |-> acc.failures,
                           outage |-> acc.board.started]
    BY <1>4, BodyOf DEF StatusStarted, Answers, Concludes, StatusAnswer
  <2>2. answer'.body.outage = acc.board.started /\ answer'.body.failures = acc.failures
    BY <2>1
  <2>3. /\ acc \in StatusAcc
        /\ heard = <<>> => /\ acc.board = args.found
                           /\ acc.failures = args.found.failures
    BY <1>0, <2>1 DEF StatusInv
  <2>4. acc.board.pending = "no" => (acc.board.started <=> acc.board.failures > 0)
    BY <2>3 DEF StatusAcc, Found
  <2> QED
    BY <2>1, <2>2, <2>3, <2>4 DEF StatusInv, StatusTellsOneStory
<1>5. CASE CanaryStores
  <2>1. PICK b \in Stored(acc.board) :
          /\ acc' = [acc EXCEPT !.board = b] /\ UNCHANGED <<tool, args>>
          /\ pc \in {"status.slot", "status.failures", "status.recheck", "status.started"}
          /\ pc' = pc /\ \E x : heard' = Append(heard, x)
    BY <1>5 DEF CanaryStores, Hears, Goes
  <2>2. acc' \in StatusAcc
    BY <1>0, <2>1, StoredFound DEF StatusInv, StatusAcc
  <2>3. heard' # <<>>
    BY <2>1, Appending, EmptyIsSeq DEF CallInv
  <2> QED
    BY <1>0, <2>1, <2>2, <2>3 DEF StatusInv, StatusTellsOneStory
<1>6. ~CallLastGood /\ ~LastGoodGet /\ ~LastGoodAge /\ ~PumpRecords
  BY <1>0 DEF CallLastGood, LastGoodGet, LastGoodAge, PumpRecords, Arrives, Enters, Goes, Answers,
     Concludes
<1> QED
  BY <1>1, <1>2, <1>3, <1>4, <1>5, <1>6 DEF StatusSteps, StatusCall, StatusOwn, StatusOthers

LEMMA StatusNext == CallInv /\ StatusInv /\ [Next]_vars => StatusInv'
<1>1. UNCHANGED call /\ StatusInv => StatusInv'
  BY DEF call, frame, StatusInv, StatusTellsOneStory
<1>2. tool' # "get_connection_status" => StatusInv'
  BY DEF StatusInv
<1>3. "get_connection_status" \in StatusTools
  BY DEF StatusTools
<1> QED
  BY <1>1, <1>2, <1>3, OwnSteps, StatusStep

-----------------------------------------------------------------------------
(* The last-good snapshot.  Until the pump records, the store is what the  *)
(* call found; what it records is never older than what was there.         *)
LastGoodInv ==
    tool = "health_last_good" =>
      /\ pc # "done" => /\ acc \in [store : Snapshot \cup {None}, told : Snapshot \cup {None}]
                        /\ Heard("record") = {} => acc.store = args.found
      /\ pc = "snapshot.age" =>
           /\ acc.store # None /\ acc.told # None
           /\ acc.told.fetched = "during" => acc.store.fetched = "during"
           /\ Heard("record") = {} => acc.told = acc.store
      /\ AgeOfToldOrLater

LEMMA LastGoodStep ==
    ASSUME CallInv, LastGoodInv, StatusSteps, tool' = "health_last_good"
    PROVE  LastGoodInv'
<1> USE DEF frame
<1>0. /\ pc \in {"snapshot.get", "snapshot.age"} => pc # "done" /\ tool = "health_last_good"
      /\ pc \in {"status.slot", "status.failures", "status.recheck", "status.started"} =>
            tool = "get_connection_status"
  BY Homes DEF CallInv, Placed
<1>1. CASE CallLastGood
  <2>1. PICK s \in Kept \cup {None} :
          Arrives("health_last_good", [found |-> s], "snapshot.get", [store |-> s, told |-> None])
    BY <1>1 DEF CallLastGood
  <2>2. /\ pc' = "snapshot.get" /\ args' = [found |-> s] /\ acc' = [store |-> s, told |-> None]
    BY <2>1 DEF Arrives, Enters
  <2> QED
    BY <2>2 DEF LastGoodInv, AgeOfToldOrLater, Kept
<1>2. CASE LastGoodGet
  <2>1. CASE Answers("snapshot.get", Failure("no snapshot"))
    <3>1. GivesUp
      BY <2>1, GivingUp
    <3> QED
      BY <3>1 DEF GivesUp, LastGoodInv, AgeOfToldOrLater
  <2>2. CASE acc.store # None /\ Goes("snapshot.get", "snapshot.age")
             /\ acc' = [acc EXCEPT !.told = acc.store] /\ UNCHANGED heard
    <3>1. /\ pc = "snapshot.get" /\ pc' = "snapshot.age" /\ UNCHANGED <<tool, args, heard>>
      BY <2>2 DEF Goes
    <3>2. /\ acc' \in [store : Snapshot \cup {None}, told : Snapshot \cup {None}]
          /\ acc'.store = acc.store /\ acc'.told = acc.store
      BY <1>0, <2>2, <3>1 DEF LastGoodInv
    <3> QED
      BY <1>0, <2>2, <3>1, <3>2 DEF LastGoodInv, AgeOfToldOrLater, Heard
  <2> QED
    BY <1>2, <2>1, <2>2 DEF LastGoodGet
<1>3. CASE LastGoodAge
  <2>1. /\ pc = "snapshot.age" /\ pc' = "done" /\ UNCHANGED <<tool, args, heard, acc>>
        /\ answer'.body = [told |-> acc.told, fetched |-> acc.store.fetched]
    BY <1>3, BodyOf DEF LastGoodAge, Answers, Concludes
  <2>2. answer'.body.told = acc.told /\ answer'.body.fetched = acc.store.fetched
    BY <2>1
  <2>3. Heard("record")' = Heard("record")
    BY <2>1 DEF Heard
  <2> QED
    BY <1>0, <2>1, <2>2, <2>3 DEF LastGoodInv, AgeOfToldOrLater
<1>4. CASE PumpRecords
  <2> DEFINE s == [fetched |-> "during", fromDisk |-> FALSE]
             x == [kind |-> "record"]
  <2>1. /\ acc' = [acc EXCEPT !.store = s] /\ UNCHANGED <<tool, args>>
        /\ pc \in {"snapshot.get", "snapshot.age"} /\ pc' = pc
        /\ heard' = Append(heard, x) /\ x.kind = "record"
    BY <1>4 DEF PumpRecords, Hears, Goes
  <2>2. s \in Snapshot /\ s.fetched = "during"
    BY DEF Snapshot
  <2> HIDE DEF s, x
  <2>3. Heard("record")' # {}
    BY <2>1, HeardAppend DEF CallInv
  <2>4. /\ acc' \in [store : Snapshot \cup {None}, told : Snapshot \cup {None}]
        /\ acc'.store = s /\ acc'.told = acc.told
    BY <1>0, <2>1, <2>2 DEF LastGoodInv
  <2>5. pc = "snapshot.age" => s # None
    BY <2>2, SnapshotAssumption
  <2> QED
    BY <1>0, <2>1, <2>2, <2>3, <2>4, <2>5 DEF LastGoodInv, AgeOfToldOrLater
<1>5. ~CallStatus /\ ~StatusSlot /\ ~StatusFailures /\ ~StatusRecheck /\ ~StatusStarted
      /\ ~CanaryStores
  BY <1>0 DEF CallStatus, StatusSlot, StatusFailures, StatusRecheck, StatusStarted, CanaryStores,
     Arrives, Enters, Goes, Answers, Concludes
<1> QED
  BY <1>1, <1>2, <1>3, <1>4, <1>5 DEF StatusSteps, StatusCall, StatusOwn, StatusOthers

LEMMA LastGoodNext == CallInv /\ LastGoodInv /\ [Next]_vars => LastGoodInv'
<1>1. UNCHANGED call /\ LastGoodInv => LastGoodInv'
  BY DEF call, frame, LastGoodInv, AgeOfToldOrLater, Heard
<1>2. tool' # "health_last_good" => LastGoodInv'
  BY DEF LastGoodInv
<1>3. "health_last_good" \in StatusTools
  BY DEF StatusTools
<1> QED
  BY <1>1, <1>2, <1>3, OwnSteps, LastGoodStep

-----------------------------------------------------------------------------
(* Bulk quotes: every task ends once, and is one of the symbols'.          *)
BulkInv ==
    tool = "get_bulk_quotes" =>
      /\ \A i \in DOMAIN heard : heard[i].task \in DOMAIN Symbols
      /\ \A i, j \in DOMAIN heard : heard[i].task = heard[j].task => i = j
      /\ BulkInOrder

LEMMA BulkStep ==
    ASSUME CallInv, BulkInv, ChainSteps, tool' = "get_bulk_quotes" PROVE BulkInv'
<1> USE DEF frame
<1>0. /\ pc = "bulk.join" => pc # "done" /\ tool = "get_bulk_quotes"
      /\ pc \in {"chain.open", "chain.resolve", "chain.stream"} => tool = "get_option_chain"
  BY Homes DEF CallInv, Placed
<1>1. CASE CallBulkQuotes
  <2>1. pc' = "bulk.join" /\ heard' = <<>>
    BY <1>1 DEF CallBulkQuotes, Arrives, Enters, CallInv
  <2> QED
    BY <2>1, EmptyIsSeq DEF BulkInv, BulkInOrder
<1>2. CASE TaskEnds
  <2>1. PICK i \in DOMAIN Symbols, outcome \in {"quote", "error", "panic"} :
          /\ Hears("bulk.join", [kind |-> "task", task |-> i, outcome |-> outcome])
          /\ \A n \in DOMAIN heard : heard[n].task # i
          /\ Goes("bulk.join", "bulk.join")
    BY <1>2 DEF TaskEnds
  <2> DEFINE x == [kind |-> "task", task |-> i, outcome |-> outcome]
  <2>2. /\ pc = "bulk.join" /\ pc' = "bulk.join" /\ tool' = tool
        /\ heard' = Append(heard, x) /\ x.task = i
    BY <2>1 DEF Hears, Goes
  <2> HIDE DEF x
  <2>3. /\ DOMAIN heard = 1..Len(heard) /\ DOMAIN heard' = 1..(Len(heard) + 1)
        /\ Len(heard) \in Nat
        /\ \A n \in 1..Len(heard) : heard'[n] = heard[n]
        /\ heard'[Len(heard) + 1] = x
    BY <2>2, Appending DEF CallInv
  <2>4. /\ \A n \in DOMAIN heard : heard[n].task \in DOMAIN Symbols
        /\ \A n, m \in DOMAIN heard : heard[n].task = heard[m].task => n = m
    BY <1>0, <2>2 DEF BulkInv
  <2>5. \A n \in DOMAIN heard' : n \in 1..Len(heard) \/ n = Len(heard) + 1
    BY <2>3
  <2> QED
    BY <2>1, <2>2, <2>3, <2>4, <2>5 DEF BulkInv, BulkInOrder
<1>3. CASE BulkJoins
  <2> DEFINE results == [i \in DOMAIN Symbols |-> Joined(i)]
  <2>1. /\ pc = "bulk.join" /\ pc' = "done" /\ UNCHANGED <<tool, heard>>
        /\ answer'.body = results
    BY <1>3, BodyOf DEF BulkJoins, Answers, Concludes
  <2>2. /\ \A n \in DOMAIN heard : heard[n].task \in DOMAIN Symbols
        /\ \A n, m \in DOMAIN heard : heard[n].task = heard[m].task => n = m
    BY <1>0, <2>1 DEF BulkInv
  <2>3. Len(results) = Len(Symbols)
    <3>1. DOMAIN Symbols = 1..Len(Symbols) /\ Len(Symbols) \in Nat
      BY BulkAssumption, LenProperties
    <3>2. results \in [1..Len(Symbols) -> {Joined(i) : i \in DOMAIN Symbols}]
      BY <3>1
    <3>3. results \in Seq({Joined(i) : i \in DOMAIN Symbols})
      BY <3>1, <3>2, SeqDef
    <3>4. Len(results) \in Nat /\ 1..Len(results) = 1..Len(Symbols)
      BY <3>1, <3>2, <3>3, LenProperties
    <3> QED
      BY <3>1, <3>4
  <2>4. ASSUME NEW i \in DOMAIN heard PROVE results[heard[i].task] = Result(heard[i])
    <3>1. (CHOOSE n \in DOMAIN heard : heard[n].task = heard[i].task) = i
      BY <2>2
    <3> QED
      BY <2>2, <3>1 DEF Joined
  <2>5. \A i \in DOMAIN heard :
          /\ Result(heard[i]).ok <=> heard[i].outcome = "quote"
          /\ heard[i].outcome # "panic" => Result(heard[i]).symbol = Symbols[heard[i].task]
    BY DEF Result
  <2> HIDE DEF results
  <2>6. BulkInOrder'
    BY <2>1, <2>3, <2>4, <2>5 DEF BulkInOrder
  <2> QED
    BY <2>1, <2>2, <2>6 DEF BulkInv
<1>4. ~CallOptionChain /\ ~ChainOpen /\ ~ChainResolved /\ ~ChainItem /\ ~ChainEnd /\ ~ChainFail
  BY <1>0 DEF CallOptionChain, ChainOpen, ChainResolved, ChainItem, ChainEnd, ChainFail,
     Arrives, Enters, Goes, Answers, Settles, Fails, Concludes
<1> QED
  BY <1>1, <1>2, <1>3, <1>4 DEF ChainSteps, ChainsCall, ChainsOwn, ChainsGateway

LEMMA BulkNext == CallInv /\ BulkInv /\ [Next]_vars => BulkInv'
<1>1. UNCHANGED call /\ BulkInv => BulkInv'
  BY DEF call, frame, BulkInv, BulkInOrder
<1>2. tool' # "get_bulk_quotes" => BulkInv'
  BY DEF BulkInv
<1>3. "get_bulk_quotes" \in ChainTools
  BY DEF ChainTools
<1> QED
  BY <1>1, <1>2, <1>3, OwnSteps, BulkStep

-----------------------------------------------------------------------------
(* The IV rank: sorting is a permutation that leaves the bars in the order *)
(* of their days, so positions of the series stand for days, and what the  *)
(* handler counts over positions the property counts over bars.            *)
LEMMA LeastOf ==
    ASSUME NEW S \in SUBSET Nat, S # {}
    PROVE  SetMin(S) \in S /\ \A k \in S : SetMin(S) <= k
  BY LeastNatural DEF SetMin

LEMMA GreatestOf ==
    ASSUME NEW S \in SUBSET Nat, S # {}, NEW b \in Nat, \A k \in S : k <= b
    PROVE  SetMax(S) \in S /\ \A k \in S : k <= SetMax(S)
<1>1. \E m \in S : \A k \in S : m >= k
  BY GreatestNatural
<1>2. SetMax(S) \in S /\ \A k \in S : SetMax(S) >= k
  BY <1>1 DEF SetMax
<1> QED
  BY <1>2

(* Bars in the order of their days.                                        *)
InDays(t, n) ==
    /\ t = [i \in 1..n |-> t[i]]
    /\ \A i \in 1..n : t[i] \in Bar /\ t[i].day \in Nat /\ t[i].close \in 0..TopClose
    /\ \A i, j \in 1..n : i < j => t[i].day < t[j].day

LEMMA SeriesInDays ==
    ASSUME NEW bars \in Reply, NEW t, t = ToSeries(bars)
    PROVE  \E n \in Nat : /\ InDays(t, n) /\ Len(t) = n
                          /\ {t[i] : i \in 1..n} = {bars[i] : i \in DOMAIN bars}
<1>1. PICK n \in 0..Days : /\ bars \in [1..n -> Bar]
                           /\ \A i, j \in 1..n : bars[i].day = bars[j].day => i = j
  BY DEF Reply
<1> DEFINE keys == [i \in 1..n |-> bars[i].day]
           p == SortOrder(keys)
<1>2. n \in Nat /\ DOMAIN bars = 1..n
  BY <1>1, HistoryAssumption
<1>3. \A i \in 1..n : bars[i] \in Bar /\ bars[i].day \in Nat /\ bars[i].close \in 0..TopClose
  BY <1>1, HistoryAssumption DEF Bar
<1>4. DOMAIN keys = 1..n /\ \A i \in 1..n : keys[i] \in Nat /\ keys[i] = bars[i].day
  BY <1>3
<1>5. t = [i \in 1..n |-> bars[p[i]]]
  BY <1>2 DEF ToSeries, SortedBy
<1> HIDE DEF keys
<1>6. Sorts(p, keys, n)
  BY <1>2, <1>4, SortOrderSorts
<1> HIDE DEF p
<1>7. /\ \A i \in 1..n : p[i] \in 1..n /\ t[i] = bars[p[i]]
      /\ t = [i \in 1..n |-> t[i]]
  BY <1>5, <1>6 DEF Sorts
<1>8. ASSUME NEW i \in 1..n, NEW j \in 1..n, i < j PROVE t[i].day < t[j].day
  <2> DEFINE a == p[i]
             b == p[j]
  <2>1. a \in 1..n /\ b \in 1..n /\ Before(keys, a, b) /\ t[i] = bars[a] /\ t[j] = bars[b]
    BY <1>6, <1>7, <1>8 DEF Sorts
  <2> HIDE DEF a, b
  <2>2. keys[a] = keys[b] => a = b
    BY <1>1, <1>4, <2>1
  <2>3. keys[a] < keys[b]
    BY <1>4, <2>1, <2>2 DEF Before
  <2> QED
    BY <1>4, <2>1, <2>3
<1>9. {t[i] : i \in 1..n} = {bars[i] : i \in 1..n}
  <2>1. \A k \in 1..n : \E i \in 1..n : p[i] = k
    BY <1>6 DEF Sorts
  <2>2. \A k \in 1..n : \E i \in 1..n : t[i] = bars[k]
    BY <1>7, <2>1
  <2>3. \A i \in 1..n : \E k \in 1..n : t[i] = bars[k]
    BY <1>7
  <2> QED
    BY <2>2, <2>3
<1>10. Len(t) = n
  BY <1>2, <1>7, Counted
<1>11. InDays(t, n)
  BY <1>3, <1>7, <1>8 DEF InDays
<1> QED
  BY <1>2, <1>9, <1>10, <1>11

(* There are as many bars as positions of them.                            *)
LEMMA CountBars ==
    ASSUME NEW n \in Nat, NEW t, InDays(t, n), NEW A \in SUBSET (1..n),
           NEW T, T = {t[i] : i \in A}
    PROVE  Cardinality(T) = Cardinality(A)
<1> DEFINE f == [i \in A |-> t[i]]
<1>1. IsFiniteSet(1..n)
  BY FS_Interval
<1>2. IsFiniteSet(A) /\ Cardinality(A) \in Nat
  BY <1>1, FS_Subset, FS_CardinalityType
<1>3. \A i, j \in A : i \in 1..n /\ j \in 1..n /\ (i < j \/ j < i \/ i = j)
  OBVIOUS
<1>4. \A i, j \in A : t[i] = t[j] => i = j
  <2>1. \A i, j \in 1..n : i < j => t[i].day < t[j].day /\ t[i].day \in Nat /\ t[j].day \in Nat
    BY DEF InDays
  <2>2. \A i, j \in 1..n : i < j => t[i] # t[j]
    BY <2>1
  <2> QED
    BY <1>3, <2>2
<1>5. f \in Bijection(A, T)
  BY <1>4 DEF Bijection, Injection, Surjection, IsInjective
<1> HIDE DEF f
<1> QED
  BY <1>2, <1>5, FS_Bijection DEF ExistsBijection

(* The window of the model and that of the property.                       *)
LEMMA WindowIs ==
    ASSUME NEW n \in Nat, NEW t, InDays(t, n), NEW w \in Nat \ {0},
           NEW closes, closes = [i \in 1..n |-> t[i].close],
           \E i \in 1..n : t[i].close # 0
    PROVE  LET slice == LastValues(closes, w)
               last == SetMax(slice)
           IN  /\ Recent(Observed({t[i] : i \in 1..n}), w) = {t[i] : i \in slice}
               /\ slice \in SUBSET (1..n)
               /\ last \in slice /\ \A i \in slice : i <= last
<1> DEFINE vals == {i \in 1..n : t[i].close > 0}
           later(i) == {j \in vals : j > i}
           slice == {i \in vals : Cardinality(later(i)) < w}
           S == {t[i] : i \in vals}
<1>0. \A i \in 1..n : t[i].day \in Nat /\ t[i].close \in Nat
  BY HistoryAssumption DEF InDays
<1>1. LastValues(closes, w) = slice
  <2>1. DOMAIN closes = 1..n /\ \A i \in 1..n : closes[i] = t[i].close
    OBVIOUS
  <2>2. {i \in DOMAIN closes : closes[i] > 0} = vals
    BY <2>1
  <2> QED
    BY <2>2 DEF LastValues
<1>2. Observed({t[i] : i \in 1..n}) = S
  BY DEF Observed
<1>3. ASSUME NEW i \in vals
      PROVE  {c \in S : c.day > t[i].day} = {t[j] : j \in later(i)}
  <2>1. ASSUME NEW j \in vals PROVE t[j].day > t[i].day <=> j > i
    <3>1. i < j => t[i].day < t[j].day
      BY DEF InDays
    <3>2. j < i => t[j].day < t[i].day
      BY DEF InDays
    <3>3. t[i].day \in Nat /\ t[j].day \in Nat /\ i \in Nat /\ j \in Nat
      BY <1>0
    <3> QED
      BY <3>1, <3>2, <3>3
  <2> QED
    BY <2>1
<1>4. ASSUME NEW i \in vals
      PROVE  Cardinality({c \in S : c.day > t[i].day}) = Cardinality(later(i))
  <2> DEFINE A == later(i)
             B == {c \in S : c.day > t[i].day}
  <2>0. A \in SUBSET (1..n)
    OBVIOUS
  <2>1. B = {t[j] : j \in A}
    BY <1>3
  <2> HIDE DEF A, B
  <2>2. Cardinality(B) = Cardinality(A)
    BY <2>0, <2>1, CountBars
  <2> QED
    BY <2>2 DEF A, B
<1>5. Recent(S, w) = {t[i] : i \in slice}
  <2>1. Recent(S, w) = {b \in S : Cardinality({c \in S : c.day > b.day}) < w}
    BY DEF Recent
  <2> HIDE DEF later
  <2> QED
    BY <1>4, <2>1
<1>6. slice \in SUBSET (1..n) /\ slice \in SUBSET Nat
  OBVIOUS
<1>7. \E i \in slice : TRUE
  <2>1. vals \in SUBSET Nat /\ vals # {} /\ \A i \in vals : i <= n
    BY <1>0
  <2>2. PICK i \in vals : \A j \in vals : j <= i
    BY <2>1, GreatestNatural
  <2>3. later(i) = {}
    BY <2>1, <2>2
  <2>4. Cardinality(later(i)) < w
    BY <2>3, FS_EmptySet
  <2> QED
    BY <2>4
<1>8. \A i \in slice : i <= n
  BY <1>6
<1> HIDE DEF slice
<1>9. SetMax(slice) \in slice /\ \A i \in slice : i <= SetMax(slice)
  BY <1>6, <1>7, <1>8, GreatestOf
<1> QED
  BY <1>1, <1>2, <1>5, <1>6, <1>9

LEMMA RanksWell ==
    ASSUME NEW low \in Nat, NEW high \in Nat, NEW iv \in Nat, low <= iv, iv <= high,
           NEW rank, rank = IF high > low THEN <<iv - low, high - low>> ELSE <<0, 1>>
    PROVE  /\ rank[1] * (high - low) = (iv - low) * rank[2]
           /\ rank[2] > 0 /\ rank[1] \in 0..rank[2]
<1>1. CASE high > low
  <2>1. rank[1] = iv - low /\ rank[2] = high - low
    BY <1>1
  <2> QED
    BY <1>1, <2>1
<1>2. CASE ~(high > low)
  <2>1. rank[1] = 0 /\ rank[2] = 1 /\ iv = low /\ high = low
    BY <1>2
  <2> QED
    BY <2>1
<1> QED
  BY <1>1, <1>2

LEMMA AnswerFaithful ==
    ASSUME NEW bars \in Reply, args.window \in Nat \ {0},
           NEW body, IvAnswer(ToSeries(bars)) = Success(body)
    PROVE  IvFaithful(bars, args.window, body)
<1> DEFINE t == ToSeries(bars)
           w == args.window
<1>1. PICK n \in Nat : /\ InDays(t, n) /\ Len(t) = n
                       /\ {t[i] : i \in 1..n} = {bars[i] : i \in DOMAIN bars}
  BY SeriesInDays
<1> HIDE DEF t
<1>2. DOMAIN t = 1..n /\ \A i \in 1..n : t[i].day \in Nat /\ t[i].close \in 0..TopClose
  BY <1>1 DEF InDays
<1>d. InDays(t, n)
  BY <1>1
<1> DEFINE closes == [i \in 1..n |-> t[i].close]
           stats == IvRank(closes, w)
<1>3. /\ \E i \in 1..n : t[i].close # 0
      /\ body = [stats |-> stats, first |-> t[1].day, last |-> t[n].day]
  <2>1. CASE \A i \in 1..n : t[i].close = 0
    BY <1>2, <2>1, NotOk, BodyOf DEF IvAnswer, t
  <2>2. CASE ~\A i \in 1..n : t[i].close = 0
    <3>1. IvAnswer(t) = Success([stats |-> stats, first |-> t[1].day, last |-> t[n].day])
      BY <1>1, <1>2, <2>2 DEF IvAnswer
    <3>2. Success(body).body = Success([stats |-> stats, first |-> t[1].day, last |-> t[n].day]).body
      BY <3>1 DEF t
    <3> HIDE DEF stats
    <3>3. body = [stats |-> stats, first |-> t[1].day, last |-> t[n].day]
      BY <3>2, BodyOf
    <3> QED
      BY <2>2, <3>3
  <2> QED
    BY <2>1, <2>2
<1>4. body.stats = stats /\ body.first = t[1].day /\ body.last = t[n].day
  BY <1>3
<1> DEFINE slice == LastValues(closes, w)
           last == SetMax(slice)
           C == {closes[i] : i \in slice}
           low == SetMin(C)
           high == SetMax(C)
           iv == closes[last]
           window == {t[i] : i \in slice}
           all == {bars[i] : i \in DOMAIN bars}
           now == CHOOSE b \in window : \A c \in window : c.day <= b.day
<1>5. /\ stats.iv = iv /\ stats.low = low /\ stats.high = high
      /\ stats.rank = IF high > low THEN <<iv - low, high - low>> ELSE <<0, 1>>
      /\ stats.percentile = <<Cardinality({i \in slice : closes[i] < iv}), Cardinality(slice)>>
  BY DEF IvRank
<1> HIDE DEF stats
<1>6. /\ Recent(Observed(all), w) = window
      /\ slice \in SUBSET (1..n)
      /\ last \in slice /\ \A i \in slice : i <= last
  <2>1. all = {t[i] : i \in 1..n}
    BY <1>1
  <2>2. closes = [i \in 1..n |-> t[i].close] /\ w \in Nat \ {0}
    OBVIOUS
  <2> HIDE DEF closes, w, all
  <2>3. /\ Recent(Observed({t[i] : i \in 1..n}), w) = {t[i] : i \in LastValues(closes, w)}
        /\ LastValues(closes, w) \in SUBSET (1..n)
        /\ SetMax(LastValues(closes, w)) \in LastValues(closes, w)
        /\ \A i \in LastValues(closes, w) : i <= SetMax(LastValues(closes, w))
    BY <1>1, <1>3, <2>2, WindowIs
  <2> QED
    BY <2>1, <2>3
<1>7. \A i \in slice : closes[i] = t[i].close /\ closes[i] \in Nat /\ closes[i] <= TopClose
  BY <1>2, <1>6, HistoryAssumption
<1> HIDE DEF slice, last, closes
<1>8. now = t[last]
  <2>1. \A i \in slice : t[i].day <= t[last].day
    <3> SUFFICES ASSUME NEW i \in slice PROVE t[i].day <= t[last].day
      OBVIOUS
    <3>1. i \in 1..n /\ last \in 1..n /\ (i < last \/ i = last)
      BY <1>6
    <3> QED
      BY <1>1, <1>2, <3>1 DEF InDays
  <2>2. \A i \in slice : (\A j \in slice : t[j].day <= t[i].day) => i = last
    <3> SUFFICES ASSUME NEW i \in slice, t[last].day <= t[i].day PROVE i = last
      BY <1>6
    <3>1. i \in 1..n /\ last \in 1..n /\ (i < last \/ i = last)
      BY <1>6
    <3>2. i < last => t[i].day < t[last].day
      BY <1>1, <3>1 DEF InDays
    <3> QED
      BY <1>2, <3>1, <3>2
  <2>3. t[last] \in window /\ \A c \in window : c.day <= t[last].day
    BY <1>6, <2>1
  <2>4. \A b \in window : (\A c \in window : c.day <= b.day) => b = t[last]
    BY <2>2
  <2> HIDE DEF window
  <2> QED
    BY <2>3, <2>4
<1>9. now.close = iv /\ iv \in Nat /\ iv \in C
  BY <1>6, <1>7, <1>8
<1>10. C \in SUBSET Nat /\ TopClose \in Nat /\ \A k \in C : k <= TopClose
  BY <1>7, HistoryAssumption
<1>11. /\ low \in C /\ \A k \in C : low <= k
       /\ high \in C /\ \A k \in C : k <= high
  <2> HIDE DEF C
  <2> QED
    BY <1>9, <1>10, LeastOf, GreatestOf
<1>12. \A b \in window : low <= b.close /\ b.close <= high
  BY <1>7, <1>11
<1>13. \E b, c \in window : low = b.close /\ high = c.close
  <2>1. PICK i \in slice, j \in slice : low = closes[i] /\ high = closes[j]
    BY <1>11
  <2> QED
    BY <1>7, <2>1
<1>14. /\ stats.rank[1] * (high - low) = (now.close - low) * stats.rank[2]
       /\ stats.rank[2] > 0 /\ stats.rank[1] \in 0..stats.rank[2]
  <2>1. low \in Nat /\ high \in Nat /\ low <= iv /\ iv <= high
    BY <1>9, <1>10, <1>11
  <2> HIDE DEF low, high, iv
  <2> QED
    BY <1>5, <1>9, <2>1, RanksWell
<1>15. stats.percentile = <<Cardinality({b \in window : b.close < now.close}), Cardinality(window)>>
  <2> DEFINE below == {i \in slice : closes[i] < iv}
  <2>1. {b \in window : b.close < now.close} = {t[i] : i \in below}
    <3>1. \A i \in slice : t[i].close < now.close <=> closes[i] < iv
      BY <1>7, <1>9
    <3> HIDE DEF now, iv
    <3> QED
      BY <3>1
  <2>2. below \in SUBSET (1..n)
    BY <1>6
  <2> HIDE DEF below
  <2> DEFINE B == {b \in window : b.close < now.close}
  <2>3. B = {t[i] : i \in below}
    BY <2>1
  <2>4. Cardinality(B) = Cardinality(below)
    <3> HIDE DEF B, C, low, high, iv, window, all, now, w
    <3>1. below \in SUBSET (1..n)
      BY <2>2
    <3>2. B = {t[i] : i \in below}
      BY <2>3
    <3>3. InDays(t, n)
      BY <1>d
    <3> QED
      BY <3>1, <3>2, <3>3, CountBars
  <2> HIDE DEF B
  <2>5. slice \in SUBSET (1..n) /\ window = {t[i] : i \in slice}
    BY <1>6
  <2> HIDE DEF window
  <2>6. Cardinality(window) = Cardinality(slice)
    BY <1>d, <2>5, CountBars
  <2> QED
    BY <1>5, <2>4, <2>6 DEF below, B
<1>16. \A b \in all : t[1].day <= b.day /\ b.day <= t[n].day
  <2> SUFFICES ASSUME NEW i \in 1..n PROVE t[1].day <= t[i].day /\ t[i].day <= t[n].day
    BY <1>1
  <2>1. 1 \in 1..n /\ n \in 1..n /\ (1 = i \/ 1 < i) /\ (i = n \/ i < n)
    OBVIOUS
  <2> QED
    BY <1>1, <1>2, <2>1 DEF InDays
<1> HIDE DEF all, window, low, high, iv, now
<1>17. IvFaithful(bars, w, body) <=>
         /\ body.stats.iv = now.close
         /\ \A b \in window : body.stats.low <= b.close /\ b.close <= body.stats.high
         /\ \E b, c \in window : body.stats.low = b.close /\ body.stats.high = c.close
         /\ body.stats.rank[1] * (body.stats.high - body.stats.low)
              = (now.close - body.stats.low) * body.stats.rank[2]
         /\ body.stats.rank[2] > 0 /\ body.stats.rank[1] \in 0..body.stats.rank[2]
         /\ body.stats.percentile = <<Cardinality({b \in window : b.close < now.close}),
                                      Cardinality(window)>>
         /\ \A b \in all : body.first <= b.day /\ b.day <= body.last
  BY <1>6 DEF IvFaithful, all, now
<1> QED
  BY <1>4, <1>5, <1>9, <1>12, <1>13, <1>14, <1>15, <1>16, <1>17

IvInv ==
    tool = "get_iv_rank" =>
      /\ pc \in {"iv.open", "iv.fetch"} => heard = <<>> /\ args.window \in Nat \ {0}
      /\ IvRankFaithful

LEMMA IvStep ==
    ASSUME CallInv, IvInv, HistorySteps, tool' = "get_iv_rank" PROVE IvInv'
<1> USE DEF frame
<1>0. /\ pc \in {"iv.open", "iv.fetch"} => tool = "get_iv_rank"
      /\ pc \in {"bars.open", "bars.fetch"} => tool \in {"get_historical_data", "get_market_data"}
      /\ pc \in {"ticks.open", "ticks.stream"} => tool = "get_historical_ticks"
  BY Homes DEF CallInv, Placed
<1>g. GivesUp => IvInv'
  BY DEF GivesUp, IvInv, IvRankFaithful
<1>1. CASE CallIvRank
  <2>1. \/ GivesUp
        \/ \E w \in 1..Days : pc' = "iv.open" /\ heard' = <<>> /\ args' = [window |-> w]
    BY <1>1, GivingUp DEF CallIvRank, Arrives, Enters, CallInv
  <2>2. ASSUME NEW w \in 1..Days, pc' = "iv.open", heard' = <<>>, args' = [window |-> w]
        PROVE  IvInv'
    <3>1. args'.window = w /\ w \in Nat \ {0}
      BY <2>2, HistoryAssumption
    <3> QED
      BY <2>2, <3>1 DEF IvInv, IvRankFaithful
  <2> QED
    BY <1>g, <2>1, <2>2
<1>2. CASE IvOpen
  <2>1. \/ GivesUp
        \/ pc = "iv.open" /\ pc' = "iv.fetch" /\ UNCHANGED <<heard, args>>
    BY <1>2, GivingUp DEF IvOpen, Goes
  <2> QED
    BY <1>g, <1>0, <2>1 DEF IvInv, IvRankFaithful
<1>3. CASE IvReply
  <2>1. PICK bars \in Reply :
          /\ pc = "iv.fetch" /\ pc' = "done" /\ UNCHANGED args
          /\ heard' = Append(heard, [kind |-> "bars", bars |-> bars])
          /\ answer' = IvAnswer(ToSeries(bars))
    BY <1>3 DEF IvReply, FetchBars, Settles, HeardLast, Concludes
  <2>2. heard = <<>> /\ args.window \in Nat \ {0}
    BY <1>0, <2>1 DEF IvInv
  <2>3. heard'[1].bars = bars
    <3> DEFINE x == [kind |-> "bars", bars |-> bars]
    <3>1. x.bars = bars
      OBVIOUS
    <3> HIDE DEF x
    <3>2. heard'[1] = x
      BY <2>1, <2>2, Appending, EmptyIsSeq DEF x
    <3> QED
      BY <3>1, <3>2
  <2>4. CASE \E body : answer' = Success(body)
    <3>1. PICK body : answer' = Success(body)
      BY <2>4
    <3>2. IvFaithful(bars, args.window, body)
      BY <2>1, <2>2, <3>1, AnswerFaithful
    <3>3. answer'.body = body
      BY <3>1, BodyOf
    <3> QED
      BY <2>1, <2>3, <3>2, <3>3 DEF IvInv, IvRankFaithful
  <2>5. CASE ~\E body : answer' = Success(body)
    <3>1. answer'.ok = FALSE
      BY <2>1, <2>5, NotOk DEF IvAnswer
    <3> QED
      BY <2>1, <3>1 DEF IvInv, IvRankFaithful
  <2> QED
    BY <2>4, <2>5
<1>4. CASE IvTimeout \/ IvFail
  BY <1>4, <1>g, GivingUp DEF IvTimeout, IvFail
<1>5. /\ ~CallHistoricalData /\ ~CallMarketDataHistorical /\ ~CallTicks /\ ~BarsOpen /\ ~BarsTimeout
      /\ ~TicksOpen /\ ~TicksIdle /\ ~BarsReply /\ ~BarsFail /\ ~TicksItem /\ ~TicksEnd
      /\ ~TicksFail /\ ~TicksRefused
  BY <1>0 DEF CallHistoricalData, CallMarketDataHistorical, CallTicks, BarsOpen, BarsTimeout,
     TicksOpen, TicksIdle, BarsReply, BarsFail, TicksItem, TicksEnd, TicksFail, TicksRefused,
     FetchBars, Arrives, Enters, Rejected, Opens, Fails, TimesOut, Goes, Answers, Concludes,
     Settles, Hears
<1> QED
  BY <1>1, <1>2, <1>3, <1>4, <1>5 DEF HistorySteps, HistoryCall, HistoryOwn, HistoryGateway

LEMMA IvNext == CallInv /\ IvInv /\ [Next]_vars => IvInv'
<1>1. UNCHANGED call /\ IvInv => IvInv'
  BY DEF call, frame, IvInv, IvRankFaithful
<1>2. tool' # "get_iv_rank" => IvInv'
  BY DEF IvInv, IvRankFaithful
<1>3. "get_iv_rank" \in HistoryTools
  BY DEF HistoryTools
<1> QED
  BY <1>1, <1>2, <1>3, OwnSteps, IvStep

-----------------------------------------------------------------------------
(* Nobody has been called at first.                                        *)
AnswerInv == CallInv /\ OrdersRest /\ HistoryRest /\ ChainRest /\ EventsInv /\ StatusInv
             /\ LastGoodInv /\ BulkInv /\ IvInv

LEMMA AnswerInit == Init => AnswerInv
<1>1. Init => tool \notin OrderTools \cup HistoryTools \cup ChainTools \cup EventTools \cup StatusTools
  BY Disjoint, NoneAssumption DEF Init
<1> QED
  BY <1>1, CallInit DEF AnswerInv, OrdersRest, HistoryRest, ChainRest, EventsInv, StatusInv,
     LastGoodInv, BulkInv, IvInv, StatusTools, ChainTools, HistoryTools

LEMMA AnswerNext == AnswerInv /\ [Next]_vars => AnswerInv'
  BY CallNext, OrdersRestNext, HistoryRestNext, ChainRestNext, EventsNext, StatusNext, LastGoodNext,
     BulkNext, IvNext DEF AnswerInv

LEMMA AnswersHold == Spec => []AnswerInv
  BY AnswerInit, AnswerNext, PTL DEF Spec

(* Success is claimed only on what the gateway said (SuccessRestsOnData):  *)
(* an answer on bars, ticks, events, a chain or a preview rests on an item *)
(* of that kind, and one on orders on the end of their stream, by          *)
(* openOrderEnd or with its session; never on a timer or an error.         *)
THEOREM SuccessIsGrounded == Spec => []SuccessRestsOnData
<1>1. AnswerInv => SuccessRestsOnData
  BY DEF AnswerInv, SuccessRestsOnData, OrdersRest, HistoryRest, ChainRest, EventsInv, Answered,
     OrderTools, HistoryTools, ChainTools, EventTools
<1> QED
  BY <1>1, AnswersHold, PTL

(* A report on events never claims more of the service than the gateway    *)
(* said, and is about the contract asked for (EventReportHonest).          *)
THEOREM EventReportIsHonest == Spec => []EventReportHonest
<1>1. AnswerInv => EventReportHonest
  BY DEF AnswerInv, EventsInv, EventReportHonest, EventTools
<1> QED
  BY <1>1, AnswersHold, PTL

(* Failures and outage in one status answer agree unless the canary stored *)
(* in between (StatusTellsOneStory).                                       *)
THEOREM StatusIsOneStory == Spec => []StatusTellsOneStory
<1>1. AnswerInv => StatusTellsOneStory
  BY DEF AnswerInv, StatusInv, StatusTellsOneStory
<1> QED
  BY <1>1, AnswersHold, PTL

(* The age told with a last-good snapshot is its own or that of a later    *)
(* one (AgeOfToldOrLater).                                                 *)
THEOREM AgeIsOfToldOrLater == Spec => []AgeOfToldOrLater
<1>1. AnswerInv => AgeOfToldOrLater
  BY DEF AnswerInv, LastGoodInv, AgeOfToldOrLater
<1> QED
  BY <1>1, AnswersHold, PTL

(* The n-th result of a bulk call is that of its n-th symbol, in whatever  *)
(* order the tasks end (BulkInOrder).                                      *)
THEOREM BulkIsInOrder == Spec => []BulkInOrder
<1>1. AnswerInv => BulkInOrder
  BY DEF AnswerInv, BulkInv, BulkInOrder
<1> QED
  BY <1>1, AnswersHold, PTL

(* Whatever order the bars came in, the IV, its rank and its percentile    *)
(* are those of the most recent observations, as many as were asked for    *)
(* (IvRankFaithful).                                                       *)
THEOREM IvRankIsFaithful == Spec => []IvRankFaithful
<1>1. AnswerInv => IvRankFaithful
  BY DEF AnswerInv, IvInv, IvRankFaithful
<1> QED
  BY <1>1, AnswersHold, PTL
=============================================================================
