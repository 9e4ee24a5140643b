------------------------------ MODULE OpenOrders ------------------------------
(***************************************************************************)
(* The order reads (src/src/ibkr/orders.rs): get_open_orders, which folds  *)
(* a stream of interleaved order and status reports of all clients, and    *)
(* what_if, which waits for one report of its own.                         *)
(*                                                                         *)
(* An identity is a pair of client and order id, and order ids are only    *)
(* unique within a client.  Of a report remain the fields that the fold    *)
(* and the filters read: working stands for the status, filled for the     *)
(* live quantities, account and symbol for the statics.                    *)
(***************************************************************************)
EXTENDS ToolCall

CONSTANTS
    Identity,     \* pairs <<client, order id>>
    AccountOf,    \* the account and
    SymbolOf,     \* the symbol of each order, as the broker knows them
    Omits         \* orders whose reports leave the account out

ASSUME OrderAssumption ==
    /\ AccountOf \in [Identity -> Account]
    /\ SymbolOf \in [Identity -> STRING]
    /\ Omits \subseteq Identity

Symbol == {SymbolOf[k] : k \in Identity}

AccountIn(k) == IF k \in Omits THEN "" ELSE AccountOf[k]
OrderReport == {[kind |-> "order", id |-> k, working |-> w, symbol |-> SymbolOf[k],
                 account |-> AccountIn(k)] : k \in Identity, w \in BOOLEAN}
(* One unit may be filled, while the order works or as it ends.            *)
StatusReport == {[kind |-> "status", id |-> k, working |-> s[1], filled |-> s[2]] :
                 k \in Identity, s \in {<<TRUE, 0>>, <<TRUE, 1>>, <<FALSE, 1>>}}

-----------------------------------------------------------------------------
(* The fold: rows are keyed by identity.                                   *)

EmptyRow == [account |-> "", symbol |-> "", working |-> FALSE, filled |-> 0]

MutantKeyOf(m) == <<0, m.id[2]>>
KeyOf(m) == m.id

(* A repeated order report refreshes all but the live quantities.          *)
FromOrderData(row, m) ==
    [account |-> m.account, symbol |-> m.symbol, working |-> m.working,
     filled |-> row.filled]

ApplyStatus(row, m) ==
    [account |-> row.account, symbol |-> row.symbol, working |-> m.working,
     filled |-> m.filled]

(* A status without an order report still becomes a row.                   *)
ApplyMessage(rows, m) ==
    LET k == KeyOf(m)
        row == IF k \in DOMAIN rows THEN rows[k] ELSE EmptyRow
    IN  Insert(rows, k, IF m.kind = "order" THEN FromOrderData(row, m) ELSE ApplyStatus(row, m))

(* The account filter keeps rows without an account; the symbol filter is  *)
(* exact.  An omitted filter is an empty one.                              *)
KeepsRow(row) ==
    /\ args.account \notin {None, ""} => row.account \in {"", args.account}
    /\ args.symbol # "" => row.symbol = args.symbol

FilterOrders(rows) == [k \in {j \in DOMAIN rows : KeepsRow(rows[j])} |-> rows[k]]

-----------------------------------------------------------------------------
CallOpenOrders == \E a \in AccountArg, s \in Symbol \cup {""} :
    Gated("get_open_orders", [account |-> a, symbol |-> s], "orders.open", <<>>)

OpenOrdersOpen == Opens("orders.open", "orders.stream")

OrdersMessage == \E m \in OrderReport \cup StatusReport :
    /\ Hears("orders.stream", m)
    /\ Goes("orders.stream", "orders.stream")
    /\ acc' = ApplyMessage(acc, m)

(* openOrderEnd, which ibapi turns into the end of the stream.             *)
OrdersEnd == Settles("orders.stream", [kind |-> "end"], Success(FilterOrders(acc)))

(* The stream is closed with its session, before or without openOrderEnd.  *)
(* The handler cannot tell: what has arrived is its answer, as if complete.*)
OrdersClose == Settles("orders.stream", [kind |-> "closed"], Success(FilterOrders(acc)))

OrdersFail == Fails("orders.stream")

(* Ten seconds over the whole stream: what has arrived is not an answer.   *)
MutantOrdersTimeout == Answers("orders.stream", Success(FilterOrders(acc)))
OrdersTimeout == TimesOut("orders.stream")

-----------------------------------------------------------------------------
(* what_if: the account goes to the gate and no further.                   *)

Preview == {"market", "limit", "limit without price", "bad action", "bad type"}

CallWhatIf == \E a \in AccountArg, o \in Preview :
    Gated("what_if", [account |-> a, order |-> o], "preview.open", None)

(* The order is built once the client is there, and placed as a what-if.   *)
WhatIfOpen ==
    /\ pc = "preview.open"
    /\ \/ args.order \in {"market", "limit"} /\ Opens("preview.open", "preview.stream")
       \/ /\ args.order \notin {"market", "limit"}
          /\ \E why \in {"not connected", "invalid"} : Answers("preview.open", Failure(why))

(* Only an OpenOrder with the id of this order ends the wait; other data,  *)
(* notices and errors do not.                                              *)
WhatIfItem ==
    /\ \E x \in {[kind |-> "preview", own |-> FALSE], [kind |-> "other"], [kind |-> "error"]} :
          Hears("preview.stream", x)
    /\ Goes("preview.stream", "preview.stream")
    /\ UNCHANGED acc

WhatIfReply ==
    Settles("preview.stream", [kind |-> "preview", own |-> TRUE], Success(None))

WhatIfCloses == Answers("preview.stream", Failure("no OpenOrder"))
WhatIfTimeout == TimesOut("preview.stream")

-----------------------------------------------------------------------------
OpenOrdersCall == CallOpenOrders \/ CallWhatIf
OpenOrdersOwn == OpenOrdersOpen \/ OrdersTimeout \/ WhatIfOpen \/ WhatIfTimeout
OpenOrdersGateway == OrdersMessage \/ OrdersEnd \/ OrdersClose \/ OrdersFail
                     \/ WhatIfItem \/ WhatIfReply \/ WhatIfCloses

-----------------------------------------------------------------------------
(* Properties.                                                             *)

ReportsOn(k) == {i \in Heard("order") \cup Heard("status") : heard[i].id = k}
LastOf(S) == CHOOSE i \in S : \A j \in S : j <= i
ReportedWorking(k) == ReportsOn(k) # {} /\ heard[LastOf(ReportsOn(k))].working

OrdersAnswered == pc = "done" /\ tool = "get_open_orders" /\ answer.ok
ShownWorking(k) == k \in DOMAIN answer.body /\ answer.body[k].working

(* What the reports heard so far say about the filters: nothing, as long   *)
(* as no order report has come.                                            *)
AccountMayMatch(k) ==
    args.account \in {None, ""} \/
      LET known == ReportsOn(k) \cap Heard("order")
      IN  known = {} \/ heard[LastOf(known)].account \in {"", args.account}
SymbolMatches(k) ==
    args.symbol = "" \/ \E i \in ReportsOn(k) \cap Heard("order") : heard[i].symbol = args.symbol

(* In whatever order the reports of several clients interleave, an order   *)
(* is shown as working exactly if its last report of either kind says so   *)
(* and nothing reported excludes it, and with the quantity of its last     *)
(* status report.  A symbol filter needs an order report to match.         *)
WorkingOrderShown ==
    OrdersAnswered => \A k \in Identity :
      /\ ShownWorking(k) <=> ReportedWorking(k) /\ AccountMayMatch(k) /\ SymbolMatches(k)
      /\ ShownWorking(k) =>
           LET live == ReportsOn(k) \cap Heard("status")
           IN  answer.body[k].filled = IF live = {} THEN 0 ELSE heard[LastOf(live)].filled

(* orders.rs:490: "this read must never hide a working order because a     *)
(* field or a message is absent".                                          *)
WorkingOrderNeverHidden ==
    OrdersAnswered => \A k \in Identity :
      ReportedWorking(k)
      /\ args.account \in {None, "", AccountOf[k]} /\ args.symbol \in {"", SymbolOf[k]}
      => ShownWorking(k)
=============================================================================
