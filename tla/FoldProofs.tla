------------------------------ MODULE FoldProofs ------------------------------
(***************************************************************************)
(* Theorems about the tools that fold a stream into rows.  The argument is *)
(* the same for each: the rows made so far are a function of what has been *)
(* heard, given by a definition that looks back over all of it (RowOf,     *)
(* Charged, AllRanks), and one more item changes both sides in the same    *)
(* way.                                                                    *)
(***************************************************************************)
EXTENDS CallProofs

LEMMA Inserting ==
    ASSUME NEW k, NEW v, acc' = Insert(acc, k, v)
    PROVE  /\ DOMAIN acc' = DOMAIN acc \cup {k} /\ acc'[k] = v
           /\ \A j \in DOMAIN acc : j # k => acc'[j] = acc[j]
  BY DEF Insert

(* The last of some items heard.                                           *)
LEMMA LastIn ==
    ASSUME NEW n \in Nat, NEW S \in SUBSET (1..n), S # {}
    PROVE  LastOf(S) \in S /\ \A j \in S : j <= LastOf(S)
<1>1. S \in SUBSET Nat /\ \A k \in S : k <= n
  OBVIOUS
<1>2. \E i \in S : \A j \in S : j <= i
  BY <1>1, GreatestNatural
<1> QED
  BY <1>2 DEF LastOf

LEMMA LastNew ==
    ASSUME NEW n \in Nat, NEW S \in SUBSET (1..n)
    PROVE  LastOf(S \cup {n + 1}) = n + 1
<1>1. S \cup {n + 1} \in SUBSET (1..(n + 1)) /\ S \cup {n + 1} # {}
  OBVIOUS
<1>2. /\ LastOf(S \cup {n + 1}) \in S \cup {n + 1}
      /\ \A j \in S \cup {n + 1} : j <= LastOf(S \cup {n + 1})
  BY <1>1, LastIn
<1>3. n + 1 <= LastOf(S \cup {n + 1})
  BY <1>2
<1>4. LastOf(S \cup {n + 1}) \in 1..(n + 1)
  BY <1>1, <1>2
<1> QED
  BY <1>3, <1>4

-----------------------------------------------------------------------------
(* Open orders.  What the reports heard so far make of the row of k.       *)
Orders(k) == ReportsOn(k) \cap Heard("order")
Statuses(k) == ReportsOn(k) \cap Heard("status")

RowOf(k) ==
    [account |-> IF Orders(k) = {} THEN "" ELSE heard[LastOf(Orders(k))].account,
     symbol |-> IF Orders(k) = {} THEN "" ELSE heard[LastOf(Orders(k))].symbol,
     working |-> heard[LastOf(ReportsOn(k))].working,
     filled |-> IF Statuses(k) = {} THEN 0 ELSE heard[LastOf(Statuses(k))].filled]

OrdersInv ==
    tool = "get_open_orders" =>
      /\ pc = "orders.open" => acc = <<>> /\ heard = <<>>
      /\ pc = "orders.stream" =>
           /\ \A k : k \in DOMAIN acc <=> ReportsOn(k) # {}
           /\ \A k \in DOMAIN acc : acc[k] = RowOf(k)
           /\ \A k : \A i \in Orders(k) : heard[i].symbol = SymbolOf[k]
      /\ WorkingOrderShown

LEMMA ReportsHeard ==
    ASSUME CallInv, NEW k
    PROVE  /\ Len(heard) \in Nat
           /\ ReportsOn(k) \in SUBSET (1..Len(heard)) /\ Orders(k) \in SUBSET (1..Len(heard))
           /\ Statuses(k) \in SUBSET (1..Len(heard))
           /\ ReportsOn(k) = Orders(k) \cup Statuses(k)
<1>1. Len(heard) \in Nat /\ DOMAIN heard = 1..Len(heard)
  BY Appending DEF CallInv
<1> QED
  BY <1>1 DEF ReportsOn, Orders, Statuses, Heard

LEMMA RowFields ==
    ASSUME NEW k, NEW r, r = RowOf(k)
    PROVE  /\ r.account = IF Orders(k) = {} THEN "" ELSE heard[LastOf(Orders(k))].account
           /\ r.symbol = IF Orders(k) = {} THEN "" ELSE heard[LastOf(Orders(k))].symbol
           /\ r.working = heard[LastOf(ReportsOn(k))].working
           /\ r.filled = IF Statuses(k) = {} THEN 0 ELSE heard[LastOf(Statuses(k))].filled
  BY DEF RowOf

LEMMA OrderReports ==
    /\ \A m \in OrderReport : m.kind = "order" /\ m.symbol = SymbolOf[m.id]
    /\ \A m \in StatusReport : m.kind = "status"
<1>1. ASSUME NEW m \in OrderReport PROVE m.kind = "order" /\ m.symbol = SymbolOf[m.id]
  BY <1>1 DEF OrderReport
<1>2. ASSUME NEW m \in StatusReport PROVE m.kind = "status"
  BY <1>2 DEF StatusReport
<1> QED
  BY <1>1, <1>2

LEMMA Fields ==
    ASSUME NEW a, NEW s, NEW w, NEW q, NEW r,
           r = [account |-> a, symbol |-> s, working |-> w, filled |-> q]
    PROVE  r.account = a /\ r.symbol = s /\ r.filled = q
  OBVIOUS

(* A report on m.id leaves the rows of the others as they are.             *)
LEMMA ReportsAppend ==
    ASSUME CallInv, NEW m, heard' = Append(heard, m), NEW k
    PROVE  /\ ReportsOn(k)' = IF m.kind \in {"order", "status"} /\ m.id = k
                              THEN ReportsOn(k) \cup {Len(heard) + 1} ELSE ReportsOn(k)
           /\ Orders(k)' = IF m.kind = "order" /\ m.id = k
                           THEN Orders(k) \cup {Len(heard) + 1} ELSE Orders(k)
           /\ Statuses(k)' = IF m.kind = "status" /\ m.id = k
                             THEN Statuses(k) \cup {Len(heard) + 1} ELSE Statuses(k)
           /\ heard'[Len(heard) + 1] = m
           /\ \A i \in 1..Len(heard) : heard'[i] = heard[i]
<1>1. /\ \A kind : Heard(kind)' = IF m.kind = kind THEN Heard(kind) \cup {Len(heard) + 1}
                                  ELSE Heard(kind)
      /\ \A kind : \A i \in Heard(kind) : i \in 1..Len(heard) /\ heard'[i] = heard[i]
      /\ heard'[Len(heard) + 1] = m
      /\ \A kind : Len(heard) + 1 \notin Heard(kind)
  BY HeardAppend DEF CallInv
<1>2. \A i \in 1..Len(heard) : heard'[i] = heard[i]
  BY Appending DEF CallInv
<1>3. ReportsOn(k)' = IF m.kind \in {"order", "status"} /\ m.id = k
                      THEN ReportsOn(k) \cup {Len(heard) + 1} ELSE ReportsOn(k)
  BY <1>1 DEF ReportsOn
<1>4. Orders(k)' = IF m.kind = "order" /\ m.id = k
                   THEN Orders(k) \cup {Len(heard) + 1} ELSE Orders(k)
  BY <1>1, <1>3 DEF Orders, ReportsOn
<1>5. Statuses(k)' = IF m.kind = "status" /\ m.id = k
                     THEN Statuses(k) \cup {Len(heard) + 1} ELSE Statuses(k)
  BY <1>1, <1>3 DEF Statuses, ReportsOn
<1> QED
  BY <1>1, <1>2, <1>3, <1>4, <1>5

(* Nothing that matters to the row of k has been heard.                    *)
LEMMA RowStays ==
    ASSUME CallInv, NEW k, ReportsOn(k) # {},
           ReportsOn(k)' = ReportsOn(k), Orders(k)' = Orders(k), Statuses(k)' = Statuses(k),
           \A i \in 1..Len(heard) : heard'[i] = heard[i]
    PROVE  RowOf(k)' = RowOf(k)
<1>1. LastOf(ReportsOn(k)) \in 1..Len(heard)
  BY ReportsHeard, LastIn
<1>2. Orders(k) # {} => LastOf(Orders(k)) \in 1..Len(heard)
  BY ReportsHeard, LastIn
<1>3. Statuses(k) # {} => LastOf(Statuses(k)) \in 1..Len(heard)
  BY ReportsHeard, LastIn
<1>4. /\ LastOf(ReportsOn(k))' = LastOf(ReportsOn(k)) /\ LastOf(Orders(k))' = LastOf(Orders(k))
      /\ LastOf(Statuses(k))' = LastOf(Statuses(k))
  BY DEF LastOf
<1> QED
  BY <1>1, <1>2, <1>3, <1>4 DEF RowOf

(* A report on k makes the row of k anew.                                  *)
LEMMA RowOfReport ==
    ASSUME CallInv, NEW m \in OrderReport \cup StatusReport, heard' = Append(heard, m),
           NEW row, row = (IF ReportsOn(m.id) # {} THEN RowOf(m.id) ELSE EmptyRow)
    PROVE  RowOf(m.id)' = IF m.kind = "order" THEN FromOrderData(row, m) ELSE ApplyStatus(row, m)
<1> DEFINE k == m.id
           n == Len(heard) + 1
<1>1. /\ heard'[n] = m
      /\ \A i \in 1..Len(heard) : heard'[i] = heard[i]
  BY ReportsAppend
<1>2. m.kind \in {"order", "status"}
  BY OrderReports
<1>3. ReportsOn(k)' = ReportsOn(k) \cup {n}
  BY <1>2, ReportsAppend
<1>4. LastOf(ReportsOn(k)') = n
  BY <1>3, ReportsHeard, LastNew
<1>5. /\ row.account = IF Orders(k) = {} THEN "" ELSE heard[LastOf(Orders(k))].account
      /\ row.symbol = IF Orders(k) = {} THEN "" ELSE heard[LastOf(Orders(k))].symbol
      /\ row.filled = IF Statuses(k) = {} THEN 0 ELSE heard[LastOf(Statuses(k))].filled
  <2>1. CASE ReportsOn(k) # {}
    <3>1. row = RowOf(k)
      BY <2>1
    <3> QED
      BY <3>1, RowFields
  <2>2. CASE ReportsOn(k) = {}
    <3>1. Orders(k) = {} /\ Statuses(k) = {}
      BY <2>2, ReportsHeard
    <3>2. row = EmptyRow
      BY <2>2
    <3>3. row.account = "" /\ row.symbol = "" /\ row.filled = 0
      <4> DEFINE e == ""
                 f == FALSE
                 z == 0
      <4>1. row = [account |-> e, symbol |-> e, working |-> f, filled |-> z]
        BY <3>2, Zenon DEF EmptyRow
      <4> HIDE DEF e, f, z
      <4>2. row.account = e /\ row.symbol = e /\ row.filled = z
        BY <4>1, Fields
      <4> QED
        BY <4>2 DEF e, z
    <3> QED
      BY <3>1, <3>3
  <2> QED
    BY <2>1, <2>2
<1>6. RowOf(k)' =
        [account |-> IF Orders(k)' = {} THEN "" ELSE heard'[LastOf(Orders(k)')].account,
         symbol |-> IF Orders(k)' = {} THEN "" ELSE heard'[LastOf(Orders(k)')].symbol,
         working |-> m.working,
         filled |-> IF Statuses(k)' = {} THEN 0 ELSE heard'[LastOf(Statuses(k)')].filled]
  <2>1. LastOf(ReportsOn(k))' = LastOf(ReportsOn(k)')
    BY DEF LastOf
  <2>2. /\ LastOf(Orders(k))' = LastOf(Orders(k)')
        /\ LastOf(Statuses(k))' = LastOf(Statuses(k)')
    BY DEF LastOf
  <2> QED
    BY <1>1, <1>4, <2>1, <2>2 DEF RowOf
<1>7. CASE m.kind = "order"
  <2>1. Orders(k)' = Orders(k) \cup {n} /\ Statuses(k)' = Statuses(k)
    BY <1>7, ReportsAppend
  <2>2. LastOf(Orders(k)') = n /\ Orders(k)' # {}
    BY <2>1, ReportsHeard, LastNew
  <2>3. Statuses(k) # {} => LastOf(Statuses(k)) \in 1..Len(heard)
    BY ReportsHeard, LastIn
  <2>5. row.filled = IF Statuses(k)' = {} THEN 0 ELSE heard'[LastOf(Statuses(k)')].filled
    BY <1>1, <1>5, <2>1, <2>3
  <2>6. RowOf(k)' = [account |-> m.account, symbol |-> m.symbol, working |-> m.working,
                     filled |-> row.filled]
    BY <1>1, <1>6, <2>2, <2>5
  <2> QED
    BY <1>7, <2>6 DEF FromOrderData
<1>8. CASE m.kind = "status"
  <2>1. Statuses(k)' = Statuses(k) \cup {n} /\ Orders(k)' = Orders(k)
    BY <1>8, ReportsAppend
  <2>2. LastOf(Statuses(k)') = n /\ Statuses(k)' # {}
    BY <2>1, ReportsHeard, LastNew
  <2>3. Orders(k) # {} => LastOf(Orders(k)) \in 1..Len(heard)
    BY ReportsHeard, LastIn
  <2>5. /\ row.account = IF Orders(k)' = {} THEN "" ELSE heard'[LastOf(Orders(k)')].account
        /\ row.symbol = IF Orders(k)' = {} THEN "" ELSE heard'[LastOf(Orders(k)')].symbol
    BY <1>1, <1>5, <2>1, <2>3
  <2>6. RowOf(k)' = [account |-> row.account, symbol |-> row.symbol, working |-> m.working,
                     filled |-> m.filled]
    BY <1>1, <1>6, <2>2, <2>5
  <2> QED
    BY <1>8, <2>6 DEF ApplyStatus
<1> QED
  BY <1>2, <1>7, <1>8

LEMMA OrdersStep ==
    ASSUME CallInv, OrdersInv, OrderSteps, tool' = "get_open_orders" PROVE OrdersInv'
<1> USE DEF frame
<1>0. /\ pc \in {"orders.open", "orders.stream"} => tool = "get_open_orders"
      /\ pc \in {"preview.open", "preview.stream"} => tool = "what_if"
  BY Homes DEF CallInv, Placed
<1>g. GivesUp => OrdersInv'
  BY DEF GivesUp, OrdersInv, WorkingOrderShown, OrdersAnswered
<1>1. CASE CallOpenOrders
  <2>1. \A a : Gated("get_open_orders", a, "orders.open", <<>>) =>
                 GivesUp \/ (pc' = "orders.open" /\ acc' = <<>> /\ heard' = <<>>)
    BY GivingUp DEF Gated, Arrives, Enters, CallInv
  <2>2. GivesUp \/ (pc' = "orders.open" /\ acc' = <<>> /\ heard' = <<>>)
    BY <1>1, <2>1 DEF CallOpenOrders
  <2> QED
    BY <1>g, <2>2 DEF OrdersInv, WorkingOrderShown, OrdersAnswered
<1>2. CASE OpenOrdersOpen
  <2>1. \/ GivesUp
        \/ pc = "orders.open" /\ pc' = "orders.stream" /\ UNCHANGED <<heard, acc>>
    BY <1>2, GivingUp DEF OpenOrdersOpen, Goes
  <2>2. CASE pc = "orders.open" /\ pc' = "orders.stream" /\ UNCHANGED <<heard, acc>>
    <3>1. acc' = <<>> /\ heard' = <<>>
      BY <1>0, <2>2 DEF OrdersInv
    <3>2. \A k : ReportsOn(k)' = {} /\ Orders(k)' = {}
      BY <3>1, EmptyIsSeq DEF ReportsOn, Orders, Heard
    <3>3. DOMAIN acc' = {}
      BY <3>1, EmptyIsSeq
    <3> QED
      BY <2>2, <3>2, <3>3 DEF OrdersInv, WorkingOrderShown, OrdersAnswered
  <2> QED
    BY <1>g, <2>1, <2>2
<1>3. CASE OrdersTimeout \/ OrdersFail
  BY <1>3, <1>g, GivingUp DEF OrdersTimeout, OrdersFail
<1>4. CASE OrdersMessage
  <2>1. PICK m \in OrderReport \cup StatusReport :
          /\ Hears("orders.stream", m) /\ Goes("orders.stream", "orders.stream")
          /\ acc' = ApplyMessage(acc, m)
    BY <1>4 DEF OrdersMessage
  <2>2. /\ pc = "orders.stream" /\ pc' = "orders.stream" /\ heard' = Append(heard, m)
    BY <2>1 DEF Hears, Goes
  <2>3. /\ \A k : k \in DOMAIN acc <=> ReportsOn(k) # {}
        /\ \A k \in DOMAIN acc : acc[k] = RowOf(k)
        /\ \A k : \A i \in Orders(k) : heard[i].symbol = SymbolOf[k]
    BY <1>0, <2>2 DEF OrdersInv
  <2> DEFINE row == IF m.id \in DOMAIN acc THEN acc[m.id] ELSE EmptyRow
             v == IF m.kind = "order" THEN FromOrderData(row, m) ELSE ApplyStatus(row, m)
  <2>4. acc' = Insert(acc, m.id, v)
    BY <2>1 DEF ApplyMessage, KeyOf
  <2>5. row = IF ReportsOn(m.id) # {} THEN RowOf(m.id) ELSE EmptyRow
    BY <2>3
  <2>6. RowOf(m.id)' = v
    <3> HIDE DEF row
    <3> QED
      BY <2>2, <2>5, RowOfReport
  <2> HIDE DEF v
  <2>7. /\ DOMAIN acc' = DOMAIN acc \cup {m.id} /\ acc'[m.id] = v
        /\ \A k \in DOMAIN acc : k # m.id => acc'[k] = acc[k]
    BY <2>4, Inserting
  <2>8. m.kind \in {"order", "status"}
    BY OrderReports
  <2>9. \A k : k # m.id => /\ ReportsOn(k)' = ReportsOn(k) /\ Orders(k)' = Orders(k)
                           /\ Statuses(k)' = Statuses(k)
    BY <2>2, ReportsAppend
  <2>10. \A i \in 1..Len(heard) : heard'[i] = heard[i]
    BY <2>2, Appending DEF CallInv
  <2>11. \A k \in DOMAIN acc : k # m.id => RowOf(k)' = RowOf(k)
    BY <2>3, <2>9, <2>10, RowStays
  <2>12. \A k : k \in DOMAIN acc' <=> ReportsOn(k)' # {}
    <3>1. ReportsOn(m.id)' # {}
      BY <2>2, <2>8, ReportsAppend
    <3> QED
      BY <2>3, <2>7, <2>9, <3>1
  <2>13. \A k \in DOMAIN acc' : acc'[k] = RowOf(k)'
    BY <2>3, <2>6, <2>7, <2>11
  <2>14. \A k : \A i \in Orders(k)' : heard'[i].symbol = SymbolOf[k]
    <3>1. m.kind = "order" => m.symbol = SymbolOf[m.id]
      BY OrderReports
    <3>2. \A k : Orders(k) \subseteq 1..Len(heard)
      BY ReportsHeard
    <3>3. \A k : \A i \in Orders(k)' :
            i \in Orders(k) \/ (i = Len(heard) + 1 /\ m.kind = "order" /\ m.id = k)
      BY <2>2, ReportsAppend
    <3>4. heard'[Len(heard) + 1] = m
      BY <2>2, Appending DEF CallInv
    <3> QED
      BY <2>3, <2>10, <3>1, <3>2, <3>3, <3>4
  <2> QED
    BY <2>2, <2>12, <2>13, <2>14 DEF OrdersInv, WorkingOrderShown, OrdersAnswered
<1>5. ASSUME NEW how \in {"end", "closed"},
             Settles("orders.stream", [kind |-> how], Success(FilterOrders(acc)))
      PROVE  OrdersInv'
  <2> DEFINE x == [kind |-> how]
             rows == FilterOrders(acc)
  <2>1. /\ pc = "orders.stream" /\ pc' = "done" /\ UNCHANGED <<acc, args, tool>>
        /\ heard' = Append(heard, x) /\ x.kind \notin {"order", "status"} /\ answer' = Success(rows)
    BY <1>5 DEF Settles, Concludes, HeardLast
  <2>2. answer'.body = rows
    BY <2>1, BodyOf
  <2> HIDE DEF x
  <2>3. /\ \A k : k \in DOMAIN acc <=> ReportsOn(k) # {}
        /\ \A k \in DOMAIN acc : acc[k] = RowOf(k)
        /\ \A k : \A i \in Orders(k) : heard[i].symbol = SymbolOf[k]
    BY <1>0, <2>1 DEF OrdersInv
  <2>4. \A k : /\ ReportsOn(k)' = ReportsOn(k) /\ Orders(k)' = Orders(k)
               /\ Statuses(k)' = Statuses(k)
    BY <2>1, ReportsAppend
  <2>5. \A i \in 1..Len(heard) : heard'[i] = heard[i]
    BY <2>1, Appending DEF CallInv
  <2>6. /\ DOMAIN rows = {k \in DOMAIN acc : KeepsRow(acc[k])}
        /\ \A k \in DOMAIN rows : rows[k] = acc[k]
    BY DEF FilterOrders
  <2> HIDE DEF rows
  <2>7. ASSUME NEW k \in Identity
        PROVE  /\ ShownWorking(k)' <=> ReportedWorking(k)' /\ AccountMayMatch(k)' /\ SymbolMatches(k)'
               /\ ShownWorking(k)' =>
                    rows[k].filled = IF Statuses(k)' = {} THEN 0 ELSE heard'[LastOf(Statuses(k)')].filled
    <3>1. ShownWorking(k)' <=> k \in DOMAIN acc /\ KeepsRow(acc[k]) /\ acc[k].working
      BY <2>2, <2>6 DEF ShownWorking
    <3>2. CASE ReportsOn(k) = {}
      BY <2>3, <2>4, <3>1, <3>2 DEF ReportedWorking
    <3>3. CASE ReportsOn(k) # {}
      <4> DEFINE row == RowOf(k)
      <4>1. k \in DOMAIN acc /\ acc[k] = row
        BY <2>3, <3>3
      <4>2. /\ row.account = IF Orders(k) = {} THEN "" ELSE heard[LastOf(Orders(k))].account
            /\ row.symbol = IF Orders(k) = {} THEN "" ELSE heard[LastOf(Orders(k))].symbol
            /\ row.working = heard[LastOf(ReportsOn(k))].working
            /\ row.filled = IF Statuses(k) = {} THEN 0 ELSE heard[LastOf(Statuses(k))].filled
        BY RowFields
      <4> HIDE DEF row
      <4>3. /\ Orders(k) \subseteq 1..Len(heard) /\ LastOf(ReportsOn(k)) \in 1..Len(heard)
            /\ Orders(k) # {} => LastOf(Orders(k)) \in Orders(k)
            /\ Statuses(k) # {} => LastOf(Statuses(k)) \in 1..Len(heard)
        BY <3>3, ReportsHeard, LastIn
      <4>4. ReportedWorking(k)' <=> row.working
        BY <2>4, <2>5, <3>3, <4>2, <4>3 DEF ReportedWorking, LastOf
      <4>5. AccountMayMatch(k)' <=>
                 (args.account \notin {None, ""} => row.account \in {"", args.account})
        <5>1. AccountMayMatch(k)' <=> \/ args'.account \in {None, ""} \/ Orders(k)' = {}
                                     \/ heard'[LastOf(Orders(k)')].account \in {"", args'.account}
          BY DEF AccountMayMatch, Orders, LastOf
        <5> QED
          BY <2>1, <2>4, <2>5, <4>2, <4>3, <5>1
      <4>6. SymbolMatches(k)' <=> (args.symbol # "" => row.symbol = args.symbol)
        <5>1. SymbolMatches(k)' <=> \/ args'.symbol = ""
                                   \/ \E i \in Orders(k)' : heard'[i].symbol = args'.symbol
          BY DEF SymbolMatches, Orders
        <5>2. \A i, j \in Orders(k) : heard[i].symbol = heard[j].symbol
          BY <2>3
        <5>3. args' = args /\ Orders(k)' = Orders(k)
          BY <2>1, <2>4
        <5>4. SymbolMatches(k)' <=> \/ args.symbol = ""
                                   \/ \E i \in Orders(k) : heard[i].symbol = args.symbol
          BY <2>5, <4>3, <5>1, <5>3
        <5> QED
          BY <4>2, <4>3, <5>2, <5>4
      <4>7. KeepsRow(row) <=> AccountMayMatch(k)' /\ SymbolMatches(k)'
        BY <4>5, <4>6 DEF KeepsRow
      <4>8. ShownWorking(k)' => rows[k] = row
        BY <2>6, <3>1, <4>1
      <4>9. ShownWorking(k)' <=> KeepsRow(row) /\ row.working
        BY <3>1, <4>1
      <4>10. row.filled = IF Statuses(k)' = {} THEN 0 ELSE heard'[LastOf(Statuses(k)')].filled
        BY <2>4, <2>5, <4>2, <4>3
      <4> QED
        BY <4>4, <4>7, <4>8, <4>9, <4>10
    <3> QED
      BY <3>2, <3>3
  <2>8. WorkingOrderShown'
    <3>1. \A k : LastOf(Statuses(k))' = LastOf(Statuses(k)')
      BY DEF LastOf
    <3> QED
      BY <2>2, <2>7, <3>1 DEF WorkingOrderShown, Statuses
  <2> QED
    BY <2>1, <2>8 DEF OrdersInv
<1>6. /\ ~CallWhatIf /\ ~WhatIfOpen /\ ~WhatIfTimeout /\ ~WhatIfItem /\ ~WhatIfReply
      /\ ~WhatIfCloses
  BY <1>0 DEF CallWhatIf, WhatIfOpen, WhatIfTimeout, WhatIfItem, WhatIfReply, WhatIfCloses,
     Gated, Arrives, Enters, Rejected, Opens, TimesOut, Goes, Settles, Answers, Concludes, Hears
<1>7. OrdersEnd \/ OrdersClose => OrdersInv'
  BY <1>5 DEF OrdersEnd, OrdersClose
<1> QED
  BY <1>1, <1>2, <1>3, <1>4, <1>6, <1>7 DEF OrderSteps, OpenOrdersCall, OpenOrdersOwn,
     OpenOrdersGateway

LEMMA OrdersNext == CallInv /\ OrdersInv /\ [Next]_vars => OrdersInv'
<1>1. UNCHANGED call /\ OrdersInv => OrdersInv'
  <2> SUFFICES ASSUME UNCHANGED call, OrdersInv PROVE OrdersInv'
    OBVIOUS
  <2>1. UNCHANGED <<tool, args, pc, heard, acc, answer>>
    BY DEF call, frame
  <2>2. \A k : /\ ReportsOn(k)' = ReportsOn(k) /\ Orders(k)' = Orders(k)
               /\ Statuses(k)' = Statuses(k) /\ Heard(k)' = Heard(k)
    BY <2>1 DEF ReportsOn, Orders, Statuses, Heard
  <2>3. \A k : /\ LastOf(ReportsOn(k))' = LastOf(ReportsOn(k))
               /\ LastOf(Orders(k))' = LastOf(Orders(k))
               /\ LastOf(Statuses(k))' = LastOf(Statuses(k))
    BY <2>2 DEF LastOf
  <2>4. \A k : RowOf(k)' = RowOf(k)
    BY <2>1, <2>2, <2>3 DEF RowOf
  <2>5. \A k : /\ ShownWorking(k)' <=> ShownWorking(k)
               /\ ReportedWorking(k)' <=> ReportedWorking(k)
    BY <2>1, <2>2, <2>3 DEF ShownWorking, ReportedWorking
  <2>6. \A k : AccountMayMatch(k)' <=> AccountMayMatch(k)
    BY <2>1, <2>2, <2>3 DEF AccountMayMatch, Orders
  <2>7. \A k : SymbolMatches(k)' <=> SymbolMatches(k)
    BY <2>1, <2>2 DEF SymbolMatches
  <2>8. WorkingOrderShown => WorkingOrderShown'
    BY <2>1, <2>2, <2>3, <2>5, <2>6, <2>7 DEF WorkingOrderShown, OrdersAnswered, Statuses
  <2> QED
    BY <2>1, <2>2, <2>4, <2>8 DEF OrdersInv
<1>2. tool' # "get_open_orders" => OrdersInv'
  BY DEF OrdersInv, WorkingOrderShown, OrdersAnswered
<1>3. "get_open_orders" \in OrderTools
  BY DEF OrderTools
<1> QED
  BY <1>1, <1>2, <1>3, OwnSteps, OrdersStep

-----------------------------------------------------------------------------
(* Positions.  The rows never hold a figure of another contract, nor of    *)
(* another account than the first row's, and the first row stays.          *)
PositionRow ==
    [account : Account, contract : Contract,
     pnl : {None} \cup [account : Account, contract : Contract]]

OwnRow(wanted, rows, i) ==
    /\ wanted \in {None, rows[i].account}
    /\ rows[i].pnl # None => /\ rows[i].pnl.contract = rows[i].contract
                             /\ rows[i].pnl.account = rows[1].account
OwnRows(wanted, rows) == \A i \in 1..Len(rows) : OwnRow(wanted, rows, i)

PositionsInv ==
    tool = "get_positions" =>
      /\ pc # "done" => /\ acc \in [rows : Seq(PositionRow), next : Nat]
                        /\ OwnRows(args.account, acc.rows)
      /\ pc \in {"positions.open", "positions.stream"} => acc.next = 1
      /\ pc = "positions.pnl" => acc.next \in 1..Len(acc.rows)
      /\ OwnPnl

(* Rows of one's own make an answer that keeps the promise.                *)
LEMMA OwnAnswer ==
    ASSUME NEW rows \in Seq(PositionRow), OwnRows(args.account, rows), UNCHANGED args,
           answer' = Success(rows)
    PROVE  OwnPnl'
<1>1. answer'.body = rows /\ DOMAIN rows = 1..Len(rows)
  BY BodyOf, LenProperties
<1>2. args' = args
  OBVIOUS
<1> QED
  BY <1>1, <1>2 DEF OwnPnl, OwnRows, OwnRow

(* One row gets its figure.                                                *)
LEMMA PnlOwn ==
    ASSUME NEW wanted, NEW rows \in Seq(PositionRow), OwnRows(wanted, rows), NEW n \in 1..Len(rows),
           NEW pnl \in {None, [account |-> rows[1].account, contract |-> rows[n].contract]},
           NEW new, new = [rows EXCEPT ![n].pnl = pnl]
    PROVE  new \in Seq(PositionRow) /\ Len(new) = Len(rows) /\ OwnRows(wanted, new)
<1> DEFINE row == [rows[n] EXCEPT !.pnl = pnl]
<1>1. /\ Len(rows) \in Nat /\ rows \in [1..Len(rows) -> PositionRow]
      /\ 1 \in 1..Len(rows) /\ rows[1] \in PositionRow /\ rows[n] \in PositionRow
  BY LenProperties, ElementOfSeq
<1>2. pnl \in {None} \cup [account : Account, contract : Contract]
  BY <1>1 DEF PositionRow
<1>3. /\ row \in PositionRow /\ row.account = rows[n].account
      /\ row.contract = rows[n].contract /\ row.pnl = pnl
  BY <1>1, <1>2 DEF PositionRow
<1>4. new = [rows EXCEPT ![n] = row]
  OBVIOUS
<1> HIDE DEF row
<1>5. /\ new \in Seq(PositionRow) /\ Len(new) = Len(rows)
      /\ \A j \in 1..Len(rows) : new[j] = IF j = n THEN row ELSE rows[j]
  BY <1>3, <1>4, ExceptSeq
<1>6. new[1].account = rows[1].account
  BY <1>1, <1>3, <1>5
<1>7. ASSUME NEW i \in 1..Len(new) PROVE OwnRow(wanted, new, i)
  <2>1. i \in 1..Len(rows) /\ OwnRow(wanted, rows, i)
    BY <1>5 DEF OwnRows
  <2>2. CASE i # n
    BY <1>5, <1>6, <2>1, <2>2 DEF OwnRow
  <2>3. CASE i = n
    <3>1. new[i] = row
      BY <1>5, <2>1, <2>3
    <3>2. pnl # None => pnl.contract = rows[n].contract /\ pnl.account = rows[1].account
      OBVIOUS
    <3> QED
      BY <1>3, <1>6, <2>1, <2>3, <3>1, <3>2 DEF OwnRow
  <2> QED
    BY <2>2, <2>3
<1> QED
  BY <1>5, <1>7 DEF OwnRows

LEMMA PositionsStep ==
    ASSUME CallInv, PositionsInv, FillSteps, tool' = "get_positions" PROVE PositionsInv'
<1> USE DEF frame
<1>0. /\ pc \in {"positions.open", "positions.stream", "positions.pnl"} =>
            pc # "done" /\ tool = "get_positions"
      /\ pc \in {"fills.open", "fills.stream"} => tool = "get_executions"
  BY Homes DEF CallInv, Placed
<1>g. GivesUp => PositionsInv'
  BY DEF GivesUp, PositionsInv, OwnPnl
<1>1. CASE CallPositions
  <2> DEFINE start == [rows |-> <<>>, next |-> 1]
  <2>1. \A a : Gated("get_positions", a, "positions.open", start) =>
                 GivesUp \/ (pc' = "positions.open" /\ acc' = start)
    BY GivingUp DEF Gated, Arrives, Enters
  <2>2. GivesUp \/ (pc' = "positions.open" /\ acc' = start)
    BY <1>1, <2>1 DEF CallPositions
  <2>3. /\ start \in [rows : Seq(PositionRow), next : Nat] /\ start.next = 1
        /\ start.rows = <<>>
    OBVIOUS
  <2>4. \A i \in 1..Len(start.rows) : FALSE
    BY <2>3, EmptyIsSeq
  <2> HIDE DEF start
  <2> QED
    BY <1>g, <2>2, <2>3, <2>4 DEF PositionsInv, OwnRows, OwnPnl
<1>2. CASE PositionsOpen
  <2>1. \/ GivesUp
        \/ pc = "positions.open" /\ pc' = "positions.stream" /\ UNCHANGED <<args, acc>>
    BY <1>2, GivingUp DEF PositionsOpen, Goes
  <2> QED
    BY <1>0, <1>g, <2>1 DEF PositionsInv, OwnRows, OwnRow, OwnPnl
<1>3. CASE PositionItem
  <2>1. PICK a \in Account, c \in Contract :
          /\ Goes("positions.stream", "positions.stream")
          /\ acc' = IF Wanted(a)
                    THEN [acc EXCEPT !.rows =
                            Append(@, [account |-> a, contract |-> c, pnl |-> None])]
                    ELSE acc
    BY <1>3 DEF PositionItem
  <2> DEFINE row == [account |-> a, contract |-> c, pnl |-> None]
  <2>2. pc = "positions.stream" /\ pc' = pc /\ UNCHANGED args
    BY <2>1 DEF Goes
  <2>3. /\ acc \in [rows : Seq(PositionRow), next : Nat] /\ OwnRows(args.account, acc.rows) /\ acc.next = 1
    BY <1>0, <2>2 DEF PositionsInv
  <2>4. CASE ~Wanted(a)
    BY <2>1, <2>2, <2>3, <2>4 DEF PositionsInv, OwnRows, OwnRow, OwnPnl
  <2>5. CASE Wanted(a)
    <3>1. row \in PositionRow /\ row.account = a /\ row.pnl = None
      BY DEF PositionRow
    <3> DEFINE new == Append(acc.rows, row)
    <3>2. acc' = [acc EXCEPT !.rows = new]
      BY <2>1, <2>5
    <3> HIDE DEF row
    <3>3. /\ new \in Seq(PositionRow) /\ Len(new) = Len(acc.rows) + 1 /\ Len(acc.rows) \in Nat
          /\ \A i \in 1..Len(acc.rows) : new[i] = acc.rows[i]
          /\ new[Len(acc.rows) + 1] = row
      BY <2>3, <3>1, AppendProperties, LenProperties
    <3> HIDE DEF new
    <3>4. /\ acc' \in [rows : Seq(PositionRow), next : Nat] /\ acc'.rows = new
          /\ acc'.next = 1
      BY <2>3, <3>2, <3>3
    <3>5. ASSUME NEW i \in 1..Len(new) PROVE OwnRow(args.account, new, i)
      <4>1. CASE i \in 1..Len(acc.rows)
        <5>1. new[1] = acc.rows[1] /\ new[i] = acc.rows[i] /\ OwnRow(args.account, acc.rows, i)
          BY <2>3, <3>3, <4>1 DEF OwnRows
        <5> QED
          BY <2>2, <5>1 DEF OwnRow
      <4>2. CASE i = Len(acc.rows) + 1
        BY <2>2, <2>5, <3>1, <3>3, <4>2 DEF OwnRow, Wanted
      <4> QED
        BY <3>3, <4>1, <4>2
    <3> QED
      BY <2>2, <3>4, <3>5 DEF PositionsInv, OwnRows, OwnPnl
  <2> QED
    BY <2>4, <2>5
<1>4. CASE PositionEnd \/ PositionsSilent
  <2>1. PositionsCollected
    BY <1>4 DEF PositionEnd, PositionsSilent
  <2>2. /\ pc = "positions.stream" /\ UNCHANGED <<args, acc>>
        /\ \/ acc.rows = <<>> /\ pc' = "done" /\ answer' = Success(acc.rows)
           \/ acc.rows # <<>> /\ pc' = "positions.pnl"
    BY <2>1 DEF PositionsCollected
  <2>3. /\ acc \in [rows : Seq(PositionRow), next : Nat] /\ OwnRows(args.account, acc.rows) /\ acc.next = 1
    BY <1>0, <2>2 DEF PositionsInv
  <2>4. OwnRows(args.account, acc.rows)' /\ (acc.rows # <<>> => 1 \in 1..Len(acc.rows))
    BY <2>2, <2>3, EmptySeq DEF OwnRows, OwnRow
  <2>5. pc' = "done" => OwnPnl'
    BY <2>2, <2>3, OwnAnswer
  <2> QED
    BY <2>2, <2>3, <2>4, <2>5 DEF PositionsInv, OwnPnl
<1>5. CASE PositionsFail
  BY <1>5, <1>g, GivingUp DEF PositionsFail
<1>6. CASE PnlReply \/ PnlMissing
  <2>1. PICK pnl \in {None, [account |-> acc.rows[1].account, contract |-> acc.rows[acc.next].contract]} :
          PnlRow(pnl)
    BY <1>6 DEF PnlReply, PnlMissing
  <2> DEFINE new == [acc.rows EXCEPT ![acc.next].pnl = pnl]
  <2>2. /\ pc = "positions.pnl" /\ UNCHANGED args
        /\ \/ pc' = "done" /\ answer' = Success(new)
           \/ acc.next # Len(new) /\ pc' = pc /\ acc' = [rows |-> new, next |-> acc.next + 1]
    BY <2>1 DEF PnlRow
  <2>3. /\ acc \in [rows : Seq(PositionRow), next : Nat] /\ OwnRows(args.account, acc.rows)
        /\ acc.next \in 1..Len(acc.rows)
    BY <1>0, <2>2 DEF PositionsInv
  <2>4. new \in Seq(PositionRow) /\ Len(new) = Len(acc.rows) /\ OwnRows(args.account, new)
    BY <2>3, PnlOwn
  <2> HIDE DEF new
  <2>5. CASE pc' = "done" /\ answer' = Success(new)
    BY <2>2, <2>4, <2>5, OwnAnswer DEF PositionsInv
  <2>6. CASE acc.next # Len(new) /\ pc' = pc /\ acc' = [rows |-> new, next |-> acc.next + 1]
    <3>1. acc'.rows = new /\ acc'.next = acc.next + 1
          /\ acc' \in [rows : Seq(PositionRow), next : Nat]
      BY <2>3, <2>4, <2>6
    <3>3. acc'.next \in 1..Len(new)
      BY <2>3, <2>4, <2>6, <3>1, LenProperties
    <3> QED
      BY <2>2, <2>4, <2>6, <3>1, <3>3 DEF PositionsInv, OwnPnl
  <2> QED
    BY <2>2, <2>5, <2>6
<1>7. /\ ~CallExecutions /\ ~ExecutionsOpen /\ ~ExecutionsSilent /\ ~FillItem /\ ~CommissionItem
      /\ ~ExecutionsEnd /\ ~ExecutionsFail
  BY <1>0 DEF CallExecutions, ExecutionsOpen, ExecutionsSilent, FillItem, CommissionItem,
     ExecutionsEnd, ExecutionsFail, ExecutionsCollected, Gated, Arrives, Enters, Rejected, Opens,
     Fails, Goes, Answers, Concludes, Hears
<1> QED
  BY <1>1, <1>2, <1>3, <1>4, <1>5, <1>6, <1>7 DEF FillSteps, FillsCall, FillsOwn, FillsGateway

LEMMA PositionsNext == CallInv /\ PositionsInv /\ [Next]_vars => PositionsInv'
<1>1. UNCHANGED call /\ PositionsInv => PositionsInv'
  BY DEF call, frame, PositionsInv, OwnPnl, OwnRows, OwnRow
<1>2. tool' # "get_positions" => PositionsInv'
  BY DEF PositionsInv, OwnPnl
<1>3. "get_positions" \in FillTools
  BY DEF FillTools
<1> QED
  BY <1>1, <1>2, <1>3, OwnSteps, PositionsStep

-----------------------------------------------------------------------------
(* Executions.  The entries so far are the fills told so far, each with    *)
(* the charge that a look back over all that was heard gives it.           *)
Told == {heard[i].fill : i \in Heard("fill")}
Entry(f) == [fill |-> f, charged |-> Charged(f)]

FillsInv ==
    tool = "get_executions" =>
      /\ pc \in {"fills.open", "fills.stream"} =>
           /\ DOMAIN acc = Told /\ IsFiniteSet(Told)
           /\ \A f \in Told : acc[f] = Entry(f)
      /\ pc = "fills.open" => heard = <<>>
      /\ EveryFillOnce

LEMMA Recharged ==
    ASSUME NEW f, NEW c, NEW t, NEW e, e = [fill |-> f, charged |-> c]
    PROVE  [e EXCEPT !.charged = t] = [fill |-> f, charged |-> t]
  OBVIOUS

(* Charges are told by fills and commissions alone.                        *)
LEMMA ChargedStays ==
    ASSUME CallInv, NEW f,
           \A k \in {"fill", "commission"} :
             {i \in Heard(k)' : heard'[i].fill = f} = {i \in Heard(k) : heard[i].fill = f}
    PROVE  Charged(f)' <=> Charged(f)
<1> DEFINE Fills == {i \in Heard("fill") : heard[i].fill = f}
           Reports == {i \in Heard("commission") : heard[i].fill = f}
<1>1. Charged(f) <=> \E i \in Reports : \A j \in Fills : j < i
  BY DEF Charged
<1>2. Charged(f)' <=> \E i \in Reports' : \A j \in Fills' : j < i
  BY DEF Charged
<1>3. Fills' = Fills /\ Reports' = Reports
  OBVIOUS
<1> QED
  BY <1>1, <1>2, <1>3

(* Another item is heard.                                                  *)
LEMMA FillsAppend ==
    ASSUME CallInv, NEW x, heard' = Append(heard, x)
    PROVE  /\ Told' = IF x.kind = "fill" THEN Told \cup {x.fill} ELSE Told
           /\ \A f : x.kind \notin {"fill", "commission"} \/ x.fill # f => (Charged(f)' <=> Charged(f))
           /\ x.kind = "fill" => ~Charged(x.fill)'
           /\ x.kind = "commission" /\ x.fill \in Told => Charged(x.fill)'
<1> DEFINE n == Len(heard) + 1
<1>1. /\ \A k : Heard(k)' = IF x.kind = k THEN Heard(k) \cup {n} ELSE Heard(k)
      /\ \A k : \A i \in Heard(k) : i \in 1..Len(heard) /\ heard'[i] = heard[i] /\ i < n /\ ~(n < i)
      /\ heard'[n] = x
      /\ \A k : n \notin Heard(k)
      /\ ~(n < n)
  BY HeardAppend, Appending DEF CallInv
<1> HIDE DEF n
<1>2. Told' = IF x.kind = "fill" THEN Told \cup {x.fill} ELSE Told
  <2>1. Told' = {heard'[i].fill : i \in Heard("fill")'}
    BY DEF Told
  <2>2. \A i \in Heard("fill") : heard'[i].fill = heard[i].fill
    BY <1>1
  <2>3. CASE x.kind = "fill"
    <3>1. Heard("fill")' = Heard("fill") \cup {n} /\ heard'[n].fill = x.fill
      BY <1>1, <2>3
    <3>2. Told' = {heard'[i].fill : i \in Heard("fill")} \cup {x.fill}
      BY <2>1, <3>1
    <3>3. {heard'[i].fill : i \in Heard("fill")} = Told
      BY <2>2 DEF Told
    <3> QED
      BY <2>3, <3>2, <3>3
  <2>4. CASE x.kind # "fill"
    <3>1. Heard("fill")' = Heard("fill")
      BY <1>1, <2>4
    <3> QED
      BY <2>1, <2>2, <2>4, <3>1 DEF Told
  <2> QED
    BY <2>3, <2>4
<1>3. ASSUME NEW f, x.kind \notin {"fill", "commission"} \/ x.fill # f
      PROVE  Charged(f)' <=> Charged(f)
  <2>1. ASSUME NEW k \in {"fill", "commission"}
        PROVE  {i \in Heard(k)' : heard'[i].fill = f} = {i \in Heard(k) : heard[i].fill = f}
    BY <1>1, <1>3
  <2> QED
    BY <2>1, ChargedStays
<1>4. ASSUME x.kind = "fill" PROVE ~Charged(x.fill)'
  <2>1. n \in Heard("fill")' /\ Heard("commission")' = Heard("commission")
    BY <1>1, <1>4
  <2>2. \A i \in Heard("commission")' : ~(n < i)
    BY <1>1, <2>1
  <2> QED
    BY <1>1, <2>1, <2>2 DEF Charged
<1>5. ASSUME x.kind = "commission", x.fill \in Told PROVE Charged(x.fill)'
  <2>1. n \in Heard("commission")' /\ Heard("fill")' = Heard("fill")
    BY <1>1, <1>5
  <2>2. \E j \in Heard("fill") : heard[j].fill = x.fill
    BY <1>5 DEF Told
  <2> QED
    BY <1>1, <2>1, <2>2 DEF Charged
<1> QED
  BY <1>2, <1>3, <1>4, <1>5

(* Whatever permutation of the kept entries the sort comes to, it answers  *)
(* for each of them once.                                                  *)
LEMMA CollectedOnce ==
    ASSUME DOMAIN acc = Told, IsFiniteSet(Told), \A f \in Told : acc[f] = Entry(f),
           NEW s \in Executions(acc),
           NEW kept, kept = {f \in Told : args.since = None \/ DayOf[f] >= args.since}
    PROVE  /\ Len(s) = Cardinality(kept)
           /\ {s[i] : i \in DOMAIN s} = {Entry(f) : f \in kept}
           /\ \A i, j \in DOMAIN s : i < j => DayOf[s[i].fill] >= DayOf[s[j].fill]
<1>1. \A f : Entry(f).fill = f
  BY DEF Entry
<1>2. \A f \in Told : SinceFilter(acc[f]) <=> f \in kept
  BY <1>1 DEF SinceFilter
<1>3. {k \in DOMAIN acc : SinceFilter(acc[k])} = kept
  BY <1>2
<1>4. Cardinality(kept) \in Nat
  BY FS_Subset, FS_CardinalityType
<1>5. /\ s \in [1..Cardinality(kept) -> {acc[k] : k \in DOMAIN acc}]
      /\ \A k \in DOMAIN acc : SinceFilter(acc[k]) => \E i \in DOMAIN s : s[i] = acc[k]
      /\ \A i \in DOMAIN s : SinceFilter(s[i])
      /\ \A i, j \in DOMAIN s : i < j => DayOf[s[i].fill] >= DayOf[s[j].fill]
  BY <1>3 DEF Executions
<1>6. Len(s) = Cardinality(kept)
  <2> DEFINE S == {acc[k] : k \in DOMAIN acc}
             n == Cardinality(kept)
  <2>1. s \in Seq(S)
    <3>1. s \in [1..n -> S] /\ n \in Nat
      BY <1>4, <1>5
    <3> HIDE DEF S, n
    <3> QED
      BY <3>1, SeqDef
  <2>2. Len(s) \in Nat /\ 1..Len(s) = 1..Cardinality(kept)
    BY <1>5, <2>1, LenProperties
  <2> QED
    BY <1>4, <2>2
<1>7. \A i \in DOMAIN s : \E f \in kept : s[i] = Entry(f)
  BY <1>2, <1>5
<1>8. \A f \in kept : \E i \in DOMAIN s : s[i] = Entry(f)
  BY <1>2, <1>5
<1>9. {s[i] : i \in DOMAIN s} = {Entry(f) : f \in kept}
  BY <1>7, <1>8
<1> QED
  BY <1>5, <1>6, <1>9

LEMMA FillsStep ==
    ASSUME CallInv, FillsInv, FillSteps, tool' = "get_executions" PROVE FillsInv'
<1> USE DEF frame
<1>0. /\ pc \in {"fills.open", "fills.stream"} => tool = "get_executions"
      /\ pc \in {"positions.open", "positions.stream", "positions.pnl"} => tool = "get_positions"
  BY Homes DEF CallInv, Placed
<1>g. GivesUp => FillsInv'
  BY DEF GivesUp, FillsInv, EveryFillOnce
<1>s. pc = "fills.stream" => /\ DOMAIN acc = Told /\ IsFiniteSet(Told)
                             /\ \A f \in Told : acc[f] = Entry(f)
  BY <1>0 DEF FillsInv
<1>1. CASE CallExecutions
  <2>1. \A a : Gated("get_executions", a, "fills.open", <<>>) =>
                 GivesUp \/ (pc' = "fills.open" /\ acc' = <<>> /\ heard' = <<>>)
    BY GivingUp DEF Gated, Arrives, Enters, CallInv
  <2>2. GivesUp \/ (pc' = "fills.open" /\ acc' = <<>> /\ heard' = <<>>)
    BY <1>1, <2>1 DEF CallExecutions
  <2>3. heard' = <<>> => Told' = {}
    BY EmptyIsSeq DEF Told, Heard
  <2>4. IsFiniteSet({})
    BY FS_EmptySet
  <2> QED
    BY <1>g, <2>2, <2>3, <2>4, EmptyIsSeq DEF FillsInv, EveryFillOnce
<1>2. CASE ExecutionsOpen
  <2>1. \/ GivesUp
        \/ pc = "fills.open" /\ pc' = "fills.stream" /\ UNCHANGED <<acc, heard>>
    BY <1>2, GivingUp DEF ExecutionsOpen, Goes
  <2>2. CASE pc = "fills.open" /\ pc' = "fills.stream" /\ UNCHANGED <<acc, heard>>
    <3>1. DOMAIN acc = Told /\ IsFiniteSet(Told) /\ heard = <<>>
      BY <1>0, <2>2 DEF FillsInv
    <3>2. Told = {} /\ Told' = {}
      BY <2>2, <3>1, EmptyIsSeq DEF Told, Heard
    <3> QED
      BY <2>2, <3>1, <3>2 DEF FillsInv, EveryFillOnce
  <2> QED
    BY <1>g, <2>1, <2>2
<1>3. CASE FillItem
  <2>1. PICK f \in Fill :
          /\ pc = "fills.stream" /\ pc' = "fills.stream"
          /\ heard' = Append(heard, [kind |-> "fill", fill |-> f])
          /\ acc' = Insert(acc, f, [fill |-> f, charged |-> FALSE])
    BY <1>3 DEF FillItem, Hears, Goes, FillKey
  <2> DEFINE x == [kind |-> "fill", fill |-> f]
             e == [fill |-> f, charged |-> FALSE]
  <2>2. x.kind = "fill" /\ x.fill = f
    OBVIOUS
  <2>3. heard' = Append(heard, x)
    BY <2>1
  <2> HIDE DEF x
  <2>4. /\ Told' = Told \cup {f} /\ ~Charged(f)'
        /\ \A g : g # f => (Charged(g)' <=> Charged(g))
    BY <2>2, <2>3, FillsAppend
  <2>5. Entry(f)' = e
    <3>1. Charged(f)' = FALSE
      BY <2>4 DEF Charged
    <3> QED
      BY <3>1, Zenon DEF Entry
  <2>6. \A g : g # f => Entry(g)' = Entry(g)
    <3>1. \A g : g # f => Charged(g)' = Charged(g)
      BY <2>4 DEF Charged
    <3> QED
      BY <3>1, Zenon DEF Entry
  <2>7. /\ DOMAIN acc' = DOMAIN acc \cup {f} /\ acc'[f] = e
        /\ \A g \in DOMAIN acc : g # f => acc'[g] = acc[g]
    <3> HIDE DEF e
    <3>1. acc' = Insert(acc, f, e)
      BY <2>1 DEF e
    <3> QED
      BY <3>1, Inserting
  <2> HIDE DEF e
  <2>8. IsFiniteSet(Told')
    BY <1>s, <2>1, <2>4, FS_AddElement
  <2>9. /\ DOMAIN acc' = Told'
        /\ \A g \in Told' : acc'[g] = Entry(g)'
    BY <1>s, <2>1, <2>4, <2>5, <2>6, <2>7
  <2> QED
    BY <2>1, <2>8, <2>9 DEF FillsInv, EveryFillOnce
<1>4. CASE CommissionItem
  <2>1. PICK f \in Fill :
          /\ pc = "fills.stream" /\ pc' = "fills.stream"
          /\ heard' = Append(heard, [kind |-> "commission", fill |-> f])
          /\ acc' = IF f \in DOMAIN acc THEN [acc EXCEPT ![f].charged = TRUE] ELSE acc
    BY <1>4 DEF CommissionItem, Hears, Goes, FillKey
  <2> DEFINE x == [kind |-> "commission", fill |-> f]
  <2>2. x.kind = "commission" /\ x.fill = f
    OBVIOUS
  <2>3. heard' = Append(heard, x)
    BY <2>1
  <2> HIDE DEF x
  <2>4. /\ Told' = Told /\ (f \in Told => Charged(f)')
        /\ \A g : g # f => (Charged(g)' <=> Charged(g))
    BY <2>2, <2>3, FillsAppend
  <2>5. \A g : g # f => Entry(g)' = Entry(g)
    <3>1. \A g : g # f => Charged(g)' = Charged(g)
      BY <2>4 DEF Charged
    <3> QED
      BY <3>1, Zenon DEF Entry
  <2>6. DOMAIN acc' = DOMAIN acc /\ \A g \in DOMAIN acc : g # f => acc'[g] = acc[g]
    BY <2>1
  <2>7. f \in Told => acc'[f] = Entry(f)'
    <3> SUFFICES ASSUME f \in Told PROVE acc'[f] = Entry(f)'
      OBVIOUS
    <3>1. acc'[f] = [acc[f] EXCEPT !.charged = TRUE] /\ acc[f] = Entry(f)
      BY <1>s, <2>1
    <3>2. Charged(f)' = TRUE
      BY <2>4 DEF Charged
    <3>3. Entry(f)' = [fill |-> f, charged |-> TRUE]
      BY <3>2, Zenon DEF Entry
    <3>4. Entry(f) = [fill |-> f, charged |-> Charged(f)]
      BY Zenon DEF Entry
    <3>5. [Entry(f) EXCEPT !.charged = TRUE] = [fill |-> f, charged |-> TRUE]
      <4> DEFINE c == Charged(f)
                 e == Entry(f)
                 t == TRUE
      <4>1. e = [fill |-> f, charged |-> c]
        BY <3>4
      <4> HIDE DEF c, e
      <4>2. [e EXCEPT !.charged = t] = [fill |-> f, charged |-> t]
        <5> HIDE DEF t
        <5> QED
          BY <4>1, Recharged
      <4> QED
        BY <4>2 DEF e, t
    <3> QED
      BY <3>1, <3>3, <3>5
  <2>8. /\ DOMAIN acc' = Told' /\ IsFiniteSet(Told')
        /\ \A g \in Told' : acc'[g] = Entry(g)'
    BY <1>s, <2>1, <2>4, <2>5, <2>6, <2>7
  <2> QED
    BY <2>1, <2>8 DEF FillsInv, EveryFillOnce
<1>5. CASE ExecutionsEnd \/ ExecutionsSilent
  <2>1. PICK s \in Executions(acc) :
          /\ pc = "fills.stream" /\ pc' = "done" /\ UNCHANGED <<args, acc>>
          /\ answer' = Success(s)
          /\ heard' = heard \/ heard' = Append(heard, [kind |-> "end"])
    BY <1>5 DEF ExecutionsEnd, ExecutionsSilent, ExecutionsCollected, HeardLast
  <2>2. answer'.body = s
    BY <2>1, BodyOf
  <2>3. Told' = Told /\ \A f : Charged(f)' <=> Charged(f)
    <3>1. CASE heard' = heard
      <4>1. \A k : Heard(k)' = Heard(k)
        BY <3>1 DEF Heard
      <4> QED
        BY <3>1, <4>1 DEF Told, Charged
    <3>2. CASE heard' = Append(heard, [kind |-> "end"])
      <4> DEFINE x == [kind |-> "end"]
      <4>1. x.kind = "end" /\ heard' = Append(heard, x)
        BY <3>2
      <4> HIDE DEF x
      <4> QED
        BY <4>1, FillsAppend
    <3> QED
      BY <2>1, <3>1, <3>2
  <2>4. \A f : Entry(f) = [fill |-> f, charged |-> Charged(f)']
    <3>1. \A f : Charged(f)' = Charged(f)
      BY <2>3 DEF Charged
    <3> QED
      BY <3>1, Zenon DEF Entry
  <2>5. EveryFillOnce'
    <3> DEFINE kept == {f \in Told : args.since = None \/ DayOf[f] >= args.since}
    <3>1. /\ Len(s) = Cardinality(kept)
          /\ {s[i] : i \in DOMAIN s} = {Entry(f) : f \in kept}
          /\ \A i, j \in DOMAIN s : i < j => DayOf[s[i].fill] >= DayOf[s[j].fill]
      BY <1>s, <2>1, CollectedOnce
    <3>2. kept' = kept
      BY <2>1, <2>3
    <3>3. {Entry(f) : f \in kept} = {[fill |-> f, charged |-> Charged(f)'] : f \in kept'}
      BY <2>4, <3>2
    <3>4. EveryFillOnce' <=>
            (pc' = "done" /\ tool' = "get_executions" /\ answer'.ok =>
               /\ Len(answer'.body) = Cardinality(kept')
               /\ {answer'.body[i] : i \in DOMAIN answer'.body}
                    = {[fill |-> f, charged |-> Charged(f)'] : f \in kept'}
               /\ \A i, j \in DOMAIN answer'.body :
                    i < j => DayOf[answer'.body[i].fill] >= DayOf[answer'.body[j].fill])
      BY DEF EveryFillOnce, Told
    <3> QED
      BY <2>2, <3>1, <3>2, <3>3, <3>4
  <2> QED
    BY <2>1, <2>5 DEF FillsInv
<1>6. CASE ExecutionsFail
  BY <1>6, <1>g, GivingUp DEF ExecutionsFail
<1>7. /\ ~CallPositions /\ ~PositionsOpen /\ ~PositionsSilent /\ ~PnlMissing /\ ~PositionItem
      /\ ~PositionEnd /\ ~PositionsFail /\ ~PnlReply
  BY <1>0 DEF CallPositions, PositionsOpen, PositionsSilent, PnlMissing, PositionItem,
     PositionEnd, PositionsFail, PnlReply, PositionsCollected, PnlRow, Gated, Arrives, Enters,
     Rejected, Opens, Fails, Goes, Answers, Concludes, Hears
<1> QED
  BY <1>1, <1>2, <1>3, <1>4, <1>5, <1>6, <1>7 DEF FillSteps, FillsCall, FillsOwn, FillsGateway

LEMMA FillsNext == CallInv /\ FillsInv /\ [Next]_vars => FillsInv'
<1>1. UNCHANGED call /\ FillsInv => FillsInv'
  <2> SUFFICES ASSUME UNCHANGED call, FillsInv PROVE FillsInv'
    OBVIOUS
  <2>1. UNCHANGED <<tool, args, pc, heard, acc, answer>>
    BY DEF call, frame
  <2>2. \A k : Heard(k)' = Heard(k)
    BY <2>1 DEF Heard
  <2>3. Told' = Told /\ \A f : Entry(f)' = Entry(f)
    BY <2>1, <2>2 DEF Told, Entry, Charged
  <2>4. EveryFillOnce' <=> EveryFillOnce
    <3>1. \A f : Charged(f)' = Charged(f)
      BY <2>1, <2>2 DEF Charged
    <3> DEFINE kept == {f \in Told : args.since = None \/ DayOf[f] >= args.since}
               owed == {[fill |-> f, charged |-> Charged(f)] : f \in kept}
    <3>2. kept' = kept
      BY <2>1, <2>3
    <3>3. owed' = owed
      BY <3>1, <3>2
    <3>4. EveryFillOnce <=>
            (pc = "done" /\ tool = "get_executions" /\ answer.ok =>
               /\ Len(answer.body) = Cardinality(kept)
               /\ {answer.body[i] : i \in DOMAIN answer.body} = owed
               /\ \A i, j \in DOMAIN answer.body :
                    i < j => DayOf[answer.body[i].fill] >= DayOf[answer.body[j].fill])
      BY DEF EveryFillOnce, Told
    <3>5. EveryFillOnce' <=>
            (pc' = "done" /\ tool' = "get_executions" /\ answer'.ok =>
               /\ Len(answer'.body) = Cardinality(kept')
               /\ {answer'.body[i] : i \in DOMAIN answer'.body} = owed'
               /\ \A i, j \in DOMAIN answer'.body :
                    i < j => DayOf[answer'.body[i].fill] >= DayOf[answer'.body[j].fill])
      BY DEF EveryFillOnce, Told
    <3> HIDE DEF kept, owed
    <3> QED
      BY <2>1, <3>2, <3>3, <3>4, <3>5
  <2> QED
    BY <2>1, <2>3, <2>4 DEF FillsInv
<1>2. tool' # "get_executions" => FillsInv'
  BY DEF FillsInv, EveryFillOnce
<1>3. "get_executions" \in FillTools
  BY DEF FillTools
<1> QED
  BY <1>1, <1>2, <1>3, OwnSteps, FillsStep

-----------------------------------------------------------------------------
(* Scans.  The rows taken so far are those of all batches heard, in order. *)
(* FlattenSeq is a recursive function: that its values exist, and that one *)
(* batch more comes at the end, is proved by the least number of batches   *)
(* for which it would not be so.                                           *)

(* f joins the first n of some sequences.                                  *)
Joins(f, seqs, n) ==
    f = [i \in 1..n |-> IF i = 1 THEN seqs[i] ELSE f[i - 1] \o seqs[i]]

LEMMA JoinsValue ==
    ASSUME NEW seqs, NEW n \in Nat, NEW f, Joins(f, seqs, n)
    PROVE  /\ \A i \in 1..n : f[i] = IF i = 1 THEN seqs[i] ELSE f[i - 1] \o seqs[i]
           /\ DOMAIN f = 1..n
  BY DEF Joins

LEMMA JoinExtends ==
    ASSUME NEW n \in Nat, NEW seqs, NEW f, Joins(f, seqs, n)
    PROVE  \E g : Joins(g, seqs, n + 1)
<1> DEFINE x == IF n = 0 THEN seqs[n + 1] ELSE f[n] \o seqs[n + 1]
           g == [i \in 1..(n + 1) |-> IF i = n + 1 THEN x ELSE f[i]]
<1> HIDE DEF x
<1>1. g[n + 1] = x /\ (\A i \in 1..n : g[i] = f[i]) /\ g = [i \in 1..(n + 1) |-> g[i]]
  OBVIOUS
<1> HIDE DEF g
<1>2. ASSUME NEW i \in 1..(n + 1) PROVE g[i] = IF i = 1 THEN seqs[i] ELSE g[i - 1] \o seqs[i]
  <2>2. CASE i \in 1..n
    <3>1. f[i] = IF i = 1 THEN seqs[i] ELSE f[i - 1] \o seqs[i]
      BY <2>2, JoinsValue
    <3>2. i # 1 => g[i - 1] = f[i - 1]
      <4>1. i # 1 => i - 1 \in 1..n
        BY <2>2
      <4> QED
        BY <1>1, <4>1
    <3>3. g[i] = f[i]
      BY <1>1, <2>2
    <3>4. CASE i = 1
      BY <3>1, <3>3, <3>4
    <3>5. CASE i # 1
      BY <3>1, <3>2, <3>3, <3>5
    <3> QED
      BY <3>4, <3>5
  <2>3. CASE i = n + 1
    <3>1. CASE n = 0
      BY <1>1, <2>3, <3>1 DEF x
    <3>2. CASE n # 0
      <4>1. i # 1 /\ i - 1 = n /\ n \in 1..n
        BY <2>3, <3>2
      <4>2. g[i - 1] = f[n] /\ g[i] = f[n] \o seqs[n + 1]
        BY <1>1, <2>3, <3>2, <4>1 DEF x
      <4> QED
        BY <2>3, <4>1, <4>2
    <3> QED
      BY <3>1, <3>2
  <2> QED
    BY <2>2, <2>3
<1>3. [i \in 1..(n + 1) |-> g[i]]
        = [i \in 1..(n + 1) |-> IF i = 1 THEN seqs[i] ELSE g[i - 1] \o seqs[i]]
  BY <1>2
<1> QED
  BY <1>1, <1>3 DEF Joins

LEMMA JoinExists ==
    ASSUME NEW n \in Nat, NEW seqs
    PROVE  \E f : Joins(f, seqs, n)
<1> DEFINE S == {m \in Nat : ~\E f : Joins(f, seqs, m)}
<1>1. SUFFICES ASSUME S # {} PROVE FALSE
  OBVIOUS
<1>2. PICK m \in S : \A k \in S : m <= k
  BY <1>1, LeastNatural
<1>3. CASE m = 0
  <2>1. Joins(<<>>, seqs, 0)
    BY DEF Joins
  <2> QED
    BY <1>3, <2>1
<1>4. CASE m # 0
  <2>1. m - 1 \in Nat /\ ~(m <= m - 1) /\ (m - 1) + 1 = m
    BY <1>4
  <2>2. PICK f : Joins(f, seqs, m - 1)
    BY <1>2, <2>1
  <2>3. \E g : Joins(g, seqs, (m - 1) + 1)
    BY <2>1, <2>2, JoinExtends
  <2> QED
    BY <2>1, <2>3
<1> QED
  BY <1>3, <1>4

(* What sequences that agree are joined to agrees.                         *)
Alike(s, t, n) == \A i \in 1..n : s[i] = t[i]

LEMMA JoinAgrees ==
    ASSUME NEW n \in Nat, NEW m \in Nat, NEW s, NEW t, Alike(s, t, n), n <= m,
           NEW f, Joins(f, s, n), NEW g, Joins(g, t, m)
    PROVE  Alike(f, g, n)
<1> USE DEF Alike
<1> DEFINE S == {i \in Nat : i \in 1..n /\ f[i] # g[i]}
<1>1. SUFFICES ASSUME S # {} PROVE FALSE
  OBVIOUS
<1>2. PICK i \in S : \A k \in S : i <= k
  BY <1>1, LeastNatural
<1>3. /\ f[i] = IF i = 1 THEN s[i] ELSE f[i - 1] \o s[i]
      /\ g[i] = IF i = 1 THEN t[i] ELSE g[i - 1] \o t[i]
      /\ s[i] = t[i]
  <2>1. i \in 1..n /\ i \in 1..m
    BY <1>2
  <2> QED
    BY <2>1, JoinsValue
<1>4. i # 1 => f[i - 1] = g[i - 1]
  BY <1>2
<1>5. CASE i = 1
  BY <1>2, <1>3, <1>5
<1>6. CASE i # 1
  <2>1. f[i] = g[i]
    BY <1>3, <1>4, <1>6
  <2> QED
    BY <1>2, <2>1
<1> QED
  BY <1>5, <1>6

LEMMA FlattenIs ==
    ASSUME NEW n \in Nat \ {0}, NEW seqs, Len(seqs) = n
    PROVE  \E f : Joins(f, seqs, n) /\ FlattenSeq(seqs) = f[n]
<1> DEFINE Is(f) == f = [i \in 1..n |-> IF i = 1 THEN seqs[i] ELSE f[i - 1] \o seqs[i]]
           flat == CHOOSE f : Is(f)
<1>1. FlattenSeq(seqs) = flat[n]
  BY DEF FlattenSeq
<1>2. \A f : Is(f) <=> Joins(f, seqs, n)
  BY DEF Joins
<1>3. \E f : Is(f)
  BY <1>2, JoinExists
<1> HIDE DEF Is
<1>4. Is(flat)
  BY <1>3
<1> HIDE DEF flat
<1> QED
  BY <1>1, <1>2, <1>4

(* One sequence more is joined at the end.                                 *)
LEMMA FlattenAppend ==
    ASSUME NEW n \in Nat, NEW s, Len(s) = n, NEW t, Len(t) = n + 1,
           Alike(s, t, n), n = 0 => s = <<>>,
           NEW S, FlattenSeq(s) \in Seq(S), t[n + 1] \in Seq(S)
    PROVE  FlattenSeq(t) = FlattenSeq(s) \o t[n + 1]
<1>1. PICK g : Joins(g, t, n + 1) /\ FlattenSeq(t) = g[n + 1]
  BY FlattenIs
<1>2. g[n + 1] = IF n + 1 = 1 THEN t[n + 1] ELSE g[(n + 1) - 1] \o t[n + 1]
  BY <1>1, JoinsValue
<1>3. CASE n = 0
  <2>1. FlattenSeq(s) = <<>>
    BY <1>3 DEF FlattenSeq
  <2>2. <<>> \o t[n + 1] = t[n + 1]
    OBVIOUS
  <2> QED
    BY <1>1, <1>2, <1>3, <2>1, <2>2
<1>4. CASE n # 0
  <2>1. PICK f : Joins(f, s, n) /\ FlattenSeq(s) = f[n]
    BY <1>4, FlattenIs
  <2>2. g[n] = f[n]
    <3>1. n \in 1..n /\ n <= n + 1 /\ n + 1 \in Nat
      BY <1>4
    <3>2. \A i \in 1..n : f[i] = g[i]
      <4>1. Alike(f, g, n)
        BY <1>1, <2>1, <3>1, JoinAgrees
      <4> QED
        BY <4>1 DEF Alike
    <3> QED
      BY <3>1, <3>2
  <2>3. (n + 1) - 1 = n /\ n + 1 # 1
    BY <1>4
  <2> QED
    BY <1>1, <1>2, <2>1, <2>2, <2>3
<1> QED
  BY <1>3, <1>4

LEMMA RanksAppend ==
    ASSUME CallInv, AllRanks \in Seq(Nat), NEW x, heard' = Append(heard, x),
           RanksOf(x) \in Seq(Nat)
    PROVE  AllRanks' = AllRanks \o RanksOf(x) /\ AllRanks' \in Seq(Nat)
<1> DEFINE n == Len(heard)
           s == [i \in 1..n |-> RanksOf(heard[i])]
           t == [i \in 1..(n + 1) |-> RanksOf(heard'[i])]
<1>1. /\ n \in Nat /\ Len(heard') = n + 1
      /\ \A i \in 1..n : heard'[i] = heard[i]
      /\ heard'[n + 1] = x
  BY Appending DEF CallInv
<1>2. AllRanks = FlattenSeq(s)
  BY DEF AllRanks
<1>3. AllRanks' = FlattenSeq(t)
  BY <1>1 DEF AllRanks, RanksOf
<1>4. /\ \A i \in 1..n : t[i] = s[i]
      /\ t[n + 1] = RanksOf(x)
      /\ s = [i \in 1..n |-> s[i]] /\ t = [i \in 1..(n + 1) |-> t[i]]
      /\ n = 0 => s = <<>>
  BY <1>1
<1> HIDE DEF s, t
<1>5. Len(s) = n /\ Len(t) = n + 1
  BY <1>1, <1>4, Counted
<1>6. AllRanks' = AllRanks \o t[n + 1]
  <2>1. Alike(s, t, n)
    BY <1>4 DEF Alike
  <2>2. FlattenSeq(s) \in Seq(Nat) /\ t[n + 1] \in Seq(Nat)
    BY <1>2, <1>4
  <2>3. FlattenSeq(t) = FlattenSeq(s) \o t[n + 1]
    BY <1>1, <1>4, <1>5, <2>1, <2>2, FlattenAppend
  <2> QED
    BY <1>2, <1>3, <2>3
<1> QED
  BY <1>4, <1>6, ConcatProperties

LEMMA LeastOfTwo ==
    ASSUME NEW a \in Nat, NEW b \in Nat
    PROVE  Min({a, b}) \in {a, b} /\ Min({a, b}) <= a /\ Min({a, b}) <= b
<1>1. \E m \in {a, b} : \A k \in {a, b} : m <= k
  BY LeastNatural
<1> QED
  BY <1>1 DEF Min

(* What a scan answers from the rows it has taken.                         *)
LEMMA RowsSorted ==
    ASSUME NEW out \in Seq(Nat), NEW rows \in Nat, args.rows = rows
    PROVE  /\ Len(ScanRows(out)) <= rows
           /\ \A i \in 1..(Len(ScanRows(out)) - 1) : ScanRows(out)[i] <= ScanRows(out)[i + 1]
           /\ (\A i, j \in DOMAIN out : i < j => out[i] <= out[j]) =>
                ScanRows(out) = SubSeq(out, 1, Min({Len(out), rows}))
<1> DEFINE m == Min({Len(out), rows})
           cut == SubSeq(out, 1, m)
           p == SortOrder(cut)
           s == ScanRows(out)
<1>1. m \in Nat /\ m <= Len(out) /\ m <= rows /\ Len(out) \in Nat
  BY LenProperties, LeastOfTwo
<1>2. s = [i \in DOMAIN cut |-> cut[p[i]]]
  BY DEF ScanRows, SortedBy
<1> HIDE DEF m, s
<1>3. /\ cut \in Seq(Nat) /\ Len(cut) = m
      /\ \A i \in 1..m : cut[i] = out[i]
  BY <1>1, SubSeqProperties
<1>4. DOMAIN cut = 1..m /\ \A i \in 1..m : cut[i] \in Nat
  BY <1>3, LenProperties
<1> HIDE DEF cut
<1>5. Sorts(p, cut, m)
  BY <1>1, <1>4, SortOrderSorts
<1> HIDE DEF p
<1>6. s = [i \in 1..m |-> cut[p[i]]] /\ s = [i \in 1..m |-> s[i]]
  BY <1>2, <1>4
<1>7. Len(s) = m /\ \A i \in 1..m : s[i] = cut[p[i]]
  BY <1>1, <1>6, Counted
<1>8. ASSUME NEW i \in 1..(m - 1) PROVE s[i] <= s[i + 1]
  <2>1. i \in 1..m /\ i + 1 \in 1..m /\ i < i + 1
    BY <1>1
  <2>2. Before(cut, p[i], p[i + 1]) /\ p[i] \in 1..m /\ p[i + 1] \in 1..m
    BY <1>5, <2>1 DEF Sorts
  <2>3. cut[p[i]] \in Nat /\ cut[p[i + 1]] \in Nat
    BY <1>4, <2>2
  <2>4. cut[p[i]] <= cut[p[i + 1]]
    BY <2>2, <2>3 DEF Before
  <2> QED
    BY <1>7, <2>1, <2>4
<1>9. ASSUME \A i, j \in DOMAIN out : i < j => out[i] <= out[j] PROVE s = cut
  <2>1. \A i \in 1..m : i \in DOMAIN out
    BY <1>1, LenProperties
  <2>2. \A i, j \in 1..m : i < j => cut[i] <= cut[j]
    BY <1>3, <1>9, <2>1
  <2>3. \A i \in 1..m : p[i] = i
    BY <1>1, <1>4, <1>5, <2>2, SortedStays
  <2>4. s = [i \in 1..m |-> cut[i]]
    BY <1>6, <2>3
  <2>5. cut = [i \in 1..m |-> cut[i]]
    BY <1>3, <1>4
  <2> QED
    BY <2>4, <2>5
<1> QED
  BY <1>1, <1>7, <1>8, <1>9 DEF s, m, cut

ScanInv ==
    tool = "run_scanner" =>
      /\ pc \in {"scan.open", "scan.subscribe", "scan.stream"} =>
           args.rows \in Nat /\ acc \in Seq(Nat) /\ acc = AllRanks
      /\ BestRanksFirst

LEMMA ScanAnswer ==
    ASSUME NEW out \in Seq(Nat), out = AllRanks', args' = args, args.rows \in Nat,
           answer' = Success(ScanRows(out))
    PROVE  BestRanksFirst'
<1> DEFINE s == ScanRows(out)
           rows == args.rows
<1>1. /\ Len(s) <= rows
      /\ \A i \in 1..(Len(s) - 1) : s[i] <= s[i + 1]
      /\ (\A i, j \in DOMAIN out : i < j => out[i] <= out[j]) =>
           s = SubSeq(out, 1, Min({Len(out), rows}))
  BY RowsSorted
<1>2. answer'.body = s /\ args'.rows = rows
  BY BodyOf
<1> HIDE DEF s, rows
<1> QED
  BY <1>1, <1>2 DEF BestRanksFirst

LEMMA ScanStep ==
    ASSUME CallInv, ScanInv, ScanSteps, tool' = "run_scanner" PROVE ScanInv'
<1> USE DEF frame
<1>0. pc \in {"scan.open", "scan.subscribe", "scan.stream"} => tool = "run_scanner"
  BY Homes DEF CallInv, Placed
<1>g. GivesUp => ScanInv'
  BY DEF GivesUp, ScanInv, BestRanksFirst
<1>f. \A from, why : ScanFails(from, why) => ScanInv'
  BY <1>g, NotOk DEF ScanFails, ScanOver, Concludes, GivesUp
<1>s. pc \in {"scan.open", "scan.subscribe", "scan.stream"} =>
        args.rows \in Nat /\ acc \in Seq(Nat) /\ acc = AllRanks
  BY <1>0 DEF ScanInv
<1>o. ASSUME pc \in {"scan.open", "scan.subscribe"}, UNCHANGED <<heard, acc, args>>,
             pc' \in {"scan.subscribe", "scan.stream"}
      PROVE  ScanInv'
  <2>1. AllRanks' = AllRanks
    BY <1>o DEF AllRanks, RanksOf
  <2> QED
    BY <1>s, <1>o, <2>1 DEF ScanInv, BestRanksFirst
<1>1. CASE ScannerCall
  <2>1. PICK rows \in 0..(MaxRows + 1) :
          \/ Enters("run_scanner", [rows |-> ClampRows(rows)], "scan.open", <<>>)
          \/ Rejected("run_scanner", None, "scanner limit")
    BY <1>1 DEF ScannerCall, CallScanner
  <2>2. CASE Enters("run_scanner", [rows |-> ClampRows(rows)], "scan.open", <<>>)
    <3>1. pc' = "scan.open" /\ acc' = <<>> /\ heard' = <<>> /\ args'.rows = ClampRows(rows)
      BY <2>2 DEF Enters, CallInv
    <3>2. ClampRows(rows) \in Nat
      BY ScannerAssumption DEF ClampRows
    <3>3. AllRanks' = <<>>
      BY <3>1, EmptyIsSeq DEF AllRanks, FlattenSeq
    <3>4. <<>> \in Seq(Nat)
      OBVIOUS
    <3> QED
      BY <3>1, <3>2, <3>3, <3>4 DEF ScanInv, BestRanksFirst
  <2>3. CASE Rejected("run_scanner", None, "scanner limit")
    BY <1>g, <2>3, GivingUp
  <2> QED
    BY <2>1, <2>2, <2>3
<1>2. CASE ScanOpen
  <2>1. Goes("scan.open", "scan.subscribe") /\ UNCHANGED <<heard, acc>> => ScanInv'
    BY <1>o DEF Goes
  <2> QED
    BY <1>2, <1>f, <2>1 DEF ScanOpen
<1>3. CASE ScanSubscribed
  BY <1>3, <1>o DEF ScanSubscribed, Goes
<1>4. CASE ScanSubscribeFails \/ ScanFail
  BY <1>4, <1>f DEF ScanSubscribeFails, ScanFail
<1>5. CASE ScanSubscribeTimeout
  BY <1>5, <1>g, NotOk DEF ScanSubscribeTimeout, ScanOver, Concludes, GivesUp
<1>6. CASE ScanBatch
  <2>1. PICK b \in Batch :
          /\ pc = "scan.stream" /\ heard' = Append(heard, [kind |-> "batch", ranks |-> b])
          /\ UNCHANGED args
          /\ \/ pc' = "scan.stream" /\ acc' = acc \o b
             \/ pc' = "done" /\ answer' = Success(ScanRows(acc \o b))
    BY <1>6 DEF ScanBatch, Hears, Goes, ScanOver, Concludes
  <2> DEFINE x == [kind |-> "batch", ranks |-> b]
             out == acc \o b
  <2>2. RanksOf(x) = b
    BY DEF RanksOf
  <2>3. b \in Seq(Nat)
    <3>1. PICK n \in 1..2 : b \in [1..n -> 1..MaxRank]
      BY DEF Batch
    <3>2. b \in [1..n -> Nat] /\ n \in Nat
      BY <3>1, ScannerAssumption
    <3> QED
      BY <3>2, SeqDef
  <2>4. heard' = Append(heard, x)
    BY <2>1
  <2> HIDE DEF x
  <2>5. AllRanks' = out /\ out \in Seq(Nat) /\ args.rows \in Nat
    BY <1>s, <2>1, <2>2, <2>3, <2>4, RanksAppend
  <2> HIDE DEF out
  <2>6. CASE pc' = "scan.stream" /\ acc' = out
    BY <2>1, <2>5, <2>6 DEF ScanInv, BestRanksFirst
  <2>7. CASE pc' = "done" /\ answer' = Success(ScanRows(out))
    BY <2>1, <2>5, <2>7, ScanAnswer DEF ScanInv
  <2> QED
    BY <2>1, <2>6, <2>7 DEF out
<1>7. ASSUME pc = "scan.stream", UNCHANGED args, NEW x, RanksOf(x) = <<>>,
             heard' = heard \/ heard' = Append(heard, x)
      PROVE  AllRanks' = acc /\ acc \in Seq(Nat) /\ args.rows \in Nat
  <2>1. acc = AllRanks /\ acc \in Seq(Nat) /\ args.rows \in Nat
    BY <1>s, <1>7
  <2>2. CASE heard' = heard
    BY <2>1, <2>2 DEF AllRanks, RanksOf
  <2>3. CASE heard' = Append(heard, x)
    <3>1. AllRanks' = acc \o <<>>
      <4>1. <<>> \in Seq(Nat)
        OBVIOUS
      <4>2. AllRanks \in Seq(Nat) /\ RanksOf(x) \in Seq(Nat)
        BY <1>7, <2>1, <4>1
      <4>3. AllRanks' = AllRanks \o RanksOf(x)
        BY <2>3, <4>2, RanksAppend
      <4> QED
        BY <1>7, <2>1, <4>3
    <3> QED
      BY <2>1, <3>1
  <2> QED
    BY <1>7, <2>2, <2>3
<1>8. CASE ScanNotice
  <2> DEFINE x == [kind |-> "notice"]
  <2>1. /\ pc = "scan.stream" /\ pc' = "scan.stream" /\ UNCHANGED <<args, acc>>
        /\ heard' = Append(heard, x) /\ RanksOf(x) = <<>>
    BY <1>8 DEF ScanNotice, Hears, Goes, RanksOf
  <2> HIDE DEF x
  <2>2. AllRanks' = acc /\ acc \in Seq(Nat) /\ args.rows \in Nat
    BY <1>7, <2>1
  <2> QED
    BY <2>1, <2>2 DEF ScanInv, BestRanksFirst
<1>9. CASE ScanEnd \/ ScanTimer
  <2> DEFINE x == [kind |-> "end"]
  <2>1. /\ pc = "scan.stream" /\ pc' = "done" /\ UNCHANGED <<args, acc>>
        /\ answer' = Success(ScanRows(acc))
        /\ heard' = heard \/ heard' = Append(heard, x)
        /\ RanksOf(x) = <<>>
    BY <1>9 DEF ScanEnd, ScanTimer, ScanFinishes, ScanOver, Concludes, HeardLast, RanksOf
  <2> HIDE DEF x
  <2>2. AllRanks' = acc /\ acc \in Seq(Nat) /\ args.rows \in Nat
    BY <1>7, <2>1
  <2> QED
    BY <2>1, <2>2, ScanAnswer DEF ScanInv
<1> QED
  BY <1>1, <1>2, <1>3, <1>4, <1>5, <1>6, <1>8, <1>9 DEF ScanSteps, ScannerOwn, ScannerGateway

LEMMA ScanNext == CallInv /\ ScanInv /\ [Next]_vars => ScanInv'
<1>1. UNCHANGED call /\ ScanInv => ScanInv'
  BY DEF call, frame, ScanInv, BestRanksFirst, AllRanks, RanksOf
<1>2. tool' # "run_scanner" => ScanInv'
  BY DEF ScanInv, BestRanksFirst
<1>3. "run_scanner" \in ScanTools
  BY DEF ScanTools
<1> QED
  BY <1>1, <1>2, <1>3, OwnSteps, ScanStep

-----------------------------------------------------------------------------
FoldInv == CallInv /\ OrdersInv /\ PositionsInv /\ FillsInv /\ ScanInv

LEMMA FoldInit == Init => FoldInv
<1>1. Init => tool \notin OrderTools \cup FillTools \cup ScanTools
  BY Disjoint, NoneAssumption DEF Init
<1> QED
  BY <1>1, CallInit DEF FoldInv, OrdersInv, PositionsInv, FillsInv, ScanInv, OrderTools, FillTools,
     ScanTools

LEMMA FoldNext == FoldInv /\ [Next]_vars => FoldInv'
  BY CallNext, OrdersNext, PositionsNext, FillsNext, ScanNext DEF FoldInv

LEMMA FoldsHold == Spec => []FoldInv
  BY FoldInit, FoldNext, PTL DEF Spec

(* An order is shown as working exactly if its last report says so and no  *)
(* filter excludes it, with its last quantity, in whatever order reports   *)
(* of however many clients come (WorkingOrderShown).                       *)
THEOREM WorkingOrderIsShown == Spec => []WorkingOrderShown
<1>1. FoldInv => WorkingOrderShown
  BY DEF FoldInv, OrdersInv, WorkingOrderShown, OrdersAnswered
<1> QED
  BY <1>1, FoldsHold, PTL

(* The profit and loss in a row is that of its own contract, in the first  *)
(* row's account, or missing (OwnPnl).                                     *)
THEOREM PnlIsOwn == Spec => []OwnPnl
<1>1. FoldInv => OwnPnl
  BY DEF FoldInv, PositionsInv, OwnPnl
<1> QED
  BY <1>1, FoldsHold, PTL

(* Every fill heard and not filtered is answered once, with its            *)
(* commission, however fills, repeats and reports interleave               *)
(* (EveryFillOnce).                                                        *)
THEOREM EveryFillIsOnce == Spec => []EveryFillOnce
<1>1. FoldInv => EveryFillOnce
  BY DEF FoldInv, FillsInv, EveryFillOnce
<1> QED
  BY <1>1, FoldsHold, PTL

(* If the gateway sends its rows in rank order, in however many batches,   *)
(* the answer is the best rows sent, as many as were asked for, and it is  *)
(* in rank order whatever the gateway does (BestRanksFirst).               *)
THEOREM RanksAreBest == Spec => []BestRanksFirst
<1>1. FoldInv => BestRanksFirst
  BY DEF FoldInv, ScanInv, BestRanksFirst
<1> QED
  BY <1>1, FoldsHold, PTL
=============================================================================
