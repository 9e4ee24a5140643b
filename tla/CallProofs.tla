------------------------------ MODULE CallProofs ------------------------------
(***************************************************************************)
(* Theorems about the answers of the tools: what a call returns is what    *)
(* the gateway said to it, for every instance of the constants.            *)
(*                                                                         *)
(* Calls come one after the other, so every property has the same frame:   *)
(* the await a call is at tells its tool, a step of another tool ends      *)
(* elsewhere, and a new call has heard nothing.  CallInv says this much.   *)
(* Each property then needs one invariant about its own tool, which ties   *)
(* what the handler has made so far (acc) to what it has heard.            *)
(***************************************************************************)
EXTENDS ToolsProofs, SequenceTheorems, FiniteSetTheorems

IsSeq(s) == \E S : s \in Seq(S)
IsAnswer(a) == a.ok \in BOOLEAN

(* The tools that have an await p.                                         *)
Home(p) ==
    CASE p = "account.answer" -> {"get_account_info"}
      [] p \in {"orders.open", "orders.stream"} -> {"get_open_orders"}
      [] p \in {"preview.open", "preview.stream"} -> {"what_if"}
      [] p \in {"positions.open", "positions.stream", "positions.pnl"} -> {"get_positions"}
      [] p \in {"fills.open", "fills.stream"} -> {"get_executions"}
      [] p \in {"bars.open", "bars.fetch"} -> {"get_historical_data", "get_market_data"}
      [] p \in {"iv.open", "iv.fetch"} -> {"get_iv_rank"}
      [] p \in {"ticks.open", "ticks.stream"} -> {"get_historical_ticks"}
      [] p \in {"events.open", "events.resolve", "events.probe", "events.fetch"} -> {"get_events"}
      [] p \in {"scan.open", "scan.subscribe", "scan.stream"} -> {"run_scanner"}
      [] p \in {"chain.open", "chain.resolve", "chain.stream"} -> {"get_option_chain"}
      [] p = "bulk.join" -> {"get_bulk_quotes"}
      [] p \in {"status.slot", "status.failures", "status.recheck", "status.started"} ->
             {"get_connection_status"}
      [] OTHER -> {"health_last_good"}

Placed ==
    /\ pc \in Await \cup {"ready", "done"}
    /\ tool \in ToolName \cup {None}
    /\ pc = "ready" <=> tool = None
    /\ pc \in Await => tool \in Home(pc)

(* Where nothing more is heard: the item that led there may be one too     *)
(* many for the bound on the gateway's patience.                           *)
Overheard == {"done", "positions.pnl"}

CallInv ==
    /\ Placed
    /\ IsSeq(heard)
    /\ Len(heard) <= Patience + 1
    /\ pc \notin Overheard => Len(heard) <= Patience
    /\ pc = "ready" => heard = <<>>
    /\ IF pc = "done" THEN IsAnswer(answer) ELSE answer = None

(* What a step may do to heard and answer.                                 *)
Listens ==
    \/ heard' = heard
    \/ \E x : heard' = Append(heard, x) /\ (Len(heard) < Patience \/ pc' \in Overheard)
Speaks ==
    /\ Listens
    /\ IF pc' = "done" THEN IsAnswer(answer') ELSE answer' = answer

-----------------------------------------------------------------------------
(* Numbers, sets and sequences.                                            *)

LEMMA LeastNatural ==
    ASSUME NEW S \in SUBSET Nat, S # {}
    PROVE  \E m \in S : \A k \in S : m <= k
<1> DEFINE R == OpToRel(<, Nat)
<1>1. IsWellFoundedOn(R, Nat)
  BY NatLessThanWellFounded
<1>2. \A k, m \in Nat : k < m => <<k, m>> \in R
  BY DEF OpToRel
<1> HIDE DEF R
<1>3. PICK m \in S : \A k \in S : <<k, m>> \notin R
  BY <1>1, WFMin
<1>4. ASSUME NEW k \in S PROVE m <= k
  <2>1. k \in Nat /\ m \in Nat
    OBVIOUS
  <2>2. ~(k < m)
    BY <1>2, <1>3, <2>1, Zenon
  <2> QED
    BY <2>1, <2>2
<1> QED
  BY <1>4

(* The greatest of some numbers below a bound.                             *)
LEMMA GreatestNatural ==
    ASSUME NEW S \in SUBSET Nat, S # {}, NEW b \in Nat, \A k \in S : k <= b
    PROVE  \E m \in S : \A k \in S : k <= m
<1> DEFINE T == {u \in Nat : b - u \in S}
<1>1. PICK s \in S : TRUE
  OBVIOUS
<1>2. b - s \in T
  BY <1>1
<1>3. PICK u \in T : \A k \in T : u <= k
  BY <1>2, LeastNatural
<1>4. ASSUME NEW k \in S PROVE k <= b - u
  <2>1. b - k \in T
    BY <1>4
  <2>2. u <= b - k /\ u \in Nat /\ k \in Nat
    BY <1>3, <2>1
  <2> QED
    BY <2>2
<1> QED
  BY <1>3, <1>4

LEMMA Appending ==
    ASSUME NEW s, IsSeq(s), NEW x
    PROVE  /\ IsSeq(Append(s, x))
           /\ Len(s) \in Nat /\ Len(Append(s, x)) = Len(s) + 1
           /\ DOMAIN s = 1..Len(s) /\ DOMAIN Append(s, x) = 1..(Len(s) + 1)
           /\ \A i \in 1..Len(s) : Append(s, x)[i] = s[i]
           /\ Append(s, x)[Len(s) + 1] = x
<1>1. PICK S : s \in Seq(S)
  BY DEF IsSeq
<1>2. s \in Seq(S \cup {x})
  BY <1>1, SeqMonotonic
<1>3. Append(s, x) \in Seq(S \cup {x}) /\ Len(s) \in Nat
  BY <1>2, AppendProperties, LenProperties
<1> QED
  BY <1>2, <1>3, AppendProperties, LenProperties DEF IsSeq

LEMMA EmptyIsSeq == IsSeq(<<>>) /\ Len(<<>>) = 0 /\ DOMAIN <<>> = {}
<1>1. <<>> \in Seq({})
  OBVIOUS
<1> QED
  BY <1>1 DEF IsSeq

(* What has as many elements as its domain counts.                         *)
LEMMA Counted ==
    ASSUME NEW n \in Nat, NEW f, f = [i \in 1..n |-> f[i]]
    PROVE  Len(f) = n
<1> DEFINE S == {f[i] : i \in 1..n}
<1>1. f \in [1..n -> S]
  OBVIOUS
<1> HIDE DEF S
<1>2. f \in Seq(S)
  BY <1>1, SeqDef
<1>3. Len(f) \in Nat /\ 1..Len(f) = 1..n
  BY <1>1, <1>2, LenProperties
<1> QED
  BY <1>3

-----------------------------------------------------------------------------
(* Sorting.  Position a comes before position b.                           *)
Before(keys, a, b) == keys[a] < keys[b] \/ (keys[a] = keys[b] /\ a < b)

Sorts(p, keys, n) ==
    /\ p \in [1..n -> 1..n]
    /\ \A i, j \in 1..n : p[i] = p[j] => i = j
    /\ \A k \in 1..n : \E i \in 1..n : p[i] = k
    /\ \A i, j \in 1..n : i < j => Before(keys, p[i], p[j])

(* One position more is put in before the first that comes after it.       *)
LEMMA SortExtends ==
    ASSUME NEW n \in Nat, NEW keys, \A i \in 1..(n + 1) : keys[i] \in Nat,
           NEW p, Sorts(p, keys, n)
    PROVE  \E q : Sorts(q, keys, n + 1)
<1>p. /\ p \in [1..n -> 1..n]
      /\ \A i, j \in 1..n : p[i] = p[j] => i = j
      /\ \A k \in 1..n : \E i \in 1..n : p[i] = k
      /\ \A i, j \in 1..n : i < j => Before(keys, p[i], p[j])
  BY DEF Sorts
<1>k. keys[n + 1] \in Nat /\ \A i \in 1..n : p[i] \in 1..n /\ keys[p[i]] \in Nat
  <2>1. n + 1 \in 1..(n + 1) /\ \A i \in 1..n : p[i] \in 1..n /\ p[i] \in 1..(n + 1)
    BY <1>p
  <2> QED
    BY <2>1
<1> DEFINE After == {i \in Nat : i = n + 1 \/ (i \in 1..n /\ keys[n + 1] < keys[p[i]])}
<1>1. PICK k \in After : \A i \in After : k <= i
  <2>1. n + 1 \in After
    OBVIOUS
  <2> QED
    BY <2>1, LeastNatural
<1>2. k \in 1..(n + 1)
  BY <1>1
<1>3. \A i \in 1..n : i < k => Before(keys, p[i], n + 1)
  <2> SUFFICES ASSUME NEW i \in 1..n, i < k PROVE Before(keys, p[i], n + 1)
    OBVIOUS
  <2>1. i \notin After
    BY <1>1
  <2>2. /\ p[i] \in 1..n /\ p[i] < n + 1 /\ keys[p[i]] \in Nat /\ keys[n + 1] \in Nat
        /\ ~(keys[n + 1] < keys[p[i]])
    BY <1>p, <1>k, <2>1
  <2> QED
    BY <2>2 DEF Before
<1>4. \A i \in 1..n : k <= i => Before(keys, n + 1, p[i])
  <2> SUFFICES ASSUME NEW i \in 1..n, k <= i PROVE Before(keys, n + 1, p[i])
    OBVIOUS
  <2>1. k \in 1..n /\ keys[n + 1] < keys[p[k]]
    BY <1>1
  <2>2. keys[p[k]] <= keys[p[i]]
    <3>1. CASE k = i
      BY <1>k, <2>1, <3>1
    <3>2. CASE k < i
      <4>1. Before(keys, p[k], p[i])
        BY <1>p, <2>1, <3>2
      <4>2. keys[p[k]] \in Nat /\ keys[p[i]] \in Nat
        BY <1>k, <2>1
      <4> QED
        BY <4>1, <4>2 DEF Before
    <3> QED
      BY <2>1, <3>1, <3>2
  <2> QED
    BY <1>k, <2>1, <2>2 DEF Before
<1> HIDE DEF After
<1> DEFINE q == [i \in 1..(n + 1) |-> IF i < k THEN p[i] ELSE IF i = k THEN n + 1 ELSE p[i - 1]]
<1>5. /\ q \in [1..(n + 1) -> 1..(n + 1)]
      /\ q[k] = n + 1
      /\ \A i \in 1..(n + 1) : i < k => i \in 1..n /\ q[i] = p[i]
      /\ \A i \in 1..(n + 1) : k < i => i - 1 \in 1..n /\ k <= i - 1 /\ q[i] = p[i - 1]
  <2>1. \A i \in 1..(n + 1) : i < k => i \in 1..n
    BY <1>2
  <2>2. \A i \in 1..(n + 1) : k < i => i - 1 \in 1..n /\ k <= i - 1
    BY <1>2
  <2>3. \A i \in 1..(n + 1) : i < k \/ i = k \/ k < i
    BY <1>2
  <2>4. \A i \in 1..(n + 1) : ~(k < k) /\ (k < i => ~(i < k) /\ i # k)
    BY <1>2
  <2>5. \A i \in 1..n : p[i] \in 1..(n + 1)
    BY <1>p
  <2>6. \A i \in 1..(n + 1) :
          q[i] = IF i < k THEN p[i] ELSE IF i = k THEN n + 1 ELSE p[i - 1]
    OBVIOUS
  <2>7. \A i \in 1..(n + 1) : q[i] \in 1..(n + 1)
    BY <2>1, <2>2, <2>3, <2>4, <2>5, <2>6
  <2> QED
    BY <1>2, <2>1, <2>2, <2>3, <2>4, <2>6, <2>7
<1> HIDE DEF q
<1>6. \A i, j \in 1..(n + 1) : i < j => Before(keys, q[i], q[j])
  <2> SUFFICES ASSUME NEW i \in 1..(n + 1), NEW j \in 1..(n + 1), i < j
               PROVE  Before(keys, q[i], q[j])
    OBVIOUS
  <2>1. CASE j < k
    BY <1>p, <1>2, <1>5, <2>1
  <2>2. CASE j = k
    BY <1>3, <1>5, <2>2
  <2>3. CASE i < k /\ k < j
    <3>1. i < j - 1
      BY <1>2, <2>3
    <3> QED
      BY <1>p, <1>5, <2>3, <3>1
  <2>4. CASE i = k
    BY <1>4, <1>5, <2>4
  <2>5. CASE k < i
    <3>1. i - 1 < j - 1 /\ k < j
      BY <1>2, <2>5
    <3> QED
      BY <1>p, <1>5, <2>5, <3>1
  <2> QED
    BY <1>2, <2>1, <2>2, <2>3, <2>4, <2>5
<1>7. \A i, j \in 1..(n + 1) : q[i] = q[j] => i = j
  <2>1. \A i \in 1..(n + 1) : ~Before(keys, i, i)
    BY DEF Before
  <2>2. \A i, j \in 1..(n + 1) : i < j => q[i] # q[j]
    BY <1>5, <1>6, <2>1
  <2> QED
    BY <2>2
<1>8. \A m \in 1..(n + 1) : \E i \in 1..(n + 1) : q[i] = m
  <2>0. \E i \in 1..(n + 1) : q[i] = n + 1
    BY <1>2, <1>5
  <2> SUFFICES ASSUME NEW m \in 1..n PROVE \E i \in 1..(n + 1) : q[i] = m
    BY <2>0
  <2>1. PICK i \in 1..n : p[i] = m
    BY <1>p
  <2>2. CASE i < k
    <3>1. i \in 1..(n + 1) /\ q[i] = m
      BY <1>5, <2>1, <2>2
    <3> QED
      BY <3>1
  <2>3. CASE k <= i
    <3>1. i + 1 \in 1..(n + 1) /\ k < i + 1 /\ (i + 1) - 1 = i
      BY <1>2, <2>3
    <3>2. q[i + 1] = m
      BY <1>5, <2>1, <3>1
    <3> QED
      BY <3>1, <3>2
  <2> QED
    BY <1>2, <2>2, <2>3
<1>9. Sorts(q, keys, n + 1)
  BY <1>5, <1>6, <1>7, <1>8 DEF Sorts
<1> QED
  BY <1>9

LEMMA SortExists ==
    ASSUME NEW n \in Nat, NEW keys, \A i \in 1..n : keys[i] \in Nat
    PROVE  \E p : Sorts(p, keys, n)
<1> DEFINE S == {m \in Nat : m \in 0..n /\ ~\E p : Sorts(p, keys, m)}
<1>1. SUFFICES ASSUME S # {} PROVE FALSE
  OBVIOUS
<1>2. PICK m \in S : \A k \in S : m <= k
  BY <1>1, LeastNatural
<1>3. CASE m = 0
  <2>1. Sorts(<<>>, keys, 0)
    BY DEF Sorts
  <2> QED
    BY <1>3, <2>1
<1>4. CASE m # 0
  <2>1. m - 1 \in Nat /\ m - 1 \in 0..n /\ ~(m <= m - 1) /\ (m - 1) + 1 = m
    BY <1>4
  <2>2. PICK p : Sorts(p, keys, m - 1)
    BY <1>2, <2>1
  <2>3. \A i \in 1..((m - 1) + 1) : keys[i] \in Nat
    BY <2>1
  <2>4. \E q : Sorts(q, keys, (m - 1) + 1)
    BY <2>1, <2>2, <2>3, SortExtends
  <2> QED
    BY <2>1, <2>4
<1> QED
  BY <1>3, <1>4

(* What the order of a stable sort is.                                     *)
LEMMA SortOrderSorts ==
    ASSUME NEW n \in Nat, NEW keys, DOMAIN keys = 1..n, \A i \in 1..n : keys[i] \in Nat
    PROVE  Sorts(SortOrder(keys), keys, n)
<1> DEFINE Fits(p) == \A i, j \in 1..n : i < j => Before(keys, p[i], p[j])
<1>1. \A p : p \in Bijection(1..n, 1..n) /\ Fits(p) <=> Sorts(p, keys, n)
  BY DEF Sorts, Bijection, Injection, Surjection, IsInjective
<1>2. SortOrder(keys) = CHOOSE p \in Bijection(1..n, 1..n) : Fits(p)
  BY DEF SortOrder, Before
<1>3. \E p \in Bijection(1..n, 1..n) : Fits(p)
  BY <1>1, SortExists
<1> HIDE DEF Fits
<1> DEFINE p == SortOrder(keys)
<1>4. p \in Bijection(1..n, 1..n) /\ Fits(p)
  BY <1>2, <1>3
<1> QED
  BY <1>1, <1>4

(* Keys that are in order are left alone.                                  *)
LEMMA SortedStays ==
    ASSUME NEW n \in Nat, NEW keys, \A i \in 1..n : keys[i] \in Nat,
           \A i, j \in 1..n : i < j => keys[i] <= keys[j],
           NEW p, Sorts(p, keys, n)
    PROVE  \A i \in 1..n : p[i] = i
<1>1. p \in [1..n -> 1..n] /\ \A i, j \in 1..n : i < j => Before(keys, p[i], p[j])
  BY DEF Sorts
<1>2. \A i, j \in 1..n : i < j => p[i] < p[j]
  <2> SUFFICES ASSUME NEW i \in 1..n, NEW j \in 1..n, i < j PROVE p[i] < p[j]
    OBVIOUS
  <2> DEFINE a == p[i]
             b == p[j]
  <2>1. a \in 1..n /\ b \in 1..n /\ Before(keys, a, b)
    BY <1>1
  <2> HIDE DEF a, b
  <2>2. a < b
    <3>1. CASE keys[a] < keys[b]
      <4>1. b < a => keys[b] <= keys[a]
        BY <2>1
      <4> QED
        BY <2>1, <3>1, <4>1
    <3> QED
      BY <2>1, <3>1 DEF Before
  <2> QED
    BY <2>2 DEF a, b
<1>3. \A i \in 1..n : i <= p[i]
  <2> DEFINE S == {i \in Nat : i \in 1..n /\ ~(i <= p[i])}
  <2>1. SUFFICES ASSUME S # {} PROVE FALSE
    OBVIOUS
  <2>2. PICK m \in S : \A k \in S : m <= k
    BY <2>1, LeastNatural
  <2>3. p[m] \in 1..n /\ m \in 1..n /\ p[m] < m
    BY <1>1, <2>2
  <2>4. m - 1 \in 1..n /\ ~(m <= m - 1)
    BY <2>3
  <2>5. m - 1 <= p[m - 1] /\ p[m - 1] < p[m] /\ p[m - 1] \in 1..n
    BY <1>1, <1>2, <2>2, <2>4
  <2> QED
    BY <2>3, <2>4, <2>5
<1>4. \A i \in 1..n : p[i] <= i
  <2> DEFINE S == {k \in Nat : k < n /\ ~(p[n - k] <= n - k)}
  <2>1. ASSUME S # {} PROVE FALSE
    <3>1. PICK k \in S : \A l \in S : k <= l
      BY <2>1, LeastNatural
    <3>2. n - k \in 1..n /\ p[n - k] \in 1..n /\ n - k < p[n - k]
      BY <1>1, <3>1
    <3>3. k - 1 \in Nat /\ k - 1 < n /\ ~(k <= k - 1) /\ n - (k - 1) = (n - k) + 1
          /\ (n - k) + 1 \in 1..n
      BY <3>1, <3>2
    <3>4. p[(n - k) + 1] <= (n - k) + 1
      BY <3>1, <3>3
    <3>5. p[n - k] < p[(n - k) + 1] /\ p[(n - k) + 1] \in 1..n
      BY <1>1, <1>2, <3>2, <3>3
    <3> QED
      BY <3>2, <3>4, <3>5
  <2>2. ASSUME NEW i \in 1..n PROVE p[i] <= i
    <3>1. n - i \in Nat /\ n - i < n /\ n - (n - i) = i
      OBVIOUS
    <3>2. n - i \notin S
      BY <2>1
    <3> QED
      BY <3>1, <3>2
  <2> QED
    BY <2>2
<1> QED
  BY <1>1, <1>3, <1>4

-----------------------------------------------------------------------------
(* The operators of ToolCall.                                              *)

LEMMA Hearing ==
    ASSUME NEW at, NEW x
    PROVE  Hears(at, x) => Listens
  BY DEF Hears, Listens

LEMMA Speaking ==
    ASSUME NEW from, NEW a, IsAnswer(a)
    PROVE  /\ Answers(from, a) => Speaks
           /\ \A x : Settles(from, x, a) => Speaks
           /\ \A x : Concludes(from, a) /\ HeardLast(x) => Speaks
           /\ Concludes(from, a) /\ UNCHANGED heard => Speaks
  BY DEF Answers, Settles, Concludes, HeardLast, Speaks, Listens, Overheard

LEMMA Passing ==
    ASSUME NEW from, NEW to, to # "done", Goes(from, to), Listens
    PROVE  Speaks
  BY DEF Goes, Speaks

LEMMA Silently == UNCHANGED heard => Listens
  BY DEF Listens

LEMMA Saying ==
    /\ \A body : IsAnswer(Success(body))
    /\ \A why : IsAnswer(Failure(why))
  BY DEF Success, Failure, IsAnswer

LEMMA OpeningSpeaks ==
    ASSUME NEW from, NEW to, to # "done"
    PROVE  /\ Opens(from, to) => Speaks
           /\ Fails(from) => Speaks
           /\ TimesOut(from) => Speaks
<1>1. \A why : Answers(from, Failure(why)) => Speaks
  BY Speaking, Saying
<1>2. Goes(from, to) /\ UNCHANGED <<heard, acc>> => Speaks
  BY Passing, Silently
<1> QED
  BY <1>1, <1>2 DEF Opens, Fails, TimesOut

-----------------------------------------------------------------------------
(* Each step of a handler speaks.                                          *)

LEMMA OrdersSpeak == OpenOrdersOwn \/ OpenOrdersGateway => Speaks
<1> USE Speaking, Passing, OpeningSpeaks, Hearing, Saying, Silently
<1>1. OpenOrdersOpen \/ OrdersFail \/ OrdersTimeout \/ WhatIfTimeout => Speaks
  BY DEF OpenOrdersOpen, OrdersFail, OrdersTimeout, WhatIfTimeout
<1>2. OrdersMessage => Speaks
  BY DEF OrdersMessage
<1>3. OrdersEnd \/ OrdersClose => Speaks
  BY DEF OrdersEnd, OrdersClose
<1>4. WhatIfOpen => Speaks
  BY DEF WhatIfOpen
<1>5. WhatIfItem => Speaks
  BY DEF WhatIfItem
<1>6. WhatIfReply \/ WhatIfCloses => Speaks
  BY DEF WhatIfReply, WhatIfCloses
<1> QED
  BY <1>1, <1>2, <1>3, <1>4, <1>5, <1>6 DEF OpenOrdersOwn, OpenOrdersGateway

LEMMA FillsSpeak == FillsOwn \/ FillsGateway => Speaks
<1> USE Speaking, Passing, OpeningSpeaks, Hearing, Saying, Silently
<1>1. PositionsOpen \/ PositionsFail \/ ExecutionsOpen \/ ExecutionsFail => Speaks
  BY DEF PositionsOpen, PositionsFail, ExecutionsOpen, ExecutionsFail
<1>2. PositionItem \/ FillItem \/ CommissionItem => Speaks
  BY DEF PositionItem, FillItem, CommissionItem
<1>3. PositionEnd \/ PositionsSilent => Speaks
  <2>1. PositionsCollected /\ Listens => Speaks
    BY DEF PositionsCollected, Speaks
  <2>2. PositionsCollected => pc' \in Overheard
    BY DEF PositionsCollected, Overheard
  <2>3. PositionEnd => Listens
    BY <2>2 DEF PositionEnd, HeardLast, Listens
  <2> QED
    BY <2>1, <2>3 DEF PositionEnd, PositionsSilent
<1>4. \A pnl : PnlRow(pnl) => Speaks
  BY DEF PnlRow, Speaks
<1>5. ExecutionsEnd \/ ExecutionsSilent => Speaks
  <2>1. ExecutionsCollected /\ Listens => Speaks
    BY DEF ExecutionsCollected, Speaks
  <2>2. ExecutionsEnd => Listens
    BY DEF ExecutionsEnd, ExecutionsCollected, HeardLast, Listens, Overheard
  <2> QED
    BY <2>1, <2>2 DEF ExecutionsEnd, ExecutionsSilent
<1>6. PnlReply \/ PnlMissing => Speaks
  BY <1>4 DEF PnlReply, PnlMissing
<1> QED
  BY <1>1, <1>2, <1>3, <1>5, <1>6 DEF FillsOwn, FillsGateway

LEMMA HistorySpeaks == HistoryOwn \/ HistoryGateway => Speaks
<1> USE Speaking, Passing, OpeningSpeaks, Hearing, Saying, Silently
<1>1. IsAnswer(DrainTicks) /\ \A bars : IsAnswer(IvAnswer(bars))
  BY DEF DrainTicks, IvAnswer
<1>2. BarsFail \/ BarsTimeout \/ IvOpen \/ IvFail \/ IvTimeout \/ TicksOpen \/ TicksFail => Speaks
  BY DEF BarsFail, BarsTimeout, IvOpen, IvFail, IvTimeout, TicksOpen, TicksFail
<1>3. BarsOpen => Speaks
  BY DEF BarsOpen
<1>4. BarsReply \/ IvReply => Speaks
  BY <1>1 DEF BarsReply, IvReply, FetchBars
<1>5. TicksItem => Speaks
  BY DEF TicksItem
<1>6. TicksEnd \/ TicksRefused \/ TicksIdle => Speaks
  BY <1>1 DEF TicksEnd, TicksRefused, TicksIdle
<1> QED
  BY <1>2, <1>3, <1>4, <1>5, <1>6 DEF HistoryOwn, HistoryGateway

LEMMA EventsSpeak == EventsOwn \/ EventsGateway => Speaks
<1> USE Speaking, Passing, OpeningSpeaks, Hearing, Saying, Silently
<1>1. \A e, s : IsAnswer(Report(e, s))
  BY DEF Report
<1>2. \A p : IsAnswer(PayloadReport(p))
  BY <1>1 DEF PayloadReport
<1>3. EventsResolveTimeout \/ EventsTimeout => Speaks
  BY DEF EventsResolveTimeout, EventsTimeout
<1>4. EventsOpen => Speaks
  BY DEF EventsOpen
<1>5. EventsProbe \/ EventsProbeTimeout => Speaks
  BY DEF EventsProbe, EventsProbeTimeout, Probed
<1>6. EventsResolve => Speaks
  <2>1. ASSUME NEW c, Hears("events.resolve", [kind |-> "contract", conid |-> c]),
               Goes("events.resolve", "events.open")
        PROVE  Speaks
    BY <2>1
  <2>2. \A why : Answers("events.resolve", Failure(why)) => Speaks
    OBVIOUS
  <2>3. Fails("events.resolve") => Speaks
    BY DEF Fails
  <2> QED
    BY <2>1, <2>2, <2>3 DEF EventsResolve
<1>7. EventsFetch => Speaks
  BY <1>1, <1>2 DEF EventsFetch
<1> QED
  BY <1>3, <1>4, <1>5, <1>6, <1>7 DEF EventsOwn, EventsGateway

LEMMA ScannerSpeaks == ScannerOwn \/ ScannerGateway => Speaks
<1> USE Speaking, Passing, OpeningSpeaks, Hearing, Saying, Silently
<1>1. \A from, why : ScanFails(from, why) => Speaks
  BY DEF ScanFails, ScanOver
<1>2. ScanOpen => Speaks
  BY <1>1 DEF ScanOpen
<1>3. ScanSubscribed => Speaks
  BY DEF ScanSubscribed
<1>4. ScanSubscribeFails \/ ScanFail => Speaks
  BY <1>1 DEF ScanSubscribeFails, ScanFail
<1>5. ScanSubscribeTimeout => Speaks
  BY DEF ScanSubscribeTimeout, ScanOver
<1>6. ScanEnd \/ ScanTimer => Speaks
  BY DEF ScanEnd, ScanTimer, ScanFinishes, ScanOver
<1>7. ScanNotice => Speaks
  BY DEF ScanNotice
<1>8. ScanBatch => Speaks
  <2>1. \A out : ScanOver("scan.stream", Success(ScanRows(out))) /\ Listens => Speaks
    BY DEF ScanOver, Concludes, Speaks
  <2> QED
    BY <2>1 DEF ScanBatch
<1> QED
  BY <1>2, <1>3, <1>4, <1>5, <1>6, <1>7, <1>8 DEF ScannerOwn, ScannerGateway

LEMMA ChainsSpeak == ChainsOwn \/ ChainsGateway => Speaks
<1> USE Speaking, Passing, OpeningSpeaks, Hearing, Saying, Silently
<1>1. ChainFail \/ BulkJoins => Speaks
  BY DEF ChainFail, BulkJoins
<1>2. ChainOpen => Speaks
  BY DEF ChainOpen
<1>3. ChainResolved => Speaks
  BY DEF ChainResolved
<1>4. ChainItem \/ TaskEnds => Speaks
  BY DEF ChainItem, TaskEnds
<1>5. ChainEnd => Speaks
  BY DEF ChainEnd
<1> QED
  BY <1>1, <1>2, <1>3, <1>4, <1>5 DEF ChainsOwn, ChainsGateway

LEMMA StatusSpeaks == StatusOwn \/ StatusOthers \/ AccountInfo => Speaks
<1> USE Speaking, Passing, OpeningSpeaks, Hearing, Saying, Silently
<1>1. \A o : IsAnswer(StatusAnswer(o))
  BY DEF StatusAnswer
<1>2. StatusSlot \/ StatusFailures => Speaks
  BY DEF StatusSlot, StatusFailures
<1>3. StatusRecheck \/ StatusStarted => Speaks
  BY <1>1 DEF StatusRecheck, StatusStarted
<1>4. LastGoodGet \/ LastGoodAge => Speaks
  BY DEF LastGoodGet, LastGoodAge
<1>5. CanaryStores \/ PumpRecords => Speaks
  BY DEF CanaryStores, PumpRecords
<1>6. AccountInfo => Speaks
  BY DEF AccountInfo
<1> QED
  BY <1>2, <1>3, <1>4, <1>5, <1>6 DEF StatusOwn, StatusOthers

-----------------------------------------------------------------------------
(* Each step of a handler stays with its tool, and a call arrives at its   *)
(* own.                                                                    *)
Stays(tools) ==
    /\ pc \in Await /\ Home(pc) \subseteq tools /\ tool' = tool
    /\ pc' # "done" => pc' \in Await /\ Home(pc') = Home(pc)
Comes(tools) ==
    /\ pc = "ready" /\ tool' \in tools /\ tools \subseteq ToolName
    /\ pc' # "done" => pc' \in Await /\ tool' \in Home(pc')

OrderTools == {"get_open_orders", "what_if"}
FillTools == {"get_positions", "get_executions"}
HistoryTools == {"get_historical_data", "get_market_data", "get_iv_rank",
                 "get_historical_ticks"}
EventTools == {"get_events"}
ScanTools == {"run_scanner"}
ChainTools == {"get_option_chain", "get_bulk_quotes"}
StatusTools == {"get_connection_status", "health_last_good"}

LEMMA Homes ==
    /\ Home("account.answer") = {"get_account_info"}
    /\ \A p \in {"orders.open", "orders.stream"} : p \in Await /\ Home(p) = {"get_open_orders"}
    /\ \A p \in {"preview.open", "preview.stream"} : p \in Await /\ Home(p) = {"what_if"}
    /\ \A p \in {"positions.open", "positions.stream", "positions.pnl"} :
          p \in Await /\ Home(p) = {"get_positions"}
    /\ \A p \in {"fills.open", "fills.stream"} : p \in Await /\ Home(p) = {"get_executions"}
    /\ \A p \in {"bars.open", "bars.fetch"} :
          p \in Await /\ Home(p) = {"get_historical_data", "get_market_data"}
    /\ \A p \in {"iv.open", "iv.fetch"} : p \in Await /\ Home(p) = {"get_iv_rank"}
    /\ \A p \in {"ticks.open", "ticks.stream"} : p \in Await /\ Home(p) = {"get_historical_ticks"}
    /\ \A p \in {"events.open", "events.resolve", "events.probe", "events.fetch"} :
          p \in Await /\ Home(p) = {"get_events"}
    /\ \A p \in {"scan.open", "scan.subscribe", "scan.stream"} :
          p \in Await /\ Home(p) = {"run_scanner"}
    /\ \A p \in {"chain.open", "chain.resolve", "chain.stream"} :
          p \in Await /\ Home(p) = {"get_option_chain"}
    /\ Home("bulk.join") = {"get_bulk_quotes"}
    /\ \A p \in {"status.slot", "status.failures", "status.recheck", "status.started"} :
          p \in Await /\ Home(p) = {"get_connection_status"}
    /\ \A p \in {"snapshot.get", "snapshot.age"} : p \in Await /\ Home(p) = {"health_last_good"}
    /\ "account.answer" \in Await /\ "bulk.join" \in Await
    /\ "done" \notin Await /\ "ready" \notin Await
  BY DEF Home, Await

LEMMA GoingStays ==
    ASSUME NEW from \in Await, NEW to \in Await, NEW tools,
           Home(to) = Home(from), Home(from) \subseteq tools
    PROVE  Goes(from, to) => Stays(tools)
  BY DEF Goes, Stays, frame

LEMMA ConcludingStays ==
    ASSUME NEW from \in Await, NEW tools, Home(from) \subseteq tools
    PROVE  /\ \A a : Concludes(from, a) => Stays(tools)
           /\ \A a : Answers(from, a) => Stays(tools)
           /\ \A x, a : Settles(from, x, a) => Stays(tools)
           /\ Fails(from) => Stays(tools)
           /\ TimesOut(from) => Stays(tools)
  BY DEF Concludes, Answers, Settles, Fails, TimesOut, Stays, frame

LEMMA OpeningStays ==
    ASSUME NEW from \in Await, NEW to \in Await, NEW tools,
           Home(to) = Home(from), Home(from) \subseteq tools
    PROVE  Opens(from, to) => Stays(tools)
  BY GoingStays, ConcludingStays DEF Opens

LEMMA Coming ==
    ASSUME NEW tools, tools \subseteq ToolName, NEW t \in tools
    PROVE  /\ \A a, to, start : to \in Await /\ t \in Home(to) =>
                /\ Enters(t, a, to, start) => Comes(tools)
                /\ Arrives(t, a, to, start) => Comes(tools)
                /\ Gated(t, a, to, start) => Comes(tools)
           /\ \A a, why : Rejected(t, a, why) => Comes(tools)
  BY DEF Enters, Arrives, Gated, Rejected, Comes

LEMMA Named ==
    /\ OrderTools \subseteq ToolName /\ FillTools \subseteq ToolName
    /\ HistoryTools \subseteq ToolName /\ EventTools \subseteq ToolName
    /\ ScanTools \subseteq ToolName /\ ChainTools \subseteq ToolName
    /\ StatusTools \subseteq ToolName /\ {"get_account_info"} \subseteq ToolName
  BY DEF ToolName, AccountScoped, OrderTools, FillTools, HistoryTools, EventTools, ScanTools,
         ChainTools, StatusTools

LEMMA OrdersStay ==
    /\ OpenOrdersCall => Comes(OrderTools)
    /\ OpenOrdersOwn \/ OpenOrdersGateway => Stays(OrderTools)
<1> USE Homes, GoingStays, ConcludingStays, OpeningStays
<1>1. OpenOrdersCall => Comes(OrderTools)
  BY Coming, Named DEF OpenOrdersCall, CallOpenOrders, CallWhatIf, OrderTools
<1>2. OpenOrdersOwn => Stays(OrderTools)
  BY DEF OpenOrdersOwn, OpenOrdersOpen, OrdersTimeout, WhatIfOpen, WhatIfTimeout, OrderTools
<1>3. OpenOrdersGateway => Stays(OrderTools)
  BY DEF OpenOrdersGateway, OrdersMessage, OrdersEnd, OrdersClose, OrdersFail, WhatIfItem,
              WhatIfReply, WhatIfCloses, OrderTools
<1> QED
  BY <1>1, <1>2, <1>3

LEMMA FillsStay ==
    /\ FillsCall => Comes(FillTools)
    /\ FillsOwn \/ FillsGateway => Stays(FillTools)
<1>0. /\ \A p \in {"positions.stream", "positions.pnl"} :
            p \in Await /\ Home(p) = {"get_positions"}
      /\ "fills.stream" \in Await /\ Home("fills.stream") = {"get_executions"}
  BY Homes
<1>2. PositionsCollected \/ ExecutionsCollected => Stays(FillTools)
  <2>1. PositionsCollected => /\ pc = "positions.stream" /\ tool' = tool
                             /\ pc' \in {"done", "positions.pnl"}
    BY DEF PositionsCollected, frame
  <2>2. ExecutionsCollected => pc = "fills.stream" /\ tool' = tool /\ pc' = "done"
    BY DEF ExecutionsCollected, frame
  <2> QED
    BY <1>0, <2>1, <2>2 DEF Stays, FillTools
<1>3. \A pnl : PnlRow(pnl) => Stays(FillTools)
  <2>1. \A pnl : PnlRow(pnl) => /\ pc = "positions.pnl" /\ tool' = tool
                                /\ pc' \in {"done", "positions.pnl"}
    BY DEF PnlRow, frame
  <2> QED
    BY <1>0, <2>1 DEF Stays, FillTools
<1> USE Homes, GoingStays, ConcludingStays, OpeningStays
<1>1. FillsCall => Comes(FillTools)
  BY Coming, Named DEF FillsCall, CallPositions, CallExecutions, FillTools
<1>4. FillsOwn => Stays(FillTools)
  BY <1>2, <1>3 DEF FillsOwn, PositionsOpen, PositionsSilent, PnlMissing, ExecutionsOpen,
              ExecutionsSilent, FillTools
<1>5. PositionItem \/ FillItem \/ CommissionItem => Stays(FillTools)
  BY DEF PositionItem, FillItem, CommissionItem, FillTools
<1>6. FillsGateway => Stays(FillTools)
  BY <1>2, <1>3, <1>5 DEF FillsGateway, PositionEnd, PositionsFail, PnlReply, ExecutionsEnd,
              ExecutionsFail, FillTools
<1> QED
  BY <1>1, <1>4, <1>6

LEMMA HistoryStays ==
    /\ HistoryCall => Comes(HistoryTools)
    /\ HistoryOwn \/ HistoryGateway => Stays(HistoryTools)
<1> USE Homes, GoingStays, ConcludingStays, OpeningStays
<1>1. HistoryCall => Comes(HistoryTools)
  BY Coming, Named DEF HistoryCall, CallHistoricalData, CallMarketDataHistorical, CallIvRank,
              CallTicks, HistoryTools
<1>2. HistoryOwn => Stays(HistoryTools)
  BY DEF HistoryOwn, BarsOpen, BarsTimeout, IvOpen, IvTimeout, TicksOpen, TicksIdle, HistoryTools
<1>3. HistoryGateway => Stays(HistoryTools)
  BY DEF HistoryGateway, BarsReply, BarsFail, IvReply, IvFail, FetchBars, TicksItem,
              TicksEnd, TicksFail, TicksRefused, HistoryTools
<1> QED
  BY <1>1, <1>2, <1>3

LEMMA EventsStay ==
    /\ EventsCall => Comes(EventTools)
    /\ EventsOwn \/ EventsGateway => Stays(EventTools)
<1> USE Homes, GoingStays, ConcludingStays, OpeningStays
<1>1. EventsCall => Comes(EventTools)
  BY Coming, Named DEF EventsCall, CallEvents, EventTools
<1>2. EventsOwn => Stays(EventTools)
  BY DEF EventsOwn, EventsResolveTimeout, EventsOpen, EventsProbeTimeout, EventsTimeout,
              Probed, EventTools
<1>3. EventsGateway => Stays(EventTools)
  BY DEF EventsGateway, EventsResolve, EventsProbe, EventsFetch, Probed, EventTools
<1> QED
  BY <1>1, <1>2, <1>3

LEMMA ScannerStays ==
    /\ ScannerCall => Comes(ScanTools)
    /\ ScannerOwn \/ ScannerGateway => Stays(ScanTools)
<1> USE Homes, GoingStays, ConcludingStays, OpeningStays
<1>1. ScannerCall => Comes(ScanTools)
  BY Coming, Named DEF ScannerCall, CallScanner, ScanTools
<1>2. ScannerOwn => Stays(ScanTools)
  BY DEF ScannerOwn, ScanOpen, ScanSubscribeTimeout, ScanTimer, ScanFinishes, ScanFails,
              ScanOver, ScanTools
<1>3. ScannerGateway => Stays(ScanTools)
  BY DEF ScannerGateway, ScanSubscribed, ScanSubscribeFails, ScanBatch, ScanNotice,
              ScanEnd, ScanFail, ScanFinishes, ScanFails, ScanOver, ScanTools
<1> QED
  BY <1>1, <1>2, <1>3

LEMMA ChainsStay ==
    /\ ChainsCall => Comes(ChainTools)
    /\ ChainsOwn \/ ChainsGateway => Stays(ChainTools)
<1> USE Homes, GoingStays, ConcludingStays, OpeningStays
<1>1. ChainsCall => Comes(ChainTools)
  BY Coming, Named DEF ChainsCall, CallOptionChain, CallBulkQuotes, ChainTools
<1>2. ChainsOwn => Stays(ChainTools)
  BY DEF ChainsOwn, ChainOpen, BulkJoins, ChainTools
<1>3. ChainsGateway => Stays(ChainTools)
  BY DEF ChainsGateway, ChainResolved, ChainItem, ChainEnd, ChainFail, TaskEnds, ChainTools
<1> QED
  BY <1>1, <1>2, <1>3

LEMMA StatusStays ==
    /\ StatusCall => Comes(StatusTools)
    /\ StatusOwn \/ StatusOthers => Stays(StatusTools)
    /\ CallAccountInfo => Comes({"get_account_info"})
    /\ AccountInfo => Stays({"get_account_info"})
<1> USE Homes, GoingStays, ConcludingStays, OpeningStays
<1>1. StatusCall => Comes(StatusTools)
  BY Coming, Named DEF StatusCall, CallStatus, CallLastGood, StatusTools
<1>2. StatusOwn => Stays(StatusTools)
  BY DEF StatusOwn, StatusSlot, StatusFailures, StatusRecheck, StatusStarted, LastGoodGet,
         LastGoodAge, StatusTools
<1>3. StatusOthers => Stays(StatusTools)
  BY DEF StatusOthers, CanaryStores, PumpRecords, StatusTools
<1>4. CallAccountInfo => Comes({"get_account_info"})
  BY Coming, Named DEF CallAccountInfo
<1>5. AccountInfo => Stays({"get_account_info"})
  BY DEF AccountInfo
<1> QED
  BY <1>1, <1>2, <1>3, <1>4, <1>5

(* A call that arrives speaks too: it has heard nothing yet.               *)
LEMMA ComingSpeaks ==
    /\ \A t, a, to, start : to # "done" =>
         /\ Enters(t, a, to, start) => Speaks /\ heard' = heard
         /\ Arrives(t, a, to, start) => Speaks /\ heard' = heard
         /\ Gated(t, a, to, start) => Speaks /\ heard' = heard
    /\ \A t, a, why : Rejected(t, a, why) => Speaks /\ heard' = heard
<1>1. \A t, a, why : Rejected(t, a, why) => Speaks /\ heard' = heard
  BY Saying DEF Rejected, Speaks, Listens
<1>2. \A t, a, to, start : to # "done" /\ Enters(t, a, to, start) => Speaks /\ heard' = heard
  BY DEF Enters, Speaks, Listens
<1> QED
  BY <1>1, <1>2 DEF Arrives, Gated

LEMMA CallsSpeak == Calls => Speaks /\ heard' = heard
<1> USE ComingSpeaks
<1>1. CallAccountInfo => Speaks /\ heard' = heard
  BY DEF CallAccountInfo
<1>2. OpenOrdersCall \/ FillsCall => Speaks /\ heard' = heard
  BY DEF OpenOrdersCall, CallOpenOrders, CallWhatIf, FillsCall, CallPositions, CallExecutions
<1>3. HistoryCall \/ EventsCall => Speaks /\ heard' = heard
  BY DEF HistoryCall, CallHistoricalData, CallMarketDataHistorical, CallIvRank, CallTicks,
         EventsCall, CallEvents
<1>4. ScannerCall => Speaks /\ heard' = heard
  BY DEF ScannerCall, CallScanner
<1>5. ChainsCall => Speaks /\ heard' = heard
  BY DEF ChainsCall, CallOptionChain, CallBulkQuotes
<1>6. StatusCall => Speaks /\ heard' = heard
  BY DEF StatusCall, CallStatus, CallLastGood
<1> QED
  BY <1>1, <1>2, <1>3, <1>4, <1>5, <1>6 DEF Calls

-----------------------------------------------------------------------------
(* The steps of the next-state relation, by tool.                          *)
Working == Own \/ Gateway \/ StatusOthers

LEMMA WorkingStays == Working => Stays(ToolName) /\ Speaks
<1>1. \A T : T \subseteq ToolName => (Stays(T) => Stays(ToolName))
  BY DEF Stays
<1> QED
  BY <1>1, Named, OrdersStay, FillsStay, HistoryStays, EventsStay, ScannerStays, ChainsStay,
     StatusStays, OrdersSpeak, FillsSpeak, HistorySpeaks, EventsSpeak, ScannerSpeaks,
     ChainsSpeak, StatusSpeaks, Zenon DEF Working, Own, Gateway

LEMMA CallsCome == Calls => Comes(ToolName) /\ Speaks /\ heard' = heard
<1>1. \A T : T \subseteq ToolName => (Comes(T) => Comes(ToolName))
  BY DEF Comes
<1> QED
  BY <1>1, Named, OrdersStay, FillsStay, HistoryStays, EventsStay, ScannerStays, ChainsStay,
     StatusStays, CallsSpeak, Zenon DEF Calls

LEMMA HeardNext ==
    ASSUME CallInv, pc \notin Overheard \/ heard' = heard, Listens,
           heard' = heard => pc \notin Overheard \/ pc' \in Overheard
    PROVE  /\ IsSeq(heard') /\ Len(heard') <= Patience + 1
           /\ pc' \notin Overheard => Len(heard') <= Patience
<1>1. CASE heard' = heard
  BY <1>1 DEF CallInv
<1>2. ASSUME NEW x, heard' = Append(heard, x), Len(heard) < Patience \/ pc' \in Overheard,
             pc \notin Overheard
      PROVE  /\ IsSeq(heard') /\ Len(heard') <= Patience + 1
             /\ pc' \notin Overheard => Len(heard') <= Patience
  <2>1. Len(heard) <= Patience
    BY <1>2 DEF CallInv
  <2>2. IsSeq(heard') /\ Len(heard) \in Nat /\ Len(heard') = Len(heard) + 1
    BY <1>2, Appending DEF CallInv
  <2> QED
    BY <1>2, <2>1, <2>2, BoundAssumption
<1> QED
  BY <1>1, <1>2 DEF Listens

(* Nothing is heard in the one await behind which items may be one too     *)
(* many, and that await is left for the answer only.                       *)
LEMMA Deaf == Working /\ pc = "positions.pnl" => heard' = heard /\ pc' \in Overheard
<1> SUFFICES ASSUME Working, pc = "positions.pnl" PROVE heard' = heard /\ pc' \in Overheard
  OBVIOUS
<1>1. \A pnl : PnlRow(pnl) => heard' = heard /\ pc' \in Overheard
  BY DEF PnlRow, Overheard
<1>2. PnlReply \/ PnlMissing
  <2>1. ~Stays({t \in ToolName : t # "get_positions"})
    BY Homes DEF Stays
  <2>2. ~Stays(OrderTools) /\ ~Stays(HistoryTools) /\ ~Stays(EventTools) /\ ~Stays(ScanTools)
        /\ ~Stays(ChainTools) /\ ~Stays(StatusTools) /\ ~Stays({"get_account_info"})
    BY Homes DEF Stays, OrderTools, HistoryTools, EventTools, ScanTools, ChainTools, StatusTools
  <2>3. FillsOwn \/ FillsGateway
    BY <2>2, OrdersStay, HistoryStays, EventsStay, ScannerStays, ChainsStay, StatusStays,
       Zenon DEF Working, Own, Gateway
  <2> QED
    BY <2>3 DEF FillsOwn, FillsGateway, PositionsOpen, PositionsSilent, ExecutionsOpen,
       ExecutionsSilent, PositionItem, PositionEnd, PositionsFail, FillItem, CommissionItem,
       ExecutionsEnd, ExecutionsFail, PositionsCollected, ExecutionsCollected, Opens, Goes,
       Answers, Concludes, Fails, Hears
<1> QED
  BY <1>1, <1>2 DEF PnlReply, PnlMissing

LEMMA CallInit == Init => CallInv
  BY EmptyIsSeq, BoundAssumption, Homes DEF Init, CallInv, Placed, Overheard

LEMMA CallNext == CallInv /\ [Next]_vars => CallInv'
<1> SUFFICES ASSUME CallInv, [Next]_vars PROVE CallInv'
  OBVIOUS
<1>0. pc \in Await <=> pc \notin {"ready", "done"}
  BY Homes DEF CallInv, Placed
<1>1. CASE Working
  <2>1. Stays(ToolName) /\ Speaks /\ pc \in Await /\ pc # "done"
    BY <1>1, Homes, WorkingStays DEF Stays
  <2>2. /\ IsSeq(heard') /\ Len(heard') <= Patience + 1
        /\ pc' \notin Overheard => Len(heard') <= Patience
    BY <1>1, <2>1, Deaf, HeardNext DEF Overheard, Speaks
  <2>3. Placed'
    BY <2>1, Homes, NoneAssumption DEF Stays, CallInv, Placed
  <2>4. pc' # "ready"
    BY <2>1, Homes DEF Stays
  <2> QED
    BY <2>1, <2>2, <2>3, <2>4 DEF CallInv, Speaks
<1>2. CASE Calls
  <2>1. Comes(ToolName) /\ Speaks /\ heard' = heard /\ pc = "ready"
    BY <1>2, CallsCome DEF Comes
  <2>2. /\ IsSeq(heard') /\ Len(heard') <= Patience + 1
        /\ pc' \notin Overheard => Len(heard') <= Patience
    BY <2>1 DEF CallInv, Overheard
  <2>3. None \notin ToolName
    BY NoneAssumption
  <2>4. /\ tool' \in ToolName /\ tool' # None /\ pc' # "ready"
        /\ pc' # "done" => pc' \in Await /\ tool' \in Home(pc')
    BY <2>1, <2>3, Homes DEF Comes
  <2>5. Placed'
    BY <2>4, Homes DEF Placed
  <2> QED
    BY <2>1, <2>2, <2>4, <2>5 DEF CallInv, Speaks
<1>3. CASE UNCHANGED call
  BY <1>3 DEF call, frame, CallInv, Placed
<1>4. CASE Sent
  BY <1>4, EmptyIsSeq, BoundAssumption, Homes DEF Sent, CallInv, Placed, Overheard
<1>5. ScannerPeers \/ UNCHANGED vars => UNCHANGED call
  BY DEF ScannerPeers, PeerStarts, PeerEnds, GhostCloses, vars, call, frame
<1> QED
  BY <1>1, <1>2, <1>3, <1>4, <1>5 DEF Next, Working

-----------------------------------------------------------------------------
(* Permits and peers stay within the limit because they add up to it with  *)
(* the scan that is followed.                                              *)
GhostInv == ghosts \in 0..MaxGhosts
FlagInv == gate \subseteq Flag /\ spoken \subseteq Flag

LEMMA GhostNext == GhostInv /\ [Next]_vars => GhostInv'
<1> SUFFICES ASSUME GhostInv, [Next]_vars PROVE GhostInv'
  OBVIOUS
<1>0. MaxGhosts \in Nat
  BY ScannerAssumption
<1>1. CASE UNCHANGED ghosts
  BY <1>1 DEF GhostInv
<1>2. CASE ScannerPeers
  BY <1>0, <1>2 DEF ScannerPeers, PeerStarts, PeerEnds, GhostCloses, GhostInv
<1>3. CASE ScannerCall \/ ScannerOwn \/ ScannerGateway
  <2>1. ScanSubscribeTimeout => GhostInv'
    BY <1>0 DEF ScanSubscribeTimeout, GhostInv
  <2>2. ScannerCall => UNCHANGED ghosts
    BY DEF ScannerCall, CallScanner, Rejected, scans
  <2>3. ScanOpen \/ ScanTimer => UNCHANGED ghosts
    BY DEF ScanOpen, ScanTimer, ScanFinishes, ScanFails, Goes, scans
  <2>4. ScannerGateway => UNCHANGED ghosts
    BY DEF ScannerGateway, ScanSubscribed, ScanSubscribeFails, ScanBatch, ScanNotice, ScanEnd,
           ScanFail, ScanFinishes, ScanFails, Goes, scans
  <2> QED
    BY <1>1, <1>3, <2>1, <2>2, <2>3, <2>4 DEF ScannerOwn
<1>4. Quiet \/ UNCHANGED vars => UNCHANGED ghosts
  BY DEF Quiet, vars, scans
<1>5. Next => Quiet \/ ScannerPeers \/ ScannerCall \/ ScannerOwn \/ ScannerGateway
  BY QuietOrders, QuietFills, QuietHistory, QuietEvents, QuietChains, QuietStatus, QuietFrame,
     Zenon DEF Next, Calls, Own, Gateway
<1> QED
  BY <1>1, <1>2, <1>3, <1>4, <1>5

LEMMA FlagInit == Init => FlagInv
  BY DEF Init, FlagInv, FromConfig, LastWord

LEMMA FlagNext == FlagInv /\ [Next]_vars => FlagInv'
<1>1. Admits \/ Works \/ Sent \/ ScannerPeers \/ UNCHANGED vars => UNCHANGED <<gate, spoken>>
  BY DEF Admits, Works, Sent, ScannerPeers, PeerStarts, PeerEnds, GhostCloses, vars, call, frame
<1>2. [Next]_vars => UNCHANGED <<gate, spoken>>
  BY <1>1, Admission, OrdersWork, FillsWork, HistoryWorks, EventsWork, ScannerWorks,
     ChainsWork, StatusWorks, Zenon DEF Next, Own, Gateway
<1> QED
  BY <1>2 DEF FlagInv

(* Every reachable state of the tools is well typed: each call is at an    *)
(* await of its tool, and has an answer exactly when it is done.           *)
THEOREM CallsTypeCorrect == Spec => []TypeOK
<1>1. Init => PermitInv /\ CallInv /\ GhostInv /\ FlagInv
  BY PermitInit, CallInit, FlagInit, ScannerAssumption DEF Init, GhostInv
<1>2. PermitInv /\ CallInv /\ GhostInv /\ FlagInv => TypeOK
  <2> SUFFICES ASSUME PermitInv, CallInv, GhostInv, FlagInv PROVE TypeOK
    OBVIOUS
  <2>1. permits \in 0..MaxScans /\ peers \in 0..MaxScans
    BY BoundAssumption DEF PermitInv, PermitsAccounted
  <2> QED
    BY <2>1 DEF CallInv, Placed, GhostInv, FlagInv, TypeOK, IsAnswer
<1> QED
  BY <1>1, <1>2, PermitNext, CallNext, GhostNext, FlagNext, PTL DEF Spec

-----------------------------------------------------------------------------
(* Which steps a property of one tool has to look at: its own, and those   *)
(* that leave the call alone.                                              *)
OrderSteps == OpenOrdersCall \/ OpenOrdersOwn \/ OpenOrdersGateway
FillSteps == FillsCall \/ FillsOwn \/ FillsGateway
HistorySteps == HistoryCall \/ HistoryOwn \/ HistoryGateway
EventSteps == EventsCall \/ EventsOwn \/ EventsGateway
ScanSteps == ScannerCall \/ ScannerOwn \/ ScannerGateway
ChainSteps == ChainsCall \/ ChainsOwn \/ ChainsGateway
StatusSteps == StatusCall \/ StatusOwn \/ StatusOthers

LEMMA ByTool ==
    ASSUME CallInv, [Next]_vars
    PROVE  \/ UNCHANGED call \/ tool' = None
           \/ OrderSteps /\ tool' \in OrderTools
           \/ FillSteps /\ tool' \in FillTools
           \/ HistorySteps /\ tool' \in HistoryTools
           \/ EventSteps /\ tool' \in EventTools
           \/ ScanSteps /\ tool' \in ScanTools
           \/ ChainSteps /\ tool' \in ChainTools
           \/ StatusSteps /\ tool' \in StatusTools
           \/ (CallAccountInfo \/ AccountInfo) /\ tool' = "get_account_info"
<1>1. \A T : Stays(T) \/ Comes(T) => tool' \in T
  BY DEF Stays, Comes, CallInv, Placed
<1>2. ScannerPeers \/ UNCHANGED vars => UNCHANGED call
  BY DEF ScannerPeers, PeerStarts, PeerEnds, GhostCloses, vars, call, frame
<1>3. Sent => tool' = None
  BY DEF Sent
<1>4. CallAccountInfo \/ AccountInfo => tool' = "get_account_info"
  BY <1>1, StatusStays
<1>5. /\ OrderSteps => tool' \in OrderTools
      /\ FillSteps => tool' \in FillTools
      /\ HistorySteps => tool' \in HistoryTools
      /\ EventSteps => tool' \in EventTools
      /\ ScanSteps => tool' \in ScanTools
      /\ ChainSteps => tool' \in ChainTools
      /\ StatusSteps => tool' \in StatusTools
  BY <1>1, OrdersStay, FillsStay, HistoryStays, EventsStay, ScannerStays, ChainsStay, StatusStays,
     Zenon DEF OrderSteps, FillSteps, HistorySteps, EventSteps, ScanSteps, ChainSteps, StatusSteps
<1>6. \/ Next \/ UNCHANGED vars
  OBVIOUS
<1>7. Next => \/ OrderSteps \/ FillSteps \/ HistorySteps \/ EventSteps \/ ScanSteps \/ ChainSteps
              \/ StatusSteps \/ CallAccountInfo \/ AccountInfo \/ ScannerPeers \/ Sent
  BY Zenon DEF Next, Calls, Own, Gateway, OrderSteps, FillSteps, HistorySteps, EventSteps,
     ScanSteps, ChainSteps, StatusSteps
<1> QED
  BY <1>2, <1>3, <1>4, <1>5, <1>6, <1>7, Zenon

LEMMA Disjoint ==
    /\ \A t \in OrderTools : t \in ToolName /\ t \notin FillTools \cup HistoryTools \cup EventTools
         \cup ScanTools \cup ChainTools \cup StatusTools \cup {None, "get_account_info"}
    /\ \A t \in FillTools : t \in ToolName /\ t \notin HistoryTools \cup EventTools
         \cup ScanTools \cup ChainTools \cup StatusTools \cup {None, "get_account_info"}
    /\ \A t \in HistoryTools : t \in ToolName /\ t \notin EventTools
         \cup ScanTools \cup ChainTools \cup StatusTools \cup {None, "get_account_info"}
    /\ \A t \in EventTools : t \in ToolName /\ t \notin ScanTools \cup ChainTools \cup StatusTools
                                   \cup {None, "get_account_info"}
    /\ \A t \in ScanTools : t \in ToolName /\ t \notin ChainTools \cup StatusTools
                                   \cup {None, "get_account_info"}
    /\ \A t \in ChainTools : t \in ToolName /\ t \notin StatusTools \cup {None, "get_account_info"}
    /\ \A t \in StatusTools : t \in ToolName /\ t \notin {None, "get_account_info"}
<1>1. None \notin ToolName
  BY NoneAssumption
<1> QED
  BY <1>1, Named DEF OrderTools, FillTools, HistoryTools, EventTools, ScanTools, ChainTools,
     StatusTools

LEMMA OwnSteps ==
    ASSUME CallInv, [Next]_vars, ~UNCHANGED call
    PROVE  /\ tool' \in OrderTools => OrderSteps
           /\ tool' \in FillTools => FillSteps
           /\ tool' \in HistoryTools => HistorySteps
           /\ tool' \in EventTools => EventSteps
           /\ tool' \in ScanTools => ScanSteps
           /\ tool' \in ChainTools => ChainSteps
           /\ tool' \in StatusTools => StatusSteps
  BY ByTool, Disjoint

(* What is heard stays heard.                                              *)
LEMMA HeardAppend ==
    ASSUME IsSeq(heard), NEW x, heard' = Append(heard, x)
    PROVE  /\ \A k : Heard(k)' = IF x.kind = k THEN Heard(k) \cup {Len(heard) + 1} ELSE Heard(k)
           /\ \A k : \A i \in Heard(k) : i \in 1..Len(heard) /\ heard'[i] = heard[i]
           /\ heard'[Len(heard) + 1] = x
           /\ \A k : Len(heard) + 1 \notin Heard(k)
<1>1. /\ Len(heard) \in Nat /\ DOMAIN heard = 1..Len(heard) /\ DOMAIN heard' = 1..(Len(heard) + 1)
      /\ \A i \in 1..Len(heard) : heard'[i] = heard[i]
      /\ heard'[Len(heard) + 1] = x
  BY Appending
<1>2. ASSUME NEW k
      PROVE  Heard(k)' = IF x.kind = k THEN Heard(k) \cup {Len(heard) + 1} ELSE Heard(k)
  <2>1. Heard(k)' = {i \in 1..(Len(heard) + 1) : heard'[i].kind = k}
    BY <1>1 DEF Heard
  <2>2. Heard(k) = {i \in 1..Len(heard) : heard[i].kind = k}
    BY <1>1 DEF Heard
  <2>3. 1..(Len(heard) + 1) = 1..Len(heard) \cup {Len(heard) + 1}
    BY <1>1
  <2> QED
    BY <1>1, <2>1, <2>2, <2>3
<1>3. \A k : \A i \in Heard(k) : i \in 1..Len(heard)
  BY <1>1 DEF Heard
<1> QED
  BY <1>1, <1>2, <1>3

LEMMA HeardNothing == heard = <<>> => \A k : Heard(k) = {}
  BY EmptyIsSeq DEF Heard

-----------------------------------------------------------------------------
(* What an answer is.                                                      *)
LEMMA NotOk == \A why : Failure(why).ok = FALSE
  BY DEF Failure
LEMMA BodyOf == \A b : Success(b).ok = TRUE /\ Success(b).body = b
  BY DEF Success

(* A handler that gives up claims nothing.                                 *)
GivesUp == pc' = "done" /\ answer'.ok = FALSE /\ UNCHANGED heard

LEMMA GivingUp ==
    /\ \A t, a, why : Rejected(t, a, why) => GivesUp
    /\ \A from, why : Answers(from, Failure(why)) => GivesUp
    /\ \A from : Fails(from) \/ TimesOut(from) => GivesUp
    /\ \A from, to : Opens(from, to) => GivesUp \/ (Goes(from, to) /\ UNCHANGED <<heard, acc>>)
  BY NotOk DEF GivesUp, Rejected, Answers, Concludes, Fails, TimesOut, Opens
=============================================================================
