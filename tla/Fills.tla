-------------------------------- MODULE Fills --------------------------------
(***************************************************************************)
(* Positions and executions (src/src/ibkr/account.rs): two reads that      *)
(* collect a stream until it ends or falls silent.  The first then asks    *)
(* for the profit and loss of each position, the second attaches each      *)
(* commission to its fill.                                                 *)
(*                                                                         *)
(* A position is an account and a contract; its size, prices and names are *)
(* left out.  Of a fill remain its id and the exchange-local day in its    *)
(* time, of its commission report that there is one.                       *)
(***************************************************************************)
EXTENDS ToolCall

CONSTANTS
    Contract,    \* contracts held in positions
    Fill,        \* execution ids
    DayOf        \* the exchange-local day of each fill

ASSUME DayAssumption == DayOf \in [Fill -> Nat]

-----------------------------------------------------------------------------
(* get_positions.                                                          *)

CallPositions == \E a \in AccountArg :
    Gated("get_positions", [account |-> a], "positions.open", [rows |-> <<>>, next |-> 1])

PositionsOpen == Opens("positions.open", "positions.stream")

MutantWanted(account) == TRUE
Wanted(account) == args.account \in {None, account}

PositionItem == \E a \in Account, c \in Contract :
    LET x == [kind |-> "position", account |-> a, contract |-> c]
    IN  /\ \A i \in DOMAIN heard : heard[i] # x
        /\ Hears("positions.stream", x)
        /\ Goes("positions.stream", "positions.stream")
        /\ acc' = IF Wanted(a)
                  THEN [acc EXCEPT !.rows =
                          Append(@, [account |-> a, contract |-> c, pnl |-> None])]
                  ELSE acc

(* After the collection comes the enrichment, unless there are no rows.    *)
PositionsCollected ==
    /\ pc = "positions.stream"
    /\ IF acc.rows = <<>>
       THEN pc' = "done" /\ answer' = Success(<<>>)
       ELSE pc' = "positions.pnl" /\ UNCHANGED answer
    /\ UNCHANGED <<frame, acc, scans>>

(* The end marker or a stream closed with its session; silence does the    *)
(* same (PositionsSilent), so none of them tells a complete list.          *)
PositionEnd == PositionsCollected /\ HeardLast([kind |-> "end"])
PositionsFail == Fails("positions.stream")

(* Half a second without an item once there are rows, or five in all: the  *)
(* collection ends here too, without an error.                             *)
PositionsSilent == PositionsCollected /\ UNCHANGED heard

(* pnl_single for the next row, always for the account of the first row.   *)
PnlRow(pnl) ==
    LET rows == [acc.rows EXCEPT ![acc.next].pnl = pnl]
    IN  /\ pc = "positions.pnl"
        /\ IF acc.next = Len(rows)
           THEN pc' = "done" /\ answer' = Success(rows) /\ UNCHANGED acc
           ELSE /\ acc' = [rows |-> rows, next |-> acc.next + 1]
                /\ UNCHANGED <<pc, answer>>
        /\ UNCHANGED <<frame, heard, scans>>

PnlReply == PnlRow([account |-> acc.rows[1].account,
                    contract |-> acc.rows[acc.next].contract])

(* The request fails, or three seconds pass: the row keeps its zeros.      *)
PnlMissing == PnlRow(None)

-----------------------------------------------------------------------------
(* get_executions.  `since' is a day; without one nothing is filtered.     *)

CallExecutions == \E a \in AccountArg, s \in {None} \cup {DayOf[f] : f \in Fill} :
    Gated("get_executions", [account |-> a, since |-> s], "fills.open", <<>>)

ExecutionsOpen == Opens("fills.open", "fills.stream")

MutantFillKey(x) == "order"
FillKey(x) == x.fill

FillItem == \E f \in Fill :
    LET x == [kind |-> "fill", fill |-> f]
    IN  /\ Hears("fills.stream", x)
        /\ Goes("fills.stream", "fills.stream")
        /\ acc' = Insert(acc, FillKey(x), [fill |-> f, charged |-> FALSE])

(* A report for a fill that has not arrived is dropped.                    *)
CommissionItem == \E f \in Fill :
    LET x == [kind |-> "commission", fill |-> f]
    IN  /\ Hears("fills.stream", x)
        /\ Goes("fills.stream", "fills.stream")
        /\ acc' = IF FillKey(x) \in DOMAIN acc
                  THEN [acc EXCEPT ![FillKey(x)].charged = TRUE] ELSE acc

(* Newest first; the filter compares days of different clocks, the local   *)
(* one of the exchange and the UTC one of `since'.                         *)
SinceFilter(e) == args.since = None \/ DayOf[e.fill] >= args.since
Executions(map) ==
    {s \in [1..Cardinality({k \in DOMAIN map : SinceFilter(map[k])}) -> {map[k] : k \in DOMAIN map}] :
        /\ \A k \in DOMAIN map : SinceFilter(map[k]) => \E i \in DOMAIN s : s[i] = map[k]
        /\ \A i \in DOMAIN s : SinceFilter(s[i])
        /\ \A i, j \in DOMAIN s : i < j => DayOf[s[i].fill] >= DayOf[s[j].fill]}

ExecutionsCollected ==
    /\ pc = "fills.stream" /\ pc' = "done"
    /\ \E s \in Executions(acc) : answer' = Success(s)
    /\ UNCHANGED <<frame, acc, scans>>

(* The end marker, or the stream closed with its session: taken alike.     *)
ExecutionsEnd == ExecutionsCollected /\ HeardLast([kind |-> "end"])
ExecutionsSilent == ExecutionsCollected /\ UNCHANGED heard
ExecutionsFail == Fails("fills.stream")

-----------------------------------------------------------------------------
FillsCall == CallPositions \/ CallExecutions
FillsOwn == PositionsOpen \/ PositionsSilent \/ PnlMissing
            \/ ExecutionsOpen \/ ExecutionsSilent
FillsGateway == PositionItem \/ PositionEnd \/ PositionsFail \/ PnlReply
                \/ FillItem \/ CommissionItem \/ ExecutionsEnd \/ ExecutionsFail

-----------------------------------------------------------------------------
(* Properties.                                                             *)

(* The profit and loss in a row is that of its own contract in its own     *)
(* account, or missing, whenever the call names an account; a call for all *)
(* accounts gets the figures of the first row's account in every row, and  *)
(* no row of another account is ever in the answer to a call for one.      *)
OwnPnl ==
    pc = "done" /\ tool = "get_positions" /\ answer.ok =>
      \A i \in DOMAIN answer.body : LET row == answer.body[i] IN
        /\ args.account \in {None, row.account}
        /\ row.pnl # None => /\ row.pnl.contract = row.contract
                             /\ row.pnl.account = answer.body[1].account

(* The last the gateway said about the fill is its commission.             *)
Charged(f) ==
    \E i \in Heard("commission") :
      /\ heard[i].fill = f
      /\ \A j \in Heard("fill") : heard[j].fill = f => j < i

(* Whatever the interleaving of fills, repeated fills and reports, each    *)
(* fill heard and not filtered is in the answer once, so that the totals   *)
(* the tool adds up count nothing twice.  It has its commission exactly if *)
(* that is the last that was said about it: a report ahead of its fill is  *)
(* dropped (account.rs:600), and one that came is lost when its fill is    *)
(* sent again (597).  Totals may lose commissions, then, though both were  *)
(* collected, as PLAN-executions-pnl.md:85 asks, and have the same id.     *)
EveryFillOnce ==
    pc = "done" /\ tool = "get_executions" /\ answer.ok =>
      LET told == {heard[i].fill : i \in Heard("fill")}
          kept == {f \in told : args.since = None \/ DayOf[f] >= args.since}
      IN  /\ Len(answer.body) = Cardinality(kept)
          /\ {answer.body[i] : i \in DOMAIN answer.body}
               = {[fill |-> f, charged |-> Charged(f)] : f \in kept}
          /\ \A i, j \in DOMAIN answer.body :
               i < j => DayOf[answer.body[i].fill] >= DayOf[answer.body[j].fill]
=============================================================================
