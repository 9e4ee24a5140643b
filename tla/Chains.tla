-------------------------------- MODULE Chains --------------------------------
(***************************************************************************)
(* The two market data reads that are not quotes                           *)
(* (src/src/ibkr/market_data.rs): the option chain, which no timer         *)
(* guards, and bulk quotes, one task per symbol.  What a task does is      *)
(* get_quote, the subject of MarketData; here it ends with a quote, an     *)
(* error or a panic, at any moment and in any order.                       *)
(***************************************************************************)
EXTENDS ToolCall

CONSTANTS
    Exchange,    \* exchanges that list options
    Symbols      \* the symbols of a bulk call, a sequence

ASSUME BulkAssumption == Symbols \in Seq(STRING) /\ Len(Symbols) \in 1..Patience

-----------------------------------------------------------------------------
(* get_option_chain: two requests, neither of which has a timeout.         *)

CallOptionChain == Arrives("get_option_chain", None, "chain.open", None)

ChainOpen ==
    \/ Goes("chain.open", "chain.resolve") /\ UNCHANGED <<heard, acc>>
    \/ Answers("chain.open", Failure("not connected"))

ChainResolved ==
    \/ Goes("chain.resolve", "chain.stream") /\ UNCHANGED <<heard, acc>>
    \/ \E why \in {"error", "no contract"} : Answers("chain.resolve", Failure(why))

(* One item per exchange; each replaces the one before.                    *)
ChainItem == \E x \in Exchange :
    /\ Hears("chain.stream", [kind |-> "chain", exchange |-> x])
    /\ Goes("chain.stream", "chain.stream")
    /\ acc' = x

(* The end marker, or the stream closed with its session: taken alike.     *)
ChainEnd == Settles("chain.stream", [kind |-> "end"],
                    IF acc = None THEN Failure("no data") ELSE Success(acc))

ChainFail == Fails("chain.stream")

-----------------------------------------------------------------------------
(* get_bulk_quotes.                                                        *)

CallBulkQuotes == Arrives("get_bulk_quotes", None, "bulk.join", None)

TaskEnds == \E i \in DOMAIN Symbols, outcome \in {"quote", "error", "panic"} :
    /\ Hears("bulk.join", [kind |-> "task", task |-> i, outcome |-> outcome])
    /\ \A n \in DOMAIN heard : heard[n].task # i
    /\ Goes("bulk.join", "bulk.join")
    /\ UNCHANGED acc

Result(x) == [symbol |-> IF x.outcome = "panic" THEN "" ELSE Symbols[x.task],
              ok |-> x.outcome = "quote"]

(* The tasks are joined in the order they were spawned.                    *)
MutantJoined(i) == Result(heard[i])
Joined(i) == Result(heard[CHOOSE n \in DOMAIN heard : heard[n].task = i])

BulkJoins ==
    /\ pc = "bulk.join" /\ Len(heard) = Len(Symbols)
    /\ Answers("bulk.join", Success([i \in DOMAIN Symbols |-> Joined(i)]))

-----------------------------------------------------------------------------
ChainsCall == CallOptionChain \/ CallBulkQuotes
ChainsOwn == ChainOpen \/ BulkJoins
ChainsGateway == ChainResolved \/ ChainItem \/ ChainEnd \/ ChainFail \/ TaskEnds

-----------------------------------------------------------------------------
(* Properties.                                                             *)

(* However the tasks finish, the n-th result of a bulk call is that of the *)
(* n-th symbol: a task that fails or panics costs the others nothing.      *)
BulkInOrder ==
    pc = "done" /\ tool = "get_bulk_quotes" =>
      /\ Len(answer.body) = Len(Symbols)
      /\ \A i \in DOMAIN heard :
           LET r == answer.body[heard[i].task]
           IN  /\ r.ok <=> heard[i].outcome = "quote"
               /\ heard[i].outcome # "panic" => r.symbol = Symbols[heard[i].task]
=============================================================================
