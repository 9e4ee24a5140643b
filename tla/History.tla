------------------------------- MODULE History -------------------------------
(***************************************************************************)
(* Historical bars, IV rank and ticks (src/src/ibkr/history.rs, and the    *)
(* "historical" branch of market_data.rs).                                 *)
(*                                                                         *)
(* A bar is a day and a close, a close of 0 standing for every value that  *)
(* is not positive and finite.  A rank is a pair of numerator and          *)
(* denominator, times 100 in the code.  The parsers of dates, durations    *)
(* and bar sizes are reduced to whether they accept their input.           *)
(***************************************************************************)
EXTENDS ToolCall

CONSTANTS
    Days,        \* bound: the days of a series are 1..Days
    TopClose     \* bound: closes are 0..TopClose

ASSUME HistoryAssumption == Days \in Nat \ {0} /\ TopClose \in Nat \ {0}

Bar == [day : 1..Days, close : 0..TopClose]

(* What the gateway may answer: at most one bar a day, in any order.       *)
Reply == UNION {{s \in [1..n -> Bar] : \A i, j \in 1..n : s[i].day = s[j].day => i = j} :
                n \in 0..Days}

-----------------------------------------------------------------------------
(* fetch_bars, which all three readers of bars share, sorts by date.       *)

MutantToSeries(bars) == bars
ToSeries(bars) == SortedBy(bars, [i \in DOMAIN bars |-> bars[i].day])

FetchBars(at, bars, a) == Settles(at, [kind |-> "bars", bars |-> bars], a)

CallHistoricalData ==
    \/ Arrives("get_historical_data", None, "bars.open", None)
    \/ Rejected("get_historical_data", None, "invalid")

CallMarketDataHistorical ==
    \/ \E valid \in BOOLEAN :
         Arrives("get_market_data", [valid |-> valid], "bars.open", None)
    \/ Rejected("get_market_data", None, "unsupported data_type")

(* The client comes first, and then, in the older path of get_market_data, *)
(* the duration.                                                           *)
BarsOpen ==
    /\ pc = "bars.open"
    /\ \/ /\ args # None /\ ~args.valid
          /\ \E why \in {"not connected", "invalid"} : Answers("bars.open", Failure(why))
       \/ (args # None => args.valid) /\ Opens("bars.open", "bars.fetch")

BarsReply == \E bars \in Reply : FetchBars("bars.fetch", bars, Success(ToSeries(bars)))
BarsFail == Fails("bars.fetch")
BarsTimeout == TimesOut("bars.fetch")

-----------------------------------------------------------------------------
(* compute_iv_rank over the last `window' positive closes.                 *)

SetMin(S) == CHOOSE v \in S : \A w \in S : v <= w
SetMax(S) == CHOOSE v \in S : \A w \in S : v >= w

(* The positions of the last `window' values that are positive.            *)
LastValues(closes, window) ==
    LET vals == {i \in DOMAIN closes : closes[i] > 0}
    IN  {i \in vals : Cardinality({j \in vals : j > i}) < window}

IvRank(closes, window) ==
    LET slice == LastValues(closes, window)
        iv == closes[SetMax(slice)]
        low == SetMin({closes[i] : i \in slice})
        high == SetMax({closes[i] : i \in slice})
    IN  [iv |-> iv, low |-> low, high |-> high,
         rank |-> IF high > low THEN <<iv - low, high - low>> ELSE <<0, 1>>,
         percentile |-> <<Cardinality({i \in slice : closes[i] < iv}), Cardinality(slice)>>]

IvAnswer(bars) ==
    IF \A i \in DOMAIN bars : bars[i].close = 0
    THEN Failure("insufficient data")
    ELSE Success([stats |-> IvRank([i \in DOMAIN bars |-> bars[i].close], args.window),
                  first |-> bars[1].day, last |-> bars[Len(bars)].day])

CallIvRank ==
    \/ \E w \in 1..Days : Arrives("get_iv_rank", [window |-> w], "iv.open", None)
    \/ Rejected("get_iv_rank", None, "invalid window")

IvOpen == Opens("iv.open", "iv.fetch")
IvReply == \E bars \in Reply : FetchBars("iv.fetch", bars, IvAnswer(ToSeries(bars)))
IvFail == Fails("iv.fetch")
IvTimeout == TimesOut("iv.fetch")

-----------------------------------------------------------------------------
(* get_historical_ticks: only the stream is under a timeout, each wait for *)
(* an item by itself, and silence is the end of the data.                  *)

CallTicks ==
    \/ Arrives("get_historical_ticks", None, "ticks.open", 0)
    \/ Rejected("get_historical_ticks", None, "no time anchor")

TicksOpen == Opens("ticks.open", "ticks.stream")

TicksItem ==
    /\ Goes("ticks.stream", "ticks.stream")
    /\ \/ Hears("ticks.stream", [kind |-> "tick"]) /\ acc' = acc + 1
       \/ Hears("ticks.stream", [kind |-> "notice"]) /\ UNCHANGED acc

(* No ticks is no success, with the status no_data.                        *)
DrainTicks == IF acc > 0 THEN Success(acc) ELSE Failure("no_data")

(* The end marker, or the stream closed with its session: taken alike.     *)
TicksEnd == Settles("ticks.stream", [kind |-> "end"], DrainTicks)

TicksFail == Fails("ticks.stream")
TicksRefused == Answers("ticks.stream", Failure("subscription required"))
MutantTicksIdle == pc = "ticks.stream" /\ acc > 0 /\ Answers("ticks.stream", DrainTicks)
TicksIdle == Answers("ticks.stream", DrainTicks)

-----------------------------------------------------------------------------
HistoryCall == CallHistoricalData \/ CallMarketDataHistorical \/ CallIvRank \/ CallTicks
HistoryOwn == BarsOpen \/ BarsTimeout \/ IvOpen \/ IvTimeout \/ TicksOpen \/ TicksIdle
HistoryGateway == BarsReply \/ BarsFail \/ IvReply \/ IvFail
                  \/ TicksItem \/ TicksEnd \/ TicksFail \/ TicksRefused

-----------------------------------------------------------------------------
(* Properties.                                                             *)

(* The days with an observation, and the most recent `n' of them.          *)
Observed(S) == {b \in S : b.close > 0}
Recent(S, n) == {b \in S : Cardinality({c \in S : c.day > b.day}) < n}

(* The statistics are those of the most recent observations among the bars *)
(* sent: the current IV is the latest positive close, its rank and         *)
(* percentile refer to at most `asked' of them, and the period is that of  *)
(* all bars, which may end later than the observation.                     *)
IvFaithful(sent, asked, body) ==
    LET all == {sent[i] : i \in DOMAIN sent}
        window == Recent(Observed(all), asked)
        now == CHOOSE b \in window : \A c \in window : c.day <= b.day
        stats == body.stats
    IN  /\ stats.iv = now.close
        /\ \A b \in window : stats.low <= b.close /\ b.close <= stats.high
        /\ \E b, c \in window : stats.low = b.close /\ stats.high = c.close
        /\ stats.rank[1] * (stats.high - stats.low)
             = (now.close - stats.low) * stats.rank[2]
        /\ stats.rank[2] > 0 /\ stats.rank[1] \in 0..stats.rank[2]
        /\ stats.percentile = <<Cardinality({b \in window : b.close < now.close}),
                                Cardinality(window)>>
        /\ \A b \in all : body.first <= b.day /\ b.day <= body.last

(* Whatever order the bars came in, the IV answer is faithful to them.     *)
IvRankFaithful ==
    pc = "done" /\ tool = "get_iv_rank" /\ answer.ok =>
      IvFaithful(heard[1].bars, args.window, answer.body)
=============================================================================
