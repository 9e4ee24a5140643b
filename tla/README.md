# TLA+ verification of the IBKR MCP bridge

Models, model-checking runs and machine-checked proofs for `ibkr-mcp-rs`, the
bridge between MCP clients and an Interactive Brokers Gateway. Paths below are
relative to the repository's parent directory, as in `PROJECT.json`, so the
crate's sources are `src/src/...`.

## 1. The system

The bridge is one process. It keeps one client session to the gateway, offers
tools over HTTP or stdio, and must survive a gateway that is down, waiting for
a human's 2FA approval, or alive as a TCP endpoint (socat) while its API
session is dead.

| Component | State | Operations | Made correct by |
|---|---|---|---|
| Connection manager, `ibkr/client.rs` | the slot `RwLock<Option<Arc<Client>>>`, the reconnect loop's `attempts`, `tcp_down` and failure count, the canary's two counters, two atomics read by tools | reconnect loop, maintenance probe, `drop_connection`, canary tick, `get_client`, `is_connected`, `disconnect` | one session at a time, no leak, dead sessions withdrawn, outage reported, no restart for the broker's sake, bounded recovery, no handshake storm |
| Process entry, `main.rs` | - | start, wait for server or signal, disconnect, exit code | shutdown completes; a failed server is not a clean stop |
| Account information, `ibkr/account.rs` | cache with timestamp, `pump_running`, `fetch_lock`, the pump's accumulator | `get_account_info`, the summary pump; `get_positions`, `get_executions` | one subscription, bounded waits, no ancient or partial numbers, recovery after reconnect; every fill once, profit and loss of the right account |
| Last-good snapshot, `persistence.rs` | memory copy and a JSON file | `record`, `load_from_disk`, `get`, `age_secs` | memory, file and cache agree across crashes; an age goes with its snapshot |
| Market data, `ibkr/market_data.rs` | quote cache, `delayed_symbols`; the session's market data type in the gateway | `get_quote`, `get_option_quote`, `get_bulk_quotes`, `get_option_chain` | each request served under the type it asked for; the cascade is walked to its end; results by position |
| Orders, `ibkr/orders.rs` | - (folds of streams) | `open_orders`, `what_if_order`; three stubs | every order once, with its last status, never hidden |
| Scanner, `ibkr/scanner.rs` | semaphore | `run_scan` | no permit lost; best ranks returned |
| History, `ibkr/history.rs` | - | `fetch_bars`, `iv_rank`, historical ticks | the rank of the right days, whatever order they come in |
| Events, `ibkr/events.rs` | - | `get_events`: resolve, probe, fetch | a report never claims more than the gateway said |
| Policy and configuration, `policy.rs`, `config.rs` | two flags and where they came from | `from_config`, `refusal_for` | what the operator forbade is refused, and nothing else |
| MCP tools, server, health, `mcp/` | - | one handler per tool; status from slot and atomics | one truthful answer per call, in bounded time |
| Installer, `scripts/install-mcp-tuple.sh` | installed files, unit states, backups | install, verify, roll back | a rollback restores one complete tuple and never a Gateway activation edge |

The parts interact through the slot (every broker-backed tool clones the
client in it), the two atomics (written by the canary, read by the status
surfaces), the account cache (written by the pump, read by callers and by the
persistence) and the gateway session itself, whose market data type and
subscription slots are shared by all requests.

Hard behaviours: the reconnect loop, the canary, the pump, the callers and the
shutdown interleave at every await; a session can die between a check and a
use; a disconnect can time out and leave old streams pending; the process can
die between two writes; a queue of callers shares one lock across a 10 s wait.
`PROJECT.json` lists them as hazards with the properties that cover them.

## 2. Modules

| Module | Models | Checked by |
|---|---|---|
| `BrokerLink` | what the connection manager promises: one link, withdrawn only for a reason | refined by `Connection` |
| `Connection` | `client.rs` and `main.rs`: reconnect task, canary task, shutdown, systemd restart; time abstract | `connection`, `connection_live`, `connection_stale` |
| `ClientSlot` | the same manager as its users meet it: what `get_client` hands out, and what becomes of a client that is kept | refined by `SessionUse` and by `Account` |
| `SessionUse` | `Connection` with one task that keeps a client across awaits | `connection_live` |
| `MCConnection` | symmetry for the safety run | |
| `ConnectionProofs` | theorems about `Connection` and `SessionUse`, TLAPS | |
| `ReconnectSchedule` | `attempts`, `tcp_down` and `backoff` of the same loop, in milliseconds | `schedule`, `schedule_tcp` |
| `ScheduleProofs` | theorems about `ReconnectSchedule`, TLAPS | |
| `Account` | `get_account_info`, the pump, the cache, persistence | `account`, `account_partial`, `account_wait` |
| `AccountProofs` | theorems about `Account`, TLAPS | |
| `MarketData` | `get_quote`, `get_option_quote` on a shared session | `market`, `market_type` |
| `MarketDataProofs` | theorems about `MarketData`, TLAPS | |
| `ToolCall` | the frame of a tool call; the configuration layers and the gate | `tools` |
| `OpenOrders` | `open_orders` and its fold, `what_if_order` | `tools`, `orders_hidden` |
| `Fills` | `get_positions` with profit and loss, `get_executions` | `tools` |
| `History` | `fetch_bars`, `iv_rank`, historical ticks | `tools` |
| `Events` | `get_events`: resolve, probe, fetch, report | `tools` |
| `Scanner` | `run_scan` and the permits shared with other scans | `tools` |
| `Chains` | `get_option_chain`, `get_bulk_quotes` | `tools` |
| `StatusView` | the status tool and `/health/broker` beside the canary, `/health/last-good` beside the pump | `tools` |
| `Tools` | the composition: any tool, one call after the other | `tools` |
| `MCTools` | orders, fills and symbols of the instance | `tools`, `orders_hidden` |
| `ToolsProofs` | theorems about `Tools`: the gate and the permits, TLAPS | |
| `CallProofs` | the frame of a call's proof, sorting, types, TLAPS | |
| `AnswerProofs` | theorems about what single answers rest on, TLAPS | |
| `FoldProofs` | theorems about the tools that fold a stream into rows, TLAPS | |

### Correspondence

One action is one stretch of a task between two awaits; `pc` variables name
the await a task is at. Reads and writes of the slot are atomic (they happen
under the `RwLock`), except that `disconnect` of `main` holds the write lock
across its await, which is the variable `lock`. The two atomics are written by
separate relaxed stores, so the canary has a step for each. A session is an
identity with a condition: `open`, `stale` (socket up, API dead), `dead`
(ibapi's flag down), `orphan` (given up after the 5 s disconnect timeout) or
`free`. `ibapi`'s `is_connected` is "not dead"; `managed_accounts` answers on
an open session while the gateway is logged in.

`ReconnectSchedule` is the same loop with the sessions reduced to "connected"
and the sleeps and timeouts given their length. Its locals influence nothing
but the delay, which is why `Connection` can do without them. The environment
changes between phases; a change inside a phase is modelled by letting the
phase fail although the gateway is up by its end, and the bounds include the
length of that phase.

A client outlives the slot: `get_client` clones an `Arc`, and whoever has it
goes on using it over any number of awaits. `SessionUse` adds such a task to
`Connection`. The task changes nothing of the manager's; what it has is a client
of a session, and that client is `Closed` when the session's socket is gone.
`ClientSlot` forgets who does what: a session is on offer, `live`, `stale` or
`dead`, and the task's client is `current`, `orphan` (withdrawn, the disconnect
not through yet) or `closed`. Account's environment is `ClientSlot` itself, its
pump being the task: a dead session is handed out until it is withdrawn, and a
withdrawn one may still push values until it is closed.

In `Account` a snapshot is the set of tags it really holds. The pump's
steps are the awaits of `pump_loop` (whose accumulator is a local of the loop body:
`PumpPauses`), except that `persistence::record` is
split in memory, truncation and content, because a crash can fall between
them. `fetch_lock` is tokio's fair mutex: a queue whose head holds the lock. An
`End` may come at any time, since the code tests for an empty accumulator
itself. `leaked` counts the slots the gateway keeps for requests whose `End`
was consumed before they were dropped (the comment above `get_account_info`).
The variables `present` and `waits` are history: they count the complete 10 s
waits of others that lie inside a call.

In `MarketData` the stock and option paths, which are the same code twice, are
one: a key stands for a symbol or an option's label. `stranded` is history.

In `ToolCall` and the modules above it, one call is followed from its arrival
to its answer. `pc` names the await the handler is at, with the tool's name
before the dot; `heard` is what the gateway has said to this call, and `acc`
what the handler has made of it. Calls share nothing but the slot
(`Connection`), the caches (`Account`, `MarketData`) and the scanner's permits,
so other calls appear only as `peers` in `Scanner`; calls of other tools are
followed while no scan is in progress, which loses nothing, as permits do not
influence them. A stream delivers any of its items in any order and with
repetitions, an error, an end, or nothing; its end is the gateway's marker or
the closing of its session, which the handlers do not tell apart. For
`open_orders`, whose property depends on it, they are two actions (`OrdersEnd`,
`OrdersClose`); for the others they are one, as marker, closing and silence lead
to the same answer, or that answer rests on items alone. `Heard...` in the properties looks
back at what came and states the answer from it without the handler's fold, so
the fold is checked against a reference that does not go step by step. In
`ToolCall` the two flags are read from three layers above the defaults, once
merged and once without the defaults, as `config.rs` does with two figments;
`spoken` is the reference, what the operator said last. In `StatusView` the
canary's and the pump's published values travel with the call (`acc.board`,
`acc.store`), and the canary or the pump may store between any two reads; what
a call can find is what `OutageFlagsAgree` of `Connection` allows. In `Scanner`
`ghosts` counts the subscriptions the gateway may hold after a subscription
was given up.

Definitions named `Mutant...` stand before the definition they vary. They are
not part of any specification; each is a plausible mistake that some property
is known to catch.

## 3. Runs

| Run | Expectation | What it shows |
|---|---|---|
| `connection` | pass | `TypeOK`, `SlotEmptyWhileReconnecting`, `AtMostOneSession`, `NoLeakedSession`, `OutageFlagsAgree`, `ExitOnlyWhenWedged`, and `ImplementsBrokerLink` |
| `connection_live` | pass | `LinkRestored`, `OutageReported`, `StaleSessionWithdrawn`, `ShutdownCompletes`, with a task that keeps a client: `ImplementsClientSlot` |
| `connection_stale` | violation | `get_client` hands out a client known to be dead |
| `schedule` | pass | `HandshakeSpacing`, `RecoveryWithinCalmInterval` with the code's constants |
| `schedule_tcp` | violation | the calm sleep is not cut short when the endpoint returns |
| `account` | pass | `OnePump`, `LockDiscipline`, `WaitBounded`, `LastGoodFollowsCache`, `EveryCallAnswered`, `PumpRecovers` |
| `account_partial` | violation | the NLV guard lets partial snapshots through |
| `account_wait` | violation | a call waits longer than its own 10 s |
| `market` | pass | `OnlyEarlyReturnStrands`, `CascadeExhausted`, `QuoteAnswered` |
| `market_type` | violation | Realtime is not always the session's default |
| `tools` | pass | each tool's answer against what the gateway said: `WorkingOrderShown`, `OwnPnl`, `EveryFillOnce`, `IvRankFaithful`, `EventReportHonest`, `BestRanksFirst`, `BulkInOrder`; of all tools: `RefusedAsConfigured`, `SuccessRestsOnData`, `AnsweredDespiteSilence`; of shared state: `PermitsAccounted`, `StatusTellsOneStory`, `AgeOfToldOrLater` |
| `orders_hidden` | violation | a symbol filter hides a working order |

Bounds, and why they are enough:

* `connection`: three sessions, because one can be an orphan while another is
  in the canary's hands and a third is built; the code's limits of three
  probes and three self-probes; the canary's `u32` saturates at 2, since only
  0, 1 and "more" are told apart. Sessions are symmetric.
* `connection_live`: two sessions, limits 2 and 1, stdio mode (no self-probe,
  whose exit would only restart the process). No symmetry, as it is unsound
  for liveness. One task keeps a client: tasks do not see each other's clients,
  so a second one adds nothing.
* `schedule`: the code's constants in milliseconds (with a 15 s handshake
  timeout, any value works); `attempts` saturates at 17, two beyond the point
  from which the delay is flat; the stopwatches stop above the longest bound.
* `account`: two callers (one holds the lock, one waits), two tags (NLV and
  another), ages 0, 1 (past the TTL) and 2 (past `stale_max`), a gateway cap
  of 1 so that the cap is reached.
* `market`: two calls for one key. The calls share the session, the cache
  entry and the key's mark; a second key would only share the session.
* `tools`: three items per call (`Patience`) and the end: enough for two orders
  with a report repeated, for a fill sent again around its commission, for two
  batches out of order. Two orders of two clients have the same order id, one
  of them reported without its account; one account is on paper, one is not.
  Three days of bars with closes 0 to 2; ranks 1 to 3 in batches of up to two
  rows; two permits of the scanner (10 in the code), one of them possibly
  another call's; the status and the snapshot before and after a store. All 729
  combinations of layers are initial states of the gate.
* `orders_hidden`: the same instance.

No run turns deadlock checking off.

### Fairness

Only the bridge's own steps are fair: sleeps and timeouts are tokio timers and
end, and every broker await of the reconnect task and the canary runs under a
timeout. `main`'s disconnect has none, so `ShutdownDone` is fair only on a
healthy session, and `ShutdownCompletes` makes no promise on another. The
environment owes nothing, with these exceptions, each stated next to the
formula: systemd restarts the process, the sockets given up are closed at some
time (`Connection`), a live gateway pushes every tag again on an open
summary subscription of the session on offer, on no other (`Account`), and a snapshot request ends
(`MarketData`; the session of a gateway that never answers is withdrawn, which
is `StaleSessionWithdrawn`). In `Tools` the gateway owes nothing at all: fair is
only what a handler does by itself, sending a request or its timer running out.
Sending is taken to end, although no timer covers it. `AnsweredDespiteSilence`
leaves out `get_option_chain` and `get_bulk_quotes`, which have no timer. Liveness properties carry the rest as premises:
the gateway stays up, no session fails any more, the account pump does not
hang on an orphan's stream, a gateway slot is left.

### What the violation runs say

* `get_client` returns `Ok` for a slot whose client's socket flag is down; its
  comment promises an error, and the outage policy promises that tools fail
  fast. It lasts until the next 30 s check.
* After a refused pre-flight the loop sleeps first and looks afterwards. With
  15 or more attempts behind it, it sleeps 300 s with the endpoint up, though
  the policy says the calm tier is not waited out. What the reset does change
  is the delay after the next failure.
* The account cache and the last-good file are written by the first summary
  item after NLV, with 0.0 for what has not arrived. Whether that happens
  depends on the order in which the gateway sends the tags; the guard alone
  does not do what its comment says. Every reopened subscription starts over.
* `fetch_lock` is held during the 10 s wait, so callers wait one after the
  other. `WaitBounded` is what holds: at most one full wait of each other caller.
* A Realtime request relies on the session being in Realtime. A failed switch
  back, an early return from the tick loop, or an overlapping request leaves
  it in another type.
* The symbol filter of `get_open_orders` drops a working order of which only
  status reports have come, since its row has no symbol; the comment above the
  filters says that a missing message must never hide a working order.
  `WorkingOrderShown` is what holds.

### Other differences met while modelling

No run is about these; they are recorded where the model follows the code. In
the first three a comment or a plan says otherwise:

* The comment at `account.rs:226` says of the summary pump that "if the stream
  errors/ends, the pump clears `pump_running` and exits; the next
  `get_account_info` call observes stale/empty cache and re-spawns it", and the
  one at 252 says so again. The code does not: nothing ever clears
  `pump_running`, the loop has no exit, and after an error or an end it sleeps
  and reopens the stream itself (357-371). `OnePump` is true of this code and
  would not be of the comment's, which spawns more than once in a process. What
  the comment wants from re-spawning, numbers again after a stream is gone, is
  `PumpRecovers`.
* `get_executions` loses commissions. One that comes ahead of its fill finds no
  row and is dropped (`account.rs:600`), and one that has come is reset to 0
  when its fill is sent again (597), so the totals are too small then.
  `PLAN-executions-pnl.md:85` promises "Collect both ExecutionData and
  CommissionReport, match by execution_id", which needs no order.
  `EveryFillOnce` states what holds: no fill is lost or counted twice, and it is
  charged exactly if its commission is the last thing said about it.
* `open_orders` takes any end of its stream for the end of the list
  (`orders.rs:153`). A session that is withdrawn or closed in the middle of the
  read gives the orders so far, possibly none, as a success, although
  `orders.rs:126` says "A failed read is an error, never an empty list": a
  caller who checks that no working order exists gets a wrong answer and no
  error. `SuccessRestsOnData` states what holds: the handler's own timer and an
  error of the stream never end in a success.
* `what_if` gives its `account_id` to the gate and to nobody else: the preview
  is for the gateway's default account.
* `get_option_chain` keeps one exchange, the last the gateway sent.
  `get_market_data` rejects `option_chain` as a data type.
* `get_events` reports `not_entitled` after any error of the fetch, and an
  entitlement of `ok` after a payload although the probe failed; `unknown` is a
  third value.
* `get_positions` for all accounts asks for profit and loss under the account
  of its first row, so rows of other accounts get no figure or a foreign one.
  A silent gateway yields an empty list and success, for executions and scans
  as well; hence they are not in `SuccessRestsOnData`.
* The `since` filter of `get_executions` compares a UTC day with the local day
  of a fill.
* Rows of a scan beyond the limit are dropped before the sort by rank, so
  `BestRanksFirst` has the gateway's order as its premise. The 45 s of a scan
  start after its subscription, which has 20 s of its own.
* The last date of an IV answer is that of the last bar, which may have no
  observation.
* `/health/last-good` may tell an old snapshot, even one from a former process,
  with the age of one recorded in between.
* A crash between truncation and content of the last-good file loses it, and
  the next process starts without a last-good snapshot. `LastGoodFollowsCache`
  allows the loss; it forbids that memory, cache and file tell different
  snapshots, or that a truncated file is taken for one.
* When no account-summary slot is left on a session (three streams that broke
  after their `End`), a reopen is refused. As an error the refusal puts the pump
  to sleep for the backoff, or five minutes after a [322], before it tries again
  on the same session; as a notice it is logged, and the pump waits on a silent
  stream until the session closes. Callers get the cached numbers until they are
  `stale_max` old and errors from then on. Slots come back only with a new
  session, and nothing in the bridge asks for one while the canary's probe of
  the broker is answered. All of this is in `Account`; `PumpRecovers` promises
  nothing for it.

## 4. Proofs

`ConnectionProofs` proves with TLAPS, for every set of sessions and every
`ProbeLimit`, `SelfLimit`, `MaxFailures` and mode allowed by the assumptions of
`Connection`:

* `TypeCorrect`, `EmptySlotDuringOutage`, `OneSession`, `NoLeak`,
  `OutageAgreement`, `WedgeExit`: the invariants of run `connection`;
* `Refinement`: `Spec => ImplementsBrokerLink`;
* `ClientRefinement`: `UseSpec => ImplementsClientSlot`, for the manager with a
  task that keeps a client.

The argument is one inductive invariant, `IInv`. None of the properties is
inductive alone:

* that the slot is empty while the loop reconnects needs to know that the
  shutdown can only hold the lock while the loop is in `maintain`, `probe`,
  `reply` or `drop` (`ShutdownInv`);
* that no session leaks needs to know whose hands hold what at each `pc`
  (`HandsInv`);
* that a withdrawal is justified, for the refinement, needs to know that the
  failure count belongs to the session on offer (`EvidenceInv`);
* that the outage flags agree needs that the published count equals the
  canary's own (`OutageInv`), and the exit property that the canary's count of
  silent self-probes is the true one (`SilenceInv`).

There is one lemma per task (`ReconnectInv`, `CanaryInv`, `EnvironmentInv`,
`MainInv`, and `EndInv` for the end of a process, common to several), with one
case per action, and the same split for the refinement (`LinkReconnect`,
`LinkCanary`, `LinkEnvironment`, `LinkMain`).

`ClientRefinement` rests on `IInv` (a task changes nothing of `Connection`:
`UseIsConnection`) and on `UseInv`: a kept client is of a session whose socket is
up, it is none while no process runs, and it is not of a session that was built
but not installed. The last is what keeps a client of an earlier session from
passing for one of the session installed next. Each step of the manager is then
one of a few things to the task: nothing (`Untouched`), the end of the process
(`UseEnds`), the slot emptied (`Emptied`), or a session that is not on offer
changing (`Elsewhere`); what remains is the installation, `get_client` and a
socket that dies in the slot. Proving it showed two behaviours that the former
environment of `Account` did not have: a session that dies while it is on offer,
and the time between its withdrawal and its disconnect, in which its stream still
delivers. `KeepsToClientSlot` in `AccountProofs` is the other half: `Account`
implements `ClientSlot` too, so its pump is shown nothing else than `Connection`
shows to a task that keeps a client.

`AccountProofs` proves the five safety invariants of run `account` for every
set of callers and tags, every age limit and cap: `TypeCorrect`, `SinglePump`,
`LockDisciplined`, `BoundedWait`, `LastGood`. Its `IInv` has two halves that
touch only where a caller spawns the pump. The interesting one is
`PlaceBoundsWaits`: waits seen so far and place in the queue add up to at most
the number of callers. A foreign wait costs one unit and moves the caller one
place ahead; a caller that joins finds room because a queue without repetition
is no longer than the set of callers (`RoomForOneMore`, by the pigeonhole
principle). `StoreInv` says what the pump is about to record, and carries
`LastGoodFollowsCache` through a crash between truncation and content.

`MarketDataProofs` proves `TypeCorrect`, `EarlyReturnStrands` and
`WholeCascade` for every set of callers and keys. `Sound` states of one step of
one call that the types stay, the other calls stay put, its claim on the
session's type is kept, given back or put on record, and that it does not end
too early; `NextInv` follows since no call disturbs another's claim.

`ToolsProofs` proves three things about all tools together:

* `NoPermitLost`: permits are accounted for, for every limit. Each action is
  shown to have one of five shapes (takes or gives a permit, keeps what it has,
  a peer takes or gives), and the shapes keep the sum;
* `GateIsLastWord`: for all layers, the gate holds what the operator said last;
* `Refusals`: `RefusedAsConfigured` for all accounts. Whoever is past the gate
  was let through by it (`GateInv`), and no later step answers "refused".

The properties about the content of answers are proved in three modules on top
of it. `CallProofs` has the frame, `CallInv`: the await a call is at tells its
tool (`Home`), a step of one tool leaves the call with that tool, a step adds at
most one item to `heard`, and a new call has heard nothing. With it each
property needs one invariant about its own tool and one step lemma about that
tool's actions; every other step is settled by `OwnSteps`. It also proves
`CallsTypeCorrect`, the type invariant, with the bound on what a call hears
(one item past `Patience`, the one that settles the answer; `Overheard` are the
places where it can have been heard).

`AnswerProofs`:

* `SuccessIsGrounded`: the invariants say at which await which item has been
  heard; a success on orders comes with the end of their stream, in either of
  its two forms, and with no other step;
* `EventReportIsHonest`: the entitlement the handler carries from the probe to
  the fetch is told by what was heard, whichever of the two failed;
* `StatusIsOneStory` and `AgeIsOfToldOrLater`: a store between two reads leads
  to another value a call can find (`StoredFound`), and the value told first is
  followed to the answer;
* `BulkIsInOrder`: position by position, for any number of tasks;
* `IvRankIsFaithful`: for any number of bars, in any order, with gaps anywhere.
  `CountBars` takes positions in the sorted series to days and keeps counts (a
  bijection), so `LastValues`, which counts positions, is the window of recent
  days the property speaks of (`WindowIs`); `RanksWell` and `AnswerFaithful` do
  the arithmetic of the rank on it.

`FoldProofs` shows for each fold that the rows made so far are a function of
what has been heard, given by a definition that looks back over all of it and
does not go step by step, and that one more item changes both in the same way:

* `WorkingOrderIsShown`: the row of an identity is `RowOf`: account and
  symbol of its last order report, quantity of its last status, state of the last
  of both (`RowOfReport`, and `RowStays` for every other identity), so that
  interleaving and repetition are without influence;
* `EveryFillIsOnce`: a fill is charged exactly if `Charged` says so, that is if
  its commission is the last thing said about it; a repeated
  fill resets it and a report restores it (`Recharged`, `ChargedStays`), and the
  rows of the answer are a permutation of the fills kept (`CollectedOnce`);
* `PnlIsOwn`: rows collected so far are of the account asked for, and what has
  been asked about them is under the account of the first;
* `RanksAreBest`: what has been collected is `AllRanks`, the batches one after
  the other (`FlattenAppend`), and sorting what is sorted changes nothing
  (`SortedStays`).

`ScheduleProofs` proves, for every delay, cap, timeout and count allowed by
`ScheduleAssumption`:

* `BackoffGrows`: the delay never shrinks as attempts are counted;
* `ScheduleTypeCorrect`, `HandshakesAreSpaced` and
  `RecoveryIsWithinCalmInterval`, from `ScheduleInv`: `Overdue` says how long a
  gateway can have been back at each phase, `Spacing` that failed handshakes are
  among the attempts counted and that what was slept is their delay. The spacing
  needs `BackoffGrows`: attempts may exceed the failed handshakes, as a failed
  pre-flight counts too, and more attempts must not mean less delay.

Recursion and sorting. `Ramp` and the library's `FlattenSeq` are recursive
functions, which TLA+ defines by CHOOSE: a proof must first show that a function
with the equation exists. The library's induction theorems take an operator and
cannot be used here, so it is done by the least counterexample: `LeastNatural`,
from the well-foundedness of the naturals, gives the least number up to which
there is no such function (`RampExists`, `JoinExists`), and the function for the
number before extends to it. In the same way a sorting order of any finite
sequence exists (`SortExists`, by insertion of the last element, `SortExtends`);
`SortOrderSorts` is what the proofs use. The models sort with `SortedBy` of
`ToolCall`, a permutation that puts the keys in order and keeps equal ones in
place, as Rust's stable sorts do; and `LastValues` of `History` says "the last
`n` of them" by counting. Both replace library operators that are recursive
underneath and of which nothing could be proved.

The assumptions the proofs add to the models are about what constants stand for:
`None` is none of the values it stands beside (`NoneAssumption`, `ClosedAssumption`,
`ConIdAssumption`, `SnapshotAssumption`, a part of `AccountAssumption`), a bulk
call has symbols, no more than `Patience`, so that each task can end
(`BulkAssumption`), and the stopwatches of `ReconnectSchedule` do not stop before
the poll interval is over (a part of `ScheduleAssumption`).

With this every invariant of every passing run is a theorem, and so are the
refinements. Only model-checked is liveness: `LinkRestored`, `OutageReported`,
`StaleSessionWithdrawn`, `ShutdownCompletes`, `EveryCallAnswered`,
`PumpRecovers`, `QuoteAnswered` and `AnsweredDespiteSilence` need fairness and
ENABLED, which the prover does not support.

## 5. Not modelled

* The heartbeat file, logging and the byte-level reading of the self-probe's
  status line: their outcome is "answered" or not.
* Panics: the supervisors of the reconnect loop and the pump end the process,
  which is the same as the crash already modelled.
* A gateway that refuses a client id still held by an orphan: the handshake
  succeeds when endpoint and API are up.
* Tools: the argument checks of `get_option_quote`, `list_accounts`, the
  parsers of durations, dates, prices and option fields beyond accept or
  reject, the content of quotes and greeks, margin figures, sentinel values.
  `place_order`, `cancel_order` and `get_order_status` are stubs.
* The transports, `/health/live`, `/health/ready`, `/version`: no state of
  their own, or one read.
* A status read that waits while `main` holds the slot's write lock: it is
  `SlotReadable` of `Connection`, not part of `StatusView`.
* The installer: a sequential script that one operator runs, with state in
  files only. What is known of it: `rollback` decides by the pattern
  `.*gateway` (line 725) whether a unit activates the Gateway, while every
  other check looks for `(gateway|ibgw-ibc)` and the Gateway's units are named
  `ibgw-ibc@...`; the rollback packages of both tuples default to one directory
  (line 89), where a second capture with `--force` replaces the shared binary
  and config but not the other tuple's unit; `--mode=unit` without a manifest
  installs first and looks for the edge afterwards.
* Deployment scripts, the Python proxy, logging, contract and error types: no
  state of their own.

## 6. Plan

Modelled so far, in this order: the session, its schedule, the account numbers,
quotes, then every tool with the gate and the status surfaces. Left:

1. The refinement of an abstract call, which hears and then answers, by `Tools`.
2. `MarketData` in the environment of `ClientSlot`: several tasks that keep a
   client, and what the session remembers of their requests.
3. The installer: capture, install and rollback with a cut at every step.
