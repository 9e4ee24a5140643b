------------------------------- MODULE ToolCall -------------------------------
(***************************************************************************)
(* The frame of a tool call (src/src/mcp/tools.rs) and the gate in front   *)
(* of it (src/src/policy.rs, src/src/config.rs).  A handler checks its     *)
(* arguments, asks the gate, awaits one manager and turns the result into  *)
(* one answer.  The managers below it are OpenOrders, Fills, History,      *)
(* Events, Scanner and Chains, each with the actions of its tools; Tools   *)
(* puts them together.                                                     *)
(*                                                                         *)
(* Calls keep nothing from each other: what they share is the client slot  *)
(* (Connection), the caches (Account, MarketData) and the permits of the   *)
(* scanner.  So one call is followed from arrival to answer, and the other *)
(* calls appear where they matter, in Scanner.                             *)
(*                                                                         *)
(* The gateway may answer any await with an item, an error or the end of   *)
(* the stream, or never.  Timers and the sending of a request are the      *)
(* bridge's own.  Definitions named Mutant... are not part of the model:   *)
(* see Connection.tla.                                                     *)
(***************************************************************************)
EXTENDS Integers, Sequences, FiniteSets, Functions, TLC

CONSTANTS
    None,           \* an argument left out; nothing yet
    PaperAccount,   \* account ids that start with DU
    LiveAccount,    \* account ids that do not
    Patience,       \* bound: items the gateway sends in one call
    MaxScans        \* MAX_CONCURRENT_SCANS: 10 in the code

ASSUME AccountAssumption ==
    /\ PaperAccount \cap LiveAccount = {}
    /\ "" \notin PaperAccount \cup LiveAccount
    /\ None \notin PaperAccount \cup LiveAccount \cup {""}
ASSUME BoundAssumption == Patience \in Nat \ {0} /\ MaxScans \in Nat \ {0}

VARIABLES
    gate,     \* OrderGate: the flags that are effective
    spoken,   \* history: the flags whose last word from the operator is true
    tool,     \* the tool called, or None
    args,     \* its arguments
    pc,       \* where the handler is: "ready", "done", or an await
    heard,    \* history: what the gateway has said to this call
    acc,      \* what the handler has made of it so far
    answer,   \* what it returned
    permits,  \* the scanner's slots: what the semaphore has left
    peers,    \* other scans of the process that hold a permit
    ghosts    \* environment: scans at the gateway that nobody holds

frame == <<gate, spoken, tool, args>>
scans == <<permits, peers, ghosts>>
vars == <<frame, pc, heard, acc, answer, scans>>

Account == PaperAccount \cup LiveAccount
AccountArg == Account \cup {None, ""}

-----------------------------------------------------------------------------
(* Configuration.  Each flag may be set in default.yaml, in the file of    *)
(* the environment and in the process environment, in rising priority,     *)
(* above the built-in defaults, which are true.  A missing file is a layer *)
(* without settings.                                                       *)

Flag == {"read_only", "paper_trading"}
Layers == [1..3 -> [Flag -> {"unset", "true", "false"}]]

Given(layers, f) == {i \in 1..3 : layers[i][f] # "unset"}
Merged(layers, f) ==
    Given(layers, f) = {} \/ \E i \in Given(layers, f) :
        layers[i][f] = "true" /\ \A j \in Given(layers, f) : j <= i

(* The same layers once more without the defaults: operator_figment.       *)
MutantIsExplicit(layers, f) == Given(layers, f) \ {2} # {}
IsExplicit(layers, f) == Given(layers, f) # {}

FromConfig(layers) == {f \in Flag : Merged(layers, f) /\ IsExplicit(layers, f)}

(* What the operator last said, file by file.                              *)
LastWord(layers) ==
    {f \in Flag : \E i \in 1..3 : /\ layers[i][f] = "true"
                                  /\ \A j \in (i + 1)..3 : layers[j][f] = "unset"}

OrderPath == {"what_if"}
AccountScoped == {"get_account_info", "get_positions", "get_executions",
                  "what_if", "get_open_orders"}

(* refusal_for: read_only first, and an omitted account is never refused.  *)
Refuses(t, account) ==
    \/ "read_only" \in gate /\ t \in OrderPath
    \/ /\ "paper_trading" \in gate /\ t \in AccountScoped
       /\ account # None /\ account \notin PaperAccount

-----------------------------------------------------------------------------
Success(body) == [ok |-> TRUE, body |-> body]
Failure(why) == [ok |-> FALSE, why |-> why]

Init ==
    /\ \E layers \in Layers : gate = FromConfig(layers) /\ spoken = LastWord(layers)
    /\ tool = None /\ args = None /\ pc = "ready"
    /\ heard = <<>> /\ acc = None /\ answer = None
    /\ permits = MaxScans /\ peers = 0 /\ ghosts = 0

(* A call of tool t arrives; its handler goes to its first await.          *)
Enters(t, a, to, start) ==
    /\ pc = "ready" /\ pc' = to
    /\ tool' = t /\ args' = a /\ acc' = start
    /\ UNCHANGED <<gate, spoken, heard, answer>>

(* The calls of the other tools are followed while no scan is in progress. *)
Arrives(t, a, to, start) ==
    Enters(t, a, to, start) /\ permits = MaxScans /\ ghosts = 0 /\ UNCHANGED scans

(* A call whose arguments the handler refuses before it asks anyone.       *)
Rejected(t, a, why) ==
    /\ pc = "ready" /\ pc' = "done"
    /\ tool' = t /\ args' = a /\ answer' = Failure(why)
    /\ UNCHANGED <<gate, spoken, heard, acc, scans>>

(* The tools that take an account ask the gate first.                      *)
Gated(t, a, to, start) ==
    \/ ~Refuses(t, a.account) /\ Arrives(t, a, to, start)
    \/ Refuses(t, a.account) /\ Rejected(t, a, "refused")

Goes(from, to) == pc = from /\ pc' = to /\ UNCHANGED <<frame, answer, scans>>

Concludes(from, a) ==
    /\ pc = from /\ pc' = "done" /\ answer' = a
    /\ UNCHANGED <<frame, acc>>

Answers(from, a) == Concludes(from, a) /\ UNCHANGED <<heard, scans>>

(* The gateway says x to a call that waits at `at'.                        *)
Hears(at, x) ==
    /\ pc = at /\ Len(heard) < Patience
    /\ heard' = Append(heard, x)

(* It says x, and that settles the answer.                                 *)
HeardLast(x) == heard' = Append(heard, x)
Settles(from, x, a) == Concludes(from, a) /\ HeardLast(x) /\ UNCHANGED scans

(* is_connected, get_client and the sending of the request: no client, a   *)
(* request that cannot be sent, or an open stream.                         *)
Opens(from, to) ==
    \/ Goes(from, to) /\ UNCHANGED <<heard, acc>>
    \/ Answers(from, Failure("not connected"))
    \/ Answers(from, Failure("request failed"))

(* The gateway reports an error, or a timer runs out.                      *)
Fails(from) == Answers(from, Failure("error"))
TimesOut(from) == Answers(from, Failure("timeout"))

(* The answer has been sent; the next call may come.                       *)
Sent ==
    /\ pc = "done" /\ pc' = "ready" /\ tool' = None /\ args' = None
    /\ heard' = <<>> /\ acc' = None /\ answer' = None
    /\ UNCHANGED <<gate, spoken, scans>>

(* get_account_info: its manager is the subject of Account.                *)
CallAccountInfo == \E a \in AccountArg :
    Gated("get_account_info", [account |-> a], "account.answer", None)
AccountInfo ==
    \/ Answers("account.answer", Success(None))
    \/ Answers("account.answer", Failure("timeout"))

(* HashMap::insert.                                                        *)
Insert(map, k, v) == [j \in DOMAIN map \cup {k} |-> IF j = k THEN v ELSE map[j]]

(* sort_by, sort_by_key: the stable order of positions by ascending keys.  *)
SortOrder(keys) ==
    CHOOSE p \in Bijection(DOMAIN keys, DOMAIN keys) :
      \A i, j \in DOMAIN keys :
        i < j => keys[p[i]] < keys[p[j]] \/ (keys[p[i]] = keys[p[j]] /\ p[i] < p[j])

SortedBy(s, keys) == LET p == SortOrder(keys) IN [i \in DOMAIN s |-> s[p[i]]]

Heard(kind) == {i \in DOMAIN heard : heard[i].kind = kind}

-----------------------------------------------------------------------------
(* Properties.                                                             *)

(* A call is refused exactly when the operator's last word on a flag asks  *)
(* for it: the defaults, which say true, refuse nothing, a later layer     *)
(* overrides an earlier one, and a call that names no account goes through.*)
RefusedAsConfigured ==
    pc = "done" =>
      ((~answer.ok /\ answer.why = "refused") <=>
         \/ "read_only" \in spoken /\ tool = "what_if"
         \/ /\ "paper_trading" \in spoken
            /\ tool \in {"get_account_info", "get_positions", "get_executions",
                         "what_if", "get_open_orders"}
            /\ args.account \in LiveAccount \cup {""})
=============================================================================
