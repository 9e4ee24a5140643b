----------------------------- MODULE Connection -----------------------------
(***************************************************************************)
(* The connection manager of the bridge (src/src/ibkr/client.rs) and the   *)
(* process around it (src/src/main.rs): the reconnect task, the canary     *)
(* task and the shutdown path of main, which share the client slot         *)
(*     inner : RwLock<Option<Arc<Client>>>                                 *)
(* and the two diagnostic counters.  One action is one stretch of a task   *)
(* between two awaits.  The gateway, its TCP endpoint and the bridge's own *)
(* HTTP server are the environment.                                        *)
(*                                                                         *)
(* Time is abstract here: a sleep ends at some later moment.  How long the *)
(* reconnect loop sleeps (its attempts and tcp_down locals choose that and *)
(* nothing else) is the subject of ReconnectSchedule.tla.                  *)
(*                                                                         *)
(* The definitions named Mutant... are not part of the model: each is the  *)
(* definition after it with one plausible mistake, and shows that some     *)
(* property notices.                                                       *)
(***************************************************************************)
EXTENDS Integers

CONSTANTS
    Session,       \* broker sessions: an Arc<Client> with its socket
    None,          \* an empty Option
    ProbeLimit,    \* unanswered probes that condemn a session: 3 in the code
    SelfLimit,     \* SELF_HEALTH_FAILURES_BEFORE_EXIT: 3 in the code
    MaxFailures,   \* bound: where the canary's u32 counter saturates
    HttpMode       \* an HTTP server runs (FALSE: stdio, no self-probe)

ASSUME NoneAssumption == None \notin Session
ASSUME LimitAssumption ==
    /\ ProbeLimit \in Nat \ {0}
    /\ SelfLimit \in Nat \ {0}
    /\ MaxFailures \in Nat \ {0, 1}
ASSUME ModeAssumption == HttpMode \in BOOLEAN

VARIABLES
    tcpUp,           \* environment: the gateway's endpoint accepts connections
    apiUp,           \* environment: the gateway is logged in and answers
    httpUp,          \* environment: our own HTTP server answers /health/live
    sess,            \* condition of each session
    slot,            \* inner: the client on offer, or None
    lock,            \* who holds inner's write lock across an await
    rpc, rheld,      \* reconnect task: where it is, the session in its hands
    fails,           \* maintain_connection: consecutive_failures
    cpc, cheld,      \* canary task: where it is, the session it probes
    cfails,          \* canary: consecutive_failures
    selfFails,       \* canary: self_health_failures
    brokerFailures,  \* broker_failures (atomic, read by the tools)
    outageStarted,   \* outage_started_unix # 0 (atomic, read by the tools)
    proc, mheld,     \* main: where it is, the session it is disconnecting
    exit,            \* how the process ended, "none" while it runs
    silence          \* history: self-probes in a row that got no answer

env == <<tcpUp, apiUp, httpUp>>
reconnectVars == <<rpc, rheld, fails>>
canaryVars == <<cpc, cheld, cfails, selfFails, brokerFailures, outageStarted, silence>>
mainVars == <<proc, mheld, exit>>
vars == <<env, sess, slot, lock, reconnectVars, canaryVars, mainVars>>

(* A session is free (no socket), open (answers), stale (socket up, API    *)
(* dead: what socat hides), dead (ibapi's flag says disconnected), or an   *)
(* orphan (given up by us, its socket not yet closed).                     *)
Condition == {"free", "open", "stale", "dead", "orphan"}
Owned == {s \in Session : sess[s] \in {"open", "stale", "dead"}}

Running == proc # "down"
MutantSlotReadable == lock \in {"none", "main"}
SlotReadable == lock = "none"

(* IbkrClient::is_connected: the socket flag of the client on offer.       *)
IsConnected == slot # None /\ sess[slot] # "dead"

(* IbkrClient::get_client returns Ok.                                      *)
GetClientOk == slot # None

(* managed_accounts on session s gets a non-empty answer in time.          *)
Answers(s) == sess[s] = "open" /\ apiUp

-----------------------------------------------------------------------------
(* A process starts with an empty slot and both tasks at their loop heads. *)
Init ==
    /\ tcpUp \in BOOLEAN /\ apiUp \in BOOLEAN /\ httpUp = TRUE
    /\ sess = [s \in Session |-> "free"]
    /\ slot = None /\ lock = "none"
    /\ rpc = "backoff" /\ rheld = None /\ fails = 0
    /\ cpc = "sleep" /\ cheld = None /\ cfails = 0 /\ selfFails = 0
    /\ brokerFailures = 0 /\ outageStarted = FALSE /\ silence = 0
    /\ proc = "up" /\ mheld = None /\ exit = "none"

(* std::process::exit or the return of main: the tasks are gone, and the   *)
(* kernel closes every socket.                                             *)
EndProcess(how) ==
    /\ proc' = "down" /\ exit' = how /\ mheld' = None
    /\ sess' = [s \in Session |-> "free"]
    /\ slot' = None /\ lock' = "none"
    /\ rpc' = "backoff" /\ rheld' = None /\ fails' = 0
    /\ cpc' = "sleep" /\ cheld' = None /\ cfails' = 0 /\ selfFails' = 0
    /\ brokerFailures' = 0 /\ outageStarted' = FALSE

-----------------------------------------------------------------------------
(* Environment.                                                            *)

ToggleTcp == tcpUp' = ~tcpUp
             /\ UNCHANGED <<apiUp, httpUp, sess, slot, lock, reconnectVars, canaryVars, mainVars>>
ToggleApi == apiUp' = ~apiUp
             /\ UNCHANGED <<tcpUp, httpUp, sess, slot, lock, reconnectVars, canaryVars, mainVars>>
ToggleHttp == HttpMode /\ httpUp' = ~httpUp
              /\ UNCHANGED <<tcpUp, apiUp, sess, slot, lock, reconnectVars, canaryVars, mainVars>>

(* The API session behind an intact socket dies (daily re-authentication), *)
(* or the socket itself does.                                              *)
SessionFault(s) ==
    /\ \/ sess[s] = "open" /\ sess' = [sess EXCEPT ![s] = "stale"]
       \/ sess[s] \in {"open", "stale"} /\ sess' = [sess EXCEPT ![s] = "dead"]
    /\ UNCHANGED <<env, slot, lock, reconnectVars, canaryVars, mainVars>>

(* A socket we gave up on is finally closed.                               *)
Reap(s) ==
    /\ sess[s] = "orphan"
    /\ sess' = [sess EXCEPT ![s] = "free"]
    /\ UNCHANGED <<env, slot, lock, reconnectVars, canaryVars, mainVars>>

-----------------------------------------------------------------------------
(* Reconnect task: connect, try_connect_once, maintain_connection,         *)
(* probe_connection and drop_connection.                                   *)

Reconnecting(from, to) ==
    /\ Running /\ rpc = from /\ rpc' = to
    /\ UNCHANGED <<env, canaryVars, mainVars>>

(* The wait before an attempt (none when attempts = 0).                    *)
Backoff ==
    /\ Reconnecting("backoff", "preflight")
    /\ UNCHANGED <<sess, slot, lock, rheld, fails>>

Preflight ==
    /\ \/ tcpUp /\ Reconnecting("preflight", "handshake")
       \/ ~tcpUp /\ Reconnecting("preflight", "backoff")
    /\ UNCHANGED <<sess, slot, lock, rheld, fails>>

HandshakeOk(s) ==
    /\ Reconnecting("handshake", "install")
    /\ tcpUp /\ apiUp
    /\ sess[s] = "free" /\ s # cheld
    /\ sess' = [sess EXCEPT ![s] = "open"]
    /\ rheld' = s
    /\ UNCHANGED <<slot, lock, fails>>

HandshakeFails ==
    /\ Reconnecting("handshake", "backoff")
    /\ ~(tcpUp /\ apiUp)
    /\ UNCHANGED <<sess, slot, lock, rheld, fails>>

(* The write lock is taken, an old client would be disconnected under it,  *)
(* the new one goes into the slot and maintain_connection starts.          *)
Install ==
    /\ Reconnecting("install", "maintain")
    /\ SlotReadable
    /\ sess' = [s \in Session |-> IF s = slot THEN "free" ELSE sess[s]]
    /\ slot' = rheld /\ rheld' = None
    /\ fails' = 0
    /\ UNCHANGED lock

(* 30 s later: ibapi's flag first.                                         *)
MutantForgetDrop ==
    /\ SlotReadable
    /\ \/ IsConnected /\ Reconnecting("maintain", "probe")
       \/ ~IsConnected /\ Reconnecting("maintain", "backoff")
    /\ UNCHANGED <<sess, slot, lock, rheld, fails>>

MaintainCheck ==
    /\ SlotReadable
    /\ \/ IsConnected /\ Reconnecting("maintain", "probe")
       \/ ~IsConnected /\ Reconnecting("maintain", "drop")
    /\ UNCHANGED <<sess, slot, lock, rheld, fails>>

(* One more unanswered probe, and the session is condemned at ProbeLimit.  *)
MutantNeverCondemn(from) == fails' = fails + 1 /\ Reconnecting(from, "maintain")
MutantCondemnEarly(from) ==
    /\ fails' = fails + 1
    /\ Reconnecting(from, IF fails + 2 >= ProbeLimit THEN "drop" ELSE "maintain")
MutantNotCounted(from) == Reconnecting(from, "maintain") /\ UNCHANGED fails

ProbeFailed(from) ==
    /\ fails' = fails + 1
    /\ Reconnecting(from, IF fails + 1 >= ProbeLimit THEN "drop" ELSE "maintain")

(* probe_connection takes a clone of whatever client is in the slot now.   *)
ProbeStart ==
    /\ SlotReadable
    /\ \/ /\ GetClientOk
          /\ Reconnecting("probe", "reply")
          /\ rheld' = slot /\ UNCHANGED fails
       \/ /\ ~GetClientOk
          /\ ProbeFailed("probe") /\ UNCHANGED rheld
    /\ UNCHANGED <<sess, slot, lock>>

ProbeReply ==
    /\ rpc = "reply"
    /\ \/ /\ Answers(rheld)
          /\ Reconnecting("reply", "maintain")
          /\ fails' = 0
       \/ /\ ~Answers(rheld)
          /\ ProbeFailed("reply")
    /\ rheld' = None
    /\ UNCHANGED <<sess, slot, lock>>

(* drop_connection: the slot is emptied under the write lock, which is     *)
(* released before the client is disconnected.                             *)
MutantNoDisconnect ==
    /\ SlotReadable
    /\ Reconnecting("drop", "backoff")
    /\ rheld' = None /\ slot' = None
    /\ UNCHANGED <<sess, lock, fails>>

DropTake ==
    /\ SlotReadable
    /\ Reconnecting("drop", IF slot = None THEN "backoff" ELSE "disconnect")
    /\ rheld' = slot /\ slot' = None
    /\ UNCHANGED <<sess, lock, fails>>

(* The disconnect returns, or five seconds pass on a half-dead socket.     *)
DropDone ==
    /\ Reconnecting("disconnect", "backoff")
    /\ \/ sess' = [sess EXCEPT ![rheld] = "free"]
       \/ sess[rheld] # "open" /\ sess' = [sess EXCEPT ![rheld] = "orphan"]
    /\ rheld' = None
    /\ UNCHANGED <<slot, lock, fails>>

ReconnectTask ==
    \/ Backoff \/ Preflight
    \/ (\E s \in Session : HandshakeOk(s)) \/ HandshakeFails
    \/ Install
    \/ MaintainCheck \/ ProbeStart \/ ProbeReply
    \/ DropTake \/ DropDone

-----------------------------------------------------------------------------
(* Canary task: start_canary.                                              *)

Canary(from, to) ==
    /\ Running /\ cpc = from /\ cpc' = to
    /\ UNCHANGED <<env, sess, slot, lock, reconnectVars, mainVars>>

(* 60 s later: is_connected, with no timeout on the lock.                  *)
CanaryTick ==
    /\ SlotReadable
    /\ Canary("sleep", IF IsConnected THEN "probe" ELSE "bad")
    /\ UNCHANGED <<cheld, cfails, selfFails, brokerFailures, outageStarted, silence>>

(* get_client runs inside the canary's 10 s timeout: a lock held for too   *)
(* long, or an emptied slot, is a failed probe.                            *)
CanaryProbe ==
    /\ \/ /\ SlotReadable /\ GetClientOk
          /\ Canary("probe", "reply") /\ cheld' = slot
       \/ /\ ~(SlotReadable /\ GetClientOk)
          /\ Canary("probe", "bad") /\ UNCHANGED cheld
    /\ UNCHANGED <<cfails, selfFails, brokerFailures, outageStarted, silence>>

CanaryReply ==
    /\ cpc = "reply"
    /\ Canary("reply", IF Answers(cheld) THEN "good" ELSE "bad")
    /\ cheld' = None
    /\ UNCHANGED <<cfails, selfFails, brokerFailures, outageStarted, silence>>

(* Two relaxed stores each way, in this order.                             *)
MutantLocalReset ==
    /\ Canary("good", "clear")
    /\ cfails' = 0
    /\ UNCHANGED <<cheld, selfFails, brokerFailures, outageStarted, silence>>

CanaryGood ==
    /\ Canary("good", "clear")
    /\ cfails' = 0 /\ brokerFailures' = 0
    /\ UNCHANGED <<cheld, selfFails, outageStarted, silence>>

MutantNoClear ==
    /\ Canary("clear", "self")
    /\ UNCHANGED <<cheld, cfails, selfFails, brokerFailures, outageStarted, silence>>

CanaryClear ==
    /\ Canary("clear", "self")
    /\ outageStarted' = FALSE
    /\ UNCHANGED <<cheld, cfails, selfFails, brokerFailures, silence>>

Saturate(n) == IF n < MaxFailures THEN n + 1 ELSE n

MutantNoStamp ==
    /\ Canary("bad", "self")
    /\ cfails' = Saturate(cfails) /\ brokerFailures' = Saturate(cfails)
    /\ UNCHANGED <<cheld, selfFails, outageStarted, silence>>

CanaryBad ==
    /\ Canary("bad", IF Saturate(cfails) = 1 THEN "stamp" ELSE "self")
    /\ cfails' = Saturate(cfails) /\ brokerFailures' = Saturate(cfails)
    /\ UNCHANGED <<cheld, selfFails, outageStarted, silence>>

CanaryStamp ==
    /\ Canary("stamp", "self")
    /\ outageStarted' = TRUE
    /\ UNCHANGED <<cheld, cfails, selfFails, brokerFailures, silence>>

(* The self-probe, the only canary result that may end the process.  In    *)
(* stdio mode there is none, and self_health_failures stays 0.             *)
MutantNoSelfReset ==
    /\ httpUp \/ ~HttpMode
    /\ Canary("self", "sleep")
    /\ silence' = 0
    /\ UNCHANGED <<cheld, cfails, selfFails, brokerFailures, outageStarted>>

CanarySelfAnswered ==
    /\ httpUp \/ ~HttpMode
    /\ Canary("self", "sleep")
    /\ selfFails' = 0
    /\ silence' = 0
    /\ UNCHANGED <<cheld, cfails, brokerFailures, outageStarted>>

CanarySelfSilent ==
    /\ HttpMode /\ ~httpUp
    /\ selfFails + 1 < SelfLimit
    /\ Canary("self", "sleep")
    /\ selfFails' = selfFails + 1
    /\ silence' = silence + 1
    /\ UNCHANGED <<cheld, cfails, brokerFailures, outageStarted>>

CanaryExit ==
    /\ Running /\ cpc = "self"
    /\ HttpMode /\ ~httpUp
    /\ selfFails + 1 >= SelfLimit
    /\ EndProcess("wedged")
    /\ silence' = silence + 1
    /\ UNCHANGED env

CanaryTask ==
    \/ CanaryTick \/ CanaryProbe \/ CanaryReply
    \/ CanaryGood \/ CanaryClear \/ CanaryBad \/ CanaryStamp
    \/ CanarySelfAnswered \/ CanarySelfSilent \/ CanaryExit

-----------------------------------------------------------------------------
(* main: the HTTP server ends, or the operator interrupts; then the        *)
(* client is disconnected, under the write lock and with no timeout.       *)

ServerEnds ==
    /\ proc = "up"
    /\ EndProcess("server")
    /\ UNCHANGED <<env, silence>>

Interrupt ==
    /\ proc = "up" /\ proc' = "stopping"
    /\ UNCHANGED <<env, sess, slot, lock, reconnectVars, canaryVars, mheld, exit>>

MutantNothingToClose ==
    /\ proc = "stopping" /\ SlotReadable
    /\ slot # None
    /\ slot' = None /\ mheld' = slot /\ lock' = "main" /\ proc' = "closing"
    /\ UNCHANGED <<env, sess, reconnectVars, canaryVars, exit>>

ShutdownTake ==
    /\ proc = "stopping" /\ SlotReadable
    /\ \/ /\ slot # None
          /\ slot' = None /\ mheld' = slot /\ lock' = "main"
          /\ proc' = "closing"
       \/ /\ slot = None /\ proc' = "closed" /\ UNCHANGED <<slot, mheld, lock>>
    /\ UNCHANGED <<env, sess, reconnectVars, canaryVars, exit>>

ShutdownDone ==
    /\ proc = "closing" /\ proc' = "closed"
    /\ sess' = [sess EXCEPT ![mheld] = "free"]
    /\ lock' = "none" /\ mheld' = None
    /\ UNCHANGED <<env, slot, reconnectVars, canaryVars, exit>>

MainReturns ==
    /\ proc = "closed"
    /\ EndProcess("clean")
    /\ UNCHANGED <<env, silence>>

(* systemd, Restart=always.                                                *)
Restart ==
    /\ proc = "down" /\ proc' = "up" /\ exit' = "none" /\ silence' = 0
    /\ UNCHANGED <<env, sess, slot, lock, reconnectVars, mheld,
                   cpc, cheld, cfails, selfFails, brokerFailures, outageStarted>>

-----------------------------------------------------------------------------
Environment ==
    \/ ToggleTcp \/ ToggleApi \/ ToggleHttp
    \/ \E s \in Session : SessionFault(s) \/ Reap(s)

Main == ServerEnds \/ Interrupt \/ ShutdownTake \/ ShutdownDone \/ MainReturns \/ Restart

Next == Environment \/ ReconnectTask \/ CanaryTask \/ Main

(* Every await of the two tasks ends: sleeps and timeouts are tokio        *)
(* timers, and handshakes, probes and the drop's disconnect run under one. *)
(* The disconnect of main has no timeout, so it is only sure to return on  *)
(* a healthy session.  The environment owes nothing but to close the       *)
(* sockets given up, and systemd to restart.                               *)
Fairness ==
    /\ WF_vars(ReconnectTask)
    /\ WF_vars(CanaryTask)
    /\ WF_vars(ShutdownTake)
    /\ WF_vars(ShutdownDone /\ sess[mheld] = "open")
    /\ WF_vars(MainReturns)
    /\ WF_vars(Restart)
    /\ \A s \in Session : WF_vars(Reap(s))

Spec == Init /\ [][Next]_vars
FairSpec == Spec /\ Fairness

-----------------------------------------------------------------------------
(* Properties.                                                             *)

Maybe == Session \cup {None}
ReconnectPc == {"backoff", "preflight", "handshake", "install", "maintain",
                "probe", "reply", "drop", "disconnect"}
CanaryPc == {"sleep", "probe", "reply", "good", "clear", "bad", "stamp", "self"}

(* Every variable has its type.                                            *)
TypeOK ==
    /\ tcpUp \in BOOLEAN /\ apiUp \in BOOLEAN /\ httpUp \in BOOLEAN
    /\ sess \in [Session -> Condition]
    /\ slot \in Maybe /\ lock \in {"none", "main"}
    /\ rpc \in ReconnectPc /\ rheld \in Maybe /\ fails \in 0..ProbeLimit
    /\ cpc \in CanaryPc /\ cheld \in Maybe
    /\ cfails \in 0..MaxFailures /\ selfFails \in 0..SelfLimit
    /\ brokerFailures \in 0..MaxFailures /\ outageStarted \in BOOLEAN
    /\ proc \in {"up", "stopping", "closing", "closed", "down"} /\ mheld \in Maybe
    /\ exit \in {"none", "wedged", "server", "clean"}
    /\ silence \in 0..SelfLimit

(* While the reconnect loop waits, pre-flights, handshakes or is about to  *)
(* install, the slot is empty: tools are told the truth during an outage,  *)
(* and Install never finds an old client, whose disconnect it would await  *)
(* with no timeout under the write lock, blocking every reader.            *)
SlotEmptyWhileReconnecting ==
    rpc \in {"backoff", "preflight", "handshake", "install", "disconnect"} => slot = None

(* The bridge never owns two broker sessions, shutdown included: the lock  *)
(* that main holds while it disconnects keeps the reconnect task out.      *)
AtMostOneSession == \A s, t \in Owned : s = t

(* A session the bridge owns is always in the slot or in the hands of the  *)
(* task that will install or disconnect it: none is leaked, and a session  *)
(* given up is never on offer again.                                       *)
NoLeakedSession ==
    /\ slot # None => slot \in Owned
    /\ \A s \in Owned : s \in {slot, rheld, mheld}

(* Except between the canary's two stores, the two atomics the tools read  *)
(* tell the same story: an outage has a start exactly when it has failures.*)
OutageFlagsAgree ==
    cpc \notin {"clear", "stamp"} => (outageStarted <=> brokerFailures > 0)

(* The canary ends the process only after SelfLimit self-probes in a row   *)
(* without an answer; the broker's state has no part in it.                *)
ExitOnlyWhenWedged ==
    proc = "down" /\ exit = "wedged" => HttpMode /\ silence = SelfLimit

(* The promise of BrokerLink, under this mapping.                          *)
Link == INSTANCE BrokerLink WITH
            link <- slot, sound <- IsConnected, strikes <- fails,
            running <- proc = "up", StrikeLimit <- ProbeLimit
ImplementsBrokerLink == Link!Spec

(* get_client is documented to return an error when not connected.         *)
GetClientMeansConnected == GetClientOk => IsConnected

(* If from some time on the process runs, the gateway is up and sessions   *)
(* no longer fail, the bridge ends up connected and reports no outage.     *)
LinkRestored ==
    /\ <>[](proc = "up" /\ tcpUp /\ apiUp)
    /\ <>[][~ \E s \in Session : SessionFault(s)]_vars
    => <>[](IsConnected /\ brokerFailures = 0 /\ ~outageStarted)

(* If from some time on the process runs and the gateway never answers,    *)
(* every session is dropped and the outage is on record for good.          *)
OutageReported ==
    <>[](proc = "up" /\ ~apiUp) => <>[](~IsConnected /\ brokerFailures > 0 /\ outageStarted)

(* A session whose API died behind a live socket is withdrawn.             *)
StaleSessionWithdrawn ==
    (slot # None /\ sess[slot] # "open") ~> (slot = None)

(* An interrupted process ends, unless its disconnect meets a session that *)
(* is not healthy any more.                                                *)
ShutdownCompletes ==
    proc = "stopping" ~> (proc = "down" \/ (mheld # None /\ sess[mheld] # "open"))
=============================================================================
