-------------------------- MODULE ReconnectSchedule --------------------------
(***************************************************************************)
(* When the reconnect loop of src/src/ibkr/client.rs tries again: the      *)
(* locals attempts and tcp_down of connect and the delays of backoff, in   *)
(* milliseconds of a discrete clock.  The sessions themselves are the      *)
(* subject of Connection.tla; here a session is only "connected".          *)
(*                                                                         *)
(* The environment changes at the start of a sleep, of a pre-flight or of  *)
(* a handshake, or while connected; then the phase takes its time.  A      *)
(* change in the middle of a phase lies between two of these: it shortens  *)
(* the latencies bounded below, and cannot shorten the spacing of          *)
(* handshakes.                                                             *)
(*                                                                         *)
(* Definitions named Mutant... are not part of the model: see              *)
(* Connection.tla.                                                         *)
(***************************************************************************)
EXTENDS Integers

CONSTANTS
    FirstDelay,     \* 500: the base of the ramp
    FastCap,        \* RECONNECT_FAST_CAP: 60000
    CalmInterval,   \* RECONNECT_CALM_INTERVAL: 300000
    CalmAfter,      \* RECONNECT_CALM_AFTER_ATTEMPTS: 15
    PreflightMax,   \* timeout of the TCP pre-flight: 5000
    HandshakeMax,   \* connection_timeout_secs, in milliseconds
    PollInterval,   \* maintain_connection notices a loss after at least 30000
    MaxAttempts,    \* bound: where attempts saturates (u32::MAX in the code)
    MaxClock        \* bound: where the two stopwatches stop

ASSUME ScheduleAssumption ==
    /\ {FirstDelay, FastCap, CalmInterval, CalmAfter, PreflightMax,
        HandshakeMax, PollInterval, MaxAttempts, MaxClock} \subseteq Nat \ {0}
    /\ FirstDelay <= FastCap /\ FastCap <= CalmInterval
    /\ FirstDelay <= PollInterval /\ PollInterval <= MaxClock
    /\ CalmAfter < MaxAttempts
    /\ CalmInterval + 2 * PreflightMax + 2 * HandshakeMax < MaxClock

VARIABLES
    tcpUp, apiUp,    \* the gateway's endpoint accepts; the gateway answers
    pc,              \* where the loop is
    attempts,        \* consecutive failed attempts
    tcpDown,         \* the last pre-flight was refused
    wait,            \* the delay it sleeps, or slept last
    sinceUp,         \* stopwatch: the gateway has been fully up for so long
    sinceShake,      \* stopwatch: since the last handshake ended
    shakes           \* history: handshakes failed in a row, no refusal between

vars == <<tcpUp, apiUp, pc, attempts, tcpDown, wait, sinceUp, sinceShake, shakes>>

GatewayUp == tcpUp /\ apiUp

-----------------------------------------------------------------------------
(* The delay before an attempt.                                            *)

(* 500 ms * 1.6^(n-1), in microseconds.                                    *)
Ramp[n \in 1..CalmAfter] ==
    IF n = 1 THEN FirstDelay * 1000 ELSE (Ramp[n - 1] * 8) \div 5

LesserOf(a, b) == IF a <= b THEN a ELSE b

MutantKeepsGrowing(n) ==
    IF n = 0 THEN 0
    ELSE IF n >= CalmAfter THEN CalmInterval * (n - CalmAfter + 1)
    ELSE LesserOf(Ramp[n] \div 1000, FastCap)

Backoff(n) ==
    IF n = 0 THEN 0
    ELSE IF n >= CalmAfter THEN CalmInterval
    ELSE LesserOf(Ramp[n] \div 1000, FastCap)

Bump(n) == LesserOf(n + 1, MaxAttempts)

(* d milliseconds go by.                                                   *)
Elapse(d) ==
    /\ sinceUp' = IF GatewayUp THEN LesserOf(sinceUp + d, MaxClock) ELSE 0
    /\ sinceShake' = LesserOf(sinceShake + d, MaxClock)

-----------------------------------------------------------------------------
Init ==
    /\ tcpUp \in BOOLEAN /\ apiUp \in BOOLEAN
    /\ pc = "sleep" /\ attempts = 0 /\ tcpDown = FALSE /\ wait = 0
    /\ sinceUp = 0 /\ sinceShake = MaxClock /\ shakes = 0

ToggleTcp ==
    /\ tcpUp' = ~tcpUp /\ sinceUp' = 0
    /\ UNCHANGED <<apiUp, pc, attempts, tcpDown, wait, sinceShake, shakes>>

ToggleApi ==
    /\ apiUp' = ~apiUp /\ sinceUp' = 0
    /\ UNCHANGED <<tcpUp, pc, attempts, tcpDown, wait, sinceShake, shakes>>

(* The top of the loop with n attempts behind it.                          *)
LoopWith(n) == pc' = "sleep" /\ attempts' = n /\ wait' = Backoff(n)

Sleep ==
    /\ pc = "sleep" /\ pc' = "preflight"
    /\ Elapse(wait)
    /\ UNCHANGED <<tcpUp, apiUp, attempts, tcpDown, wait, shakes>>

(* The endpoint accepts.  If it was refusing before, the count restarts.   *)
MutantAlwaysRestart == Bump(0)

AttemptsAfterPreflight == Bump(IF tcpDown THEN 0 ELSE attempts)

PreflightOk ==
    /\ pc = "preflight" /\ pc' = "handshake"
    /\ tcpUp
    /\ attempts' = AttemptsAfterPreflight
    /\ tcpDown' = FALSE
    /\ \E d \in {0, PreflightMax} : Elapse(d)
    /\ UNCHANGED <<tcpUp, apiUp, wait, shakes>>

(* Refused, or no answer in time - also when the endpoint comes back while *)
(* the pre-flight is in flight.                                            *)
PreflightFails ==
    /\ pc = "preflight"
    /\ ~tcpUp \/ sinceUp = 0
    /\ LoopWith(Bump(attempts))
    /\ tcpDown' = TRUE /\ shakes' = 0
    /\ \E d \in {0, PreflightMax} : Elapse(d)
    /\ UNCHANGED <<tcpUp, apiUp>>

HandshakeOk ==
    /\ pc = "handshake" /\ pc' = "connected"
    /\ GatewayUp
    /\ attempts' = 0 /\ tcpDown' = FALSE /\ shakes' = 0
    /\ Elapse(0)
    /\ UNCHANGED <<tcpUp, apiUp, wait>>

(* An error or the timeout - also when the gateway comes up meanwhile.     *)
HandshakeFails ==
    /\ pc = "handshake"
    /\ ~GatewayUp \/ sinceUp = 0
    /\ LoopWith(attempts)
    /\ shakes' = Bump(shakes)
    /\ \E d \in {0, HandshakeMax} :
          sinceUp' = IF GatewayUp THEN d ELSE 0
    /\ sinceShake' = 0
    /\ UNCHANGED <<tcpUp, apiUp, tcpDown>>

(* maintain_connection returns, one poll after the handshake or later.     *)
SessionLost ==
    /\ pc = "connected"
    /\ LoopWith(attempts)
    /\ sinceUp' = 0
    /\ sinceShake' = PollInterval
    /\ UNCHANGED <<tcpUp, apiUp, tcpDown, shakes>>

Next ==
    \/ ToggleTcp \/ ToggleApi
    \/ Sleep \/ PreflightOk \/ PreflightFails
    \/ HandshakeOk \/ HandshakeFails \/ SessionLost

Spec == Init /\ [][Next]_vars

-----------------------------------------------------------------------------
(* Properties.                                                             *)

TypeOK ==
    /\ tcpUp \in BOOLEAN /\ apiUp \in BOOLEAN /\ tcpDown \in BOOLEAN
    /\ pc \in {"sleep", "preflight", "handshake", "connected"}
    /\ attempts \in 0..MaxAttempts /\ shakes \in 0..MaxAttempts
    /\ wait \in 0..CalmInterval
    /\ sinceUp \in 0..MaxClock /\ sinceShake \in 0..MaxClock

(* An outage never becomes a handshake storm: with the endpoint accepting, *)
(* the k-th failed handshake in a row is followed by at least the k-th     *)
(* delay, so by the calm interval once CalmAfter have failed; and however  *)
(* the endpoint flaps, two handshakes are at least the base delay apart.   *)
HandshakeSpacing ==
    pc = "handshake" => /\ sinceShake >= FirstDelay
                        /\ sinceShake >= Backoff(shakes)

(* The documented worst case: a gateway that is back and stays is          *)
(* handshaken within the calm interval, plus the timeout of the phase that *)
(* was running when it came back and one pre-flight.                       *)
RecoveryWithinCalmInterval ==
    pc # "connected" =>
      sinceUp <= CalmInterval + PreflightMax
                 + (IF HandshakeMax >= PreflightMax THEN HandshakeMax ELSE PreflightMax)

(* The documented exception: when it was the endpoint that was refusing    *)
(* and it is back, the calm interval is not waited out.                    *)
TcpReturnSkipsCalmWait ==
    pc = "preflight" /\ tcpDown /\ tcpUp => sinceUp < CalmInterval
=============================================================================
