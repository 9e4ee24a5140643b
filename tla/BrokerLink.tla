----------------------------- MODULE BrokerLink -----------------------------
(***************************************************************************)
(* What the connection manager promises to the rest of the bridge, without *)
(* its tasks, locks and timers: at any time the bridge offers at most one  *)
(* broker session; a session that stops being offered was never replaced   *)
(* in place, and it was withdrawn for a reason - its socket was gone, it   *)
(* left StrikeLimit liveness probes in a row unanswered, or the process    *)
(* was ending.  Connection.tla implements this module.                     *)
(***************************************************************************)
EXTENDS Naturals

CONSTANTS
    Session,      \* identities of broker sessions
    None,         \* no session
    StrikeLimit   \* unanswered probes in a row that condemn a session

VARIABLES
    link,         \* the session on offer, or None
    sound,        \* the socket of the session on offer is up
    strikes,      \* probes in a row the session on offer left unanswered
    running       \* the process has not been asked to end

vars == <<link, sound, strikes, running>>

Init ==
    /\ link = None
    /\ sound = FALSE
    /\ strikes = 0
    /\ running = TRUE

(* A new session goes on offer: only into an empty slot, with a clean      *)
(* record.  Its socket may already have died since the handshake.          *)
Offer(s) ==
    /\ link = None
    /\ link' = s
    /\ strikes' = 0
    /\ sound' \in BOOLEAN
    /\ UNCHANGED running

SocketLost ==
    /\ sound
    /\ sound' = FALSE
    /\ UNCHANGED <<link, strikes, running>>

ProbeAnswered ==
    /\ strikes' = 0
    /\ UNCHANGED <<link, sound, running>>

ProbeMissed ==
    /\ strikes < StrikeLimit
    /\ strikes' = strikes + 1
    /\ UNCHANGED <<link, sound, running>>

(* The session on offer is withdrawn because the evidence condemns it.     *)
Withdraw ==
    /\ link # None
    /\ ~sound \/ strikes = StrikeLimit
    /\ link' = None
    /\ sound' = FALSE
    /\ UNCHANGED <<strikes, running>>

BeginStop ==
    /\ running
    /\ running' = FALSE
    /\ UNCHANGED <<link, sound, strikes>>

(* An ending process may withdraw a healthy session.                       *)
WithdrawForStop ==
    /\ ~running
    /\ link' = None
    /\ sound' = FALSE
    /\ UNCHANGED <<strikes, running>>

(* The process is gone, whatever it was doing, and its record with it.     *)
Crash ==
    /\ link' = None
    /\ sound' = FALSE
    /\ strikes' = 0
    /\ running' = FALSE

Restart ==
    /\ ~running
    /\ running' = TRUE
    /\ UNCHANGED <<link, sound, strikes>>

Next ==
    \/ \E s \in Session : Offer(s)
    \/ SocketLost
    \/ ProbeAnswered
    \/ ProbeMissed
    \/ Withdraw
    \/ BeginStop
    \/ WithdrawForStop
    \/ Crash
    \/ Restart

Spec == Init /\ [][Next]_vars
=============================================================================
