-------------------------- MODULE ConnectionProofs --------------------------
(***************************************************************************)
(* Theorems about Connection, for every set of sessions and every limit.   *)
(*                                                                         *)
(* None of the safety properties is inductive alone: that the slot is      *)
(* empty while the loop reconnects depends on where main is in its         *)
(* shutdown, that no session leaks on whose hands hold which session, and  *)
(* that a withdrawal is justified on the failure count of the session on   *)
(* offer.  IInv collects what each of them needs.                          *)
(***************************************************************************)
EXTENDS SessionUse, TLAPS

(* Where the write lock is, and what that keeps the reconnect task from.   *)
ShutdownInv ==
    /\ lock = "main" <=> proc = "closing"
    /\ mheld # None <=> proc = "closing"
    /\ proc = "closing" =>
         /\ slot = None
         /\ rpc \in {"maintain", "probe", "reply", "drop"}

(* Which session is in whose hands.                                        *)
HandsInv ==
    /\ slot # None => slot \in Owned
    /\ rpc \in {"install", "disconnect"} => rheld \in Owned
    /\ rpc = "reply" => /\ rheld # None
                        /\ rheld \in Owned => rheld \in {slot, mheld}
    /\ rpc \notin {"install", "disconnect", "reply"} => rheld = None
    /\ \A s \in Owned : s \in {slot, rheld, mheld}

(* What the failure count of maintain_connection says of its session.      *)
EvidenceInv ==
    /\ rpc \in {"maintain", "probe", "reply"} => fails < ProbeLimit
    /\ rpc = "drop" => ~IsConnected \/ fails = ProbeLimit

(* The canary's counter, its published copy and the outage mark.           *)
OutageInv ==
    /\ brokerFailures = cfails
    /\ cpc = "clear" => brokerFailures = 0
    /\ cpc = "stamp" => brokerFailures > 0
    /\ OutageFlagsAgree

(* The canary's self-probe count and the answers the probes really got.    *)
SilenceInv ==
    /\ Running => silence = selfFails /\ selfFails < SelfLimit
    /\ ~Running => selfFails = 0
    /\ ExitOnlyWhenWedged

IInv ==
    /\ TypeOK
    /\ ShutdownInv
    /\ SlotEmptyWhileReconnecting
    /\ HandsInv
    /\ EvidenceInv
    /\ OutageInv
    /\ SilenceInv

-----------------------------------------------------------------------------
(* The words of the invariant, expanded in every proof below.              *)
USE NoneAssumption, LimitAssumption, ModeAssumption
USE DEF Maybe, Condition, ReconnectPc, CanaryPc, Running, SlotReadable,
        Owned, IsConnected, GetClientOk, Answers, OutageFlagsAgree,
        ExitOnlyWhenWedged, SlotEmptyWhileReconnecting

(* A process starts in the invariant.                                      *)
LEMMA InitInv == Init => IInv
<1> SUFFICES ASSUME Init PROVE IInv
  OBVIOUS
<1>1. TypeOK
  <2>1. 0 \in 0..ProbeLimit /\ 0 \in 0..SelfLimit /\ 0 \in 0..MaxFailures
    OBVIOUS
  <2>2. sess \in [Session -> Condition]
    BY DEF Init
  <2>3. outageStarted \in BOOLEAN /\ httpUp \in BOOLEAN
    BY Zenon DEF Init
  <2> QED
    BY <2>1, <2>2, <2>3, Zenon DEF Init, TypeOK
<1>2. ShutdownInv /\ SlotEmptyWhileReconnecting /\ EvidenceInv /\ SilenceInv
  BY DEF Init, ShutdownInv, EvidenceInv, SilenceInv
<1>3. HandsInv
  BY DEF Init, HandsInv
<1>4. OutageInv
  BY DEF Init, OutageInv
<1> QED
  BY <1>1, <1>2, <1>3, <1>4 DEF IInv

(* The reconnect task preserves the invariant.                             *)
LEMMA ReconnectInv == IInv /\ ReconnectTask => IInv'
<1> SUFFICES ASSUME IInv, ReconnectTask PROVE IInv'
  OBVIOUS
<1> USE DEF IInv, TypeOK, ShutdownInv, HandsInv, EvidenceInv, OutageInv, SilenceInv,
            Reconnecting, ProbeFailed, env, canaryVars, mainVars
<1>1. CASE Backoff
  BY <1>1 DEF Backoff
<1>2. CASE Preflight
  BY <1>2 DEF Preflight
<1>3. CASE HandshakeFails
  BY <1>3 DEF HandshakeFails
<1>4. CASE Install
  BY <1>4 DEF Install
<1>5. CASE MaintainCheck
  BY <1>5 DEF MaintainCheck
<1>6. CASE ProbeStart
  BY <1>6 DEF ProbeStart
<1>7. CASE ProbeReply
  BY <1>7 DEF ProbeReply
<1>8. CASE DropTake
  BY <1>8 DEF DropTake
<1>9. CASE DropDone
  BY <1>9 DEF DropDone
<1>10. ASSUME NEW s \in Session, HandshakeOk(s) PROVE IInv'
  BY <1>10 DEF HandshakeOk
<1> QED
  BY <1>1, <1>2, <1>3, <1>4, <1>5, <1>6, <1>7, <1>8, <1>9, <1>10 DEF ReconnectTask

(* The end of a process, for whatever reason, leaves the invariant true.   *)
LEMMA EndInv ==
  ASSUME IInv, NEW how \in {"wedged", "server", "clean"}, EndProcess(how),
         UNCHANGED env, silence' \in 0..SelfLimit,
         how = "wedged" => HttpMode /\ silence' = SelfLimit
  PROVE  IInv'
<1>1. TypeOK'
  <2>1. 0 \in 0..ProbeLimit /\ 0 \in 0..SelfLimit /\ 0 \in 0..MaxFailures
    OBVIOUS
  <2>2. sess' \in [Session -> Condition]
    BY DEF EndProcess
  <2>3. outageStarted' \in BOOLEAN
    BY Zenon DEF EndProcess
  <2>4. tcpUp' \in BOOLEAN /\ apiUp' \in BOOLEAN /\ httpUp' \in BOOLEAN
    BY DEF IInv, TypeOK, env
  <2> QED
    BY <2>1, <2>2, <2>3, <2>4, Zenon DEF EndProcess, TypeOK
<1>2. ShutdownInv' /\ SlotEmptyWhileReconnecting' /\ EvidenceInv'
  BY DEF EndProcess, ShutdownInv, EvidenceInv
<1>3. SilenceInv'
  BY DEF EndProcess, SilenceInv
<1>4. HandsInv'
  BY DEF EndProcess, HandsInv
<1>5. OutageInv'
  BY DEF EndProcess, OutageInv
<1> QED
  BY <1>1, <1>2, <1>3, <1>4, <1>5 DEF IInv

(* The environment preserves the invariant.                                *)
LEMMA EnvironmentInv == IInv /\ Environment => IInv'
<1> SUFFICES ASSUME IInv, Environment PROVE IInv'
  OBVIOUS
<1> USE DEF IInv, TypeOK, ShutdownInv, HandsInv, EvidenceInv, OutageInv, SilenceInv,
            env, reconnectVars, canaryVars, mainVars
<1>1. CASE ToggleTcp
  BY <1>1 DEF ToggleTcp
<1>2. CASE ToggleApi
  BY <1>2 DEF ToggleApi
<1>3. CASE ToggleHttp
  BY <1>3 DEF ToggleHttp
<1>4. ASSUME NEW s \in Session, SessionFault(s) PROVE IInv'
  BY <1>4 DEF SessionFault
<1>5. ASSUME NEW s \in Session, Reap(s) PROVE IInv'
  BY <1>5 DEF Reap
<1> QED
  BY <1>1, <1>2, <1>3, <1>4, <1>5 DEF Environment

(* So does the canary.                                                    *)
LEMMA CanaryInv == IInv /\ CanaryTask => IInv'
<1> SUFFICES ASSUME IInv, CanaryTask PROVE IInv'
  OBVIOUS
<1> USE DEF IInv, TypeOK, ShutdownInv, HandsInv, EvidenceInv, OutageInv, SilenceInv,
            Canary, Saturate, EndProcess, env, reconnectVars, mainVars
<1>1. CASE CanaryTick
  BY <1>1 DEF CanaryTick
<1>2. CASE CanaryProbe
  BY <1>2 DEF CanaryProbe
<1>3. CASE CanaryReply
  BY <1>3 DEF CanaryReply
<1>4. CASE CanaryGood
  BY <1>4 DEF CanaryGood
<1>5. CASE CanaryClear
  <2>1. outageStarted' = FALSE /\ cpc' = "self" /\ brokerFailures' = 0 /\ cfails' = 0
    BY <1>5 DEF CanaryClear
  <2>2. OutageInv'
    BY <2>1
  <2>3. outageStarted' \in BOOLEAN
    BY <2>1, Zenon
  <2> QED
    BY <1>5, <2>2, <2>3 DEF CanaryClear
<1>6. CASE CanaryBad
  BY <1>6 DEF CanaryBad
<1>7. CASE CanaryStamp
  BY <1>7 DEF CanaryStamp
<1>8. CASE CanarySelfAnswered
  BY <1>8 DEF CanarySelfAnswered
<1>9. CASE CanarySelfSilent
  BY <1>9 DEF CanarySelfSilent
<1>10. CASE CanaryExit
  <2>1. silence' = SelfLimit /\ EndProcess("wedged") /\ HttpMode /\ UNCHANGED env
    BY <1>10 DEF CanaryExit
  <2> QED
    <3> HIDE DEF IInv, EndProcess
    <3>1. SelfLimit \in 0..SelfLimit
      OBVIOUS
    <3> QED
      BY <2>1, <3>1, EndInv, Zenon
<1> QED
  BY <1>1, <1>2, <1>3, <1>4, <1>5, <1>6, <1>7, <1>8, <1>9, <1>10 DEF CanaryTask

(* So do main and systemd.                                                *)
LEMMA MainInv == IInv /\ Main => IInv'
<1> SUFFICES ASSUME IInv, Main PROVE IInv'
  OBVIOUS
<1> USE DEF IInv, TypeOK, ShutdownInv, HandsInv, EvidenceInv, OutageInv, SilenceInv,
            EndProcess, env, reconnectVars, canaryVars
<1>1. CASE ServerEnds
  BY <1>1, EndInv, Zenon DEF ServerEnds
<1>2. CASE Interrupt
  BY <1>2 DEF Interrupt
<1>3. CASE ShutdownTake
  BY <1>3 DEF ShutdownTake
<1>4. CASE ShutdownDone
  BY <1>4 DEF ShutdownDone
<1>5. CASE MainReturns
  BY <1>5, EndInv, Zenon DEF MainReturns
<1>6. CASE Restart
  BY <1>6 DEF Restart
<1> QED
  BY <1>1, <1>2, <1>3, <1>4, <1>5, <1>6 DEF Main

(* IInv is inductive.                                                      *)
LEMMA StepInv == IInv /\ [Next]_vars => IInv'
<1> SUFFICES ASSUME IInv, [Next]_vars PROVE IInv'
  OBVIOUS
<1>1. CASE UNCHANGED vars
  BY <1>1 DEF IInv, TypeOK, ShutdownInv, HandsInv, EvidenceInv, OutageInv, SilenceInv,
              vars, env, reconnectVars, canaryVars, mainVars
<1> QED
  BY <1>1, EnvironmentInv, ReconnectInv, CanaryInv, MainInv DEF Next

(* Every reachable state satisfies the inductive invariant.                *)
THEOREM InductiveInvariant == Spec => []IInv
BY InitInv, StepInv, PTL DEF Spec

(* Every variable of Connection keeps its type.                            *)
THEOREM TypeCorrect == Spec => []TypeOK
<1>1. IInv => TypeOK
  BY DEF IInv
<1> QED
  BY <1>1, InductiveInvariant, PTL

(* During an outage the slot is empty, so Install never disconnects an old *)
(* client under the write lock.                                            *)
THEOREM EmptySlotDuringOutage == Spec => []SlotEmptyWhileReconnecting
<1>1. IInv => SlotEmptyWhileReconnecting
  BY DEF IInv
<1> QED
  BY <1>1, InductiveInvariant, PTL

(* The bridge owns at most one broker session at a time.                   *)
THEOREM OneSession == Spec => []AtMostOneSession
<1>1. IInv => AtMostOneSession
  BY DEF IInv, TypeOK, ShutdownInv, HandsInv, AtMostOneSession
<1> QED
  BY <1>1, InductiveInvariant, PTL

(* No session leaks and none that was given up is on offer.                *)
THEOREM NoLeak == Spec => []NoLeakedSession
<1>1. IInv => NoLeakedSession
  BY DEF IInv, HandsInv, NoLeakedSession
<1> QED
  BY <1>1, InductiveInvariant, PTL

(* The published failure count and outage mark agree between ticks.        *)
THEOREM OutageAgreement == Spec => []OutageFlagsAgree
<1>1. IInv => OutageFlagsAgree
  BY DEF IInv, OutageInv
<1> QED
  BY <1>1, InductiveInvariant, PTL

(* Only a silent HTTP server makes the canary end the process.             *)
THEOREM WedgeExit == Spec => []ExitOnlyWhenWedged
<1>1. IInv => ExitOnlyWhenWedged
  BY DEF IInv, SilenceInv
<1> QED
  BY <1>1, InductiveInvariant, PTL

-----------------------------------------------------------------------------
(* Connection implements BrokerLink.                                       *)

(* A process that starts offers no link.                                   *)
LEMMA LinkInit == Init => Link!Init
<1> SUFFICES ASSUME Init PROVE Link!Init
  OBVIOUS
<1>1. (proc = "up") = TRUE
  BY Zenon DEF Init
<1>2. IsConnected = FALSE
  BY DEF Init
<1> QED
  BY <1>1, <1>2, Zenon DEF Init, Link!Init

(* The end of a process is a crash of the link.                            *)
LEMMA LinkEnd ==
  ASSUME IInv, NEW how \in {"wedged", "server", "clean"}, EndProcess(how)
  PROVE  Link!Next
<1>1. slot' = None /\ fails' = 0 /\ (IsConnected' = FALSE) /\ ((proc = "up")' = FALSE)
  BY DEF EndProcess
<1> QED
  BY <1>1, Zenon DEF Link!Next, Link!Crash

(* What Link!vars is, under the mapping.                                   *)
LinkSame == UNCHANGED <<slot, IsConnected, fails, proc = "up">>

(* A step that changes none of these is a stutter of the link.             *)
LEMMA LinkStutter == LinkSame => UNCHANGED Link!vars
BY Zenon DEF LinkSame, Link!vars

(* Every step of the reconnect task is a step of the link or none.         *)
LEMMA LinkReconnect == IInv /\ ReconnectTask => [Link!Next]_(Link!vars)
<1> SUFFICES ASSUME IInv, ReconnectTask PROVE Link!Next \/ LinkSame
  BY LinkStutter
<1>0. (proc = "up")' = (proc = "up")
  BY DEF ReconnectTask, Backoff, Preflight, HandshakeOk, HandshakeFails, Install,
         MaintainCheck, ProbeStart, ProbeReply, DropTake, DropDone,
         Reconnecting, ProbeFailed, mainVars
<1> USE DEF Reconnecting, ProbeFailed, mainVars
<1>1. CASE Backoff \/ Preflight \/ HandshakeFails \/ MaintainCheck
  BY <1>1, <1>0 DEF Backoff, Preflight, HandshakeFails, MaintainCheck, LinkSame
<1>2. ASSUME NEW s \in Session, HandshakeOk(s) PROVE LinkSame
  BY <1>2, <1>0 DEF HandshakeOk, LinkSame, IInv, TypeOK
<1>3. CASE Install
  <2>1. rheld \in Session /\ slot = None /\ slot' = rheld /\ fails' = 0
    BY <1>3 DEF Install, IInv, HandsInv
  <2>2. IsConnected' \in BOOLEAN
    OBVIOUS
  <2> QED
    BY <2>1, <2>2, <1>0, Zenon DEF Link!Next, Link!Offer
<1>4. CASE ProbeStart
  <2>1. UNCHANGED <<slot, IsConnected>>
    BY <1>4 DEF ProbeStart
  <2>2. CASE fails' = fails
    BY <2>1, <2>2, <1>0 DEF LinkSame
  <2>3. CASE fails' # fails
    <3>1. fails < ProbeLimit /\ fails' = fails + 1
      BY <1>4, <2>3 DEF ProbeStart, IInv, EvidenceInv
    <3> QED
      BY <2>1, <3>1, <1>0, Zenon DEF Link!Next, Link!ProbeMissed
  <2> QED
    BY <2>2, <2>3
<1>5. CASE ProbeReply
  <2>1. UNCHANGED <<slot, IsConnected>>
    BY <1>5 DEF ProbeReply
  <2>2. CASE fails' = 0
    BY <2>1, <2>2, <1>0, Zenon DEF Link!Next, Link!ProbeAnswered
  <2>3. CASE fails' # 0
    <3>1. fails < ProbeLimit /\ fails' = fails + 1
      BY <1>5, <2>3 DEF ProbeReply, IInv, EvidenceInv
    <3> QED
      BY <2>1, <3>1, <1>0, Zenon DEF Link!Next, Link!ProbeMissed
  <2> QED
    BY <2>2, <2>3
<1>6. CASE DropTake
  <2>1. slot' = None /\ (IsConnected' = FALSE) /\ fails' = fails
    BY <1>6 DEF DropTake
  <2>2. CASE slot = None
    BY <2>1, <2>2, <1>0 DEF LinkSame
  <2>3. CASE slot # None
    <3>1. ~IsConnected \/ fails = ProbeLimit
      BY <1>6 DEF DropTake, IInv, EvidenceInv
    <3> QED
      BY <2>1, <2>3, <3>1, <1>0, Zenon DEF Link!Next, Link!Withdraw
  <2> QED
    BY <2>2, <2>3
<1>7. CASE DropDone
  BY <1>7, <1>0 DEF DropDone, LinkSame, IInv
<1> QED
  BY <1>1, <1>2, <1>3, <1>4, <1>5, <1>6, <1>7 DEF ReconnectTask

(* So is every step of the environment.                                    *)
LEMMA LinkEnvironment == IInv /\ Environment => [Link!Next]_(Link!vars)
<1> SUFFICES ASSUME IInv, Environment PROVE Link!Next \/ LinkSame
  BY LinkStutter
<1>1. CASE ToggleTcp \/ ToggleApi \/ ToggleHttp
  BY <1>1 DEF ToggleTcp, ToggleApi, ToggleHttp, LinkSame, reconnectVars, mainVars
<1>2. ASSUME NEW s \in Session, SessionFault(s) PROVE Link!Next \/ LinkSame
  <2>1. slot' = slot /\ fails' = fails /\ ((proc = "up")' = (proc = "up"))
    BY <1>2 DEF SessionFault, reconnectVars, mainVars
  <2>2. CASE s = slot /\ sess'[s] = "dead" /\ IsConnected
    <3>1. IsConnected' = FALSE
      BY <2>1, <2>2
    <3> QED
      BY <2>1, <2>2, <3>1, Zenon DEF Link!Next, Link!SocketLost
  <2>3. CASE ~(s = slot /\ sess'[s] = "dead" /\ IsConnected)
    <3>1. IsConnected' = IsConnected
      BY <1>2, <2>1, <2>3 DEF SessionFault, IInv, TypeOK
    <3> QED
      BY <2>1, <3>1 DEF LinkSame
  <2> QED
    BY <2>2, <2>3
<1>3. ASSUME NEW s \in Session, Reap(s) PROVE LinkSame
  BY <1>3 DEF Reap, LinkSame, IInv, TypeOK, HandsInv, reconnectVars, mainVars
<1> QED
  BY <1>1, <1>2, <1>3 DEF Environment

(* The canary moves the link only by ending the process.                   *)
LEMMA LinkCanary == IInv /\ CanaryTask => [Link!Next]_(Link!vars)
<1> SUFFICES ASSUME IInv, CanaryTask PROVE Link!Next \/ LinkSame
  BY LinkStutter
<1>1. CASE CanaryExit
  BY <1>1, LinkEnd, Zenon DEF CanaryExit
<1>2. CASE ~CanaryExit
  BY <1>2 DEF CanaryTask, CanaryTick, CanaryProbe, CanaryReply, CanaryGood, CanaryClear,
              CanaryBad, CanaryStamp, CanarySelfAnswered, CanarySelfSilent, Canary,
              LinkSame, reconnectVars, mainVars
<1> QED
  BY <1>1, <1>2

(* And every step of main and systemd is a step of the link or none.       *)
LEMMA LinkMain == IInv /\ Main => [Link!Next]_(Link!vars)
<1> SUFFICES ASSUME IInv, Main PROVE Link!Next \/ LinkSame
  BY LinkStutter
<1>1. CASE ServerEnds \/ MainReturns
  BY <1>1, LinkEnd, Zenon DEF ServerEnds, MainReturns
<1>2. CASE Interrupt
  <2>1. slot' = slot /\ fails' = fails /\ (IsConnected' = IsConnected)
    BY <1>2 DEF Interrupt, reconnectVars
  <2>2. ((proc = "up") = TRUE) /\ ((proc = "up")' = FALSE)
    BY <1>2 DEF Interrupt
  <2> QED
    BY <2>1, <2>2, Zenon DEF Link!Next, Link!BeginStop
<1>3. CASE ShutdownTake
  <2>1. ((proc = "up") = FALSE) /\ ((proc = "up")' = FALSE) /\ fails' = fails
    BY <1>3 DEF ShutdownTake, reconnectVars
  <2>2. slot' = None /\ (IsConnected' = FALSE)
    BY <1>3 DEF ShutdownTake
  <2> QED
    BY <2>1, <2>2, Zenon DEF Link!Next, Link!WithdrawForStop
<1>4. CASE ShutdownDone
  BY <1>4 DEF ShutdownDone, LinkSame, reconnectVars, IInv, TypeOK, ShutdownInv
<1>5. CASE Restart
  <2>1. slot' = slot /\ fails' = fails /\ (IsConnected' = IsConnected)
    BY <1>5 DEF Restart, reconnectVars
  <2>2. ((proc = "up") = FALSE) /\ ((proc = "up")' = TRUE)
    BY <1>5 DEF Restart
  <2> QED
    BY <2>1, <2>2, Zenon DEF Link!Next, Link!Restart
<1> QED
  BY <1>1, <1>2, <1>3, <1>4, <1>5 DEF Main

(* The connection manager keeps the promise of BrokerLink.                 *)
THEOREM Refinement == Spec => ImplementsBrokerLink
<1>1. IInv /\ [Next]_vars => [Link!Next]_(Link!vars)
  <2> SUFFICES ASSUME IInv, [Next]_vars PROVE [Link!Next]_(Link!vars)
    OBVIOUS
  <2>1. CASE UNCHANGED vars
    BY <2>1, LinkStutter DEF vars, reconnectVars, mainVars, LinkSame
  <2> QED
    BY <2>1, LinkReconnect, LinkEnvironment, LinkCanary, LinkMain DEF Next
<1> QED
  BY <1>1, LinkInit, InductiveInvariant, PTL DEF Spec, ImplementsBrokerLink, Link!Spec

-----------------------------------------------------------------------------
(* Connection with a user of its sessions implements ClientSlot.           *)

(* A client that is not closed is of a session that is not, and a session  *)
(* in the making is nobody's yet.                                          *)
UseInv ==
    /\ use \in Session \cup {None, Closed}
    /\ use \in Session => /\ sess[use] \in {"open", "stale", "orphan"}
                          /\ rpc = "install" => use # rheld
    /\ ~Running => use = None

SlotSame == UNCHANGED <<Offer, Hold>>
SlotMoves == Slot!Next \/ SlotSame

LEMMA OfferIs ==
    /\ slot = None => Offer = "none"
    /\ slot # None => /\ sess[slot] = "open" => Offer = "live"
                      /\ sess[slot] = "stale" => Offer = "stale"
                      /\ sess[slot] \notin {"open", "stale"} => Offer = "dead"
  BY DEF Offer

LEMMA HoldIs ==
    /\ use = None => Hold = "none"
    /\ use = Closed => Hold = "closed"
    /\ use \in Session => Hold = IF use = slot THEN "current" ELSE "orphan"
<1>1. Closed # None /\ Closed \notin Session
  BY ClosedAssumption
<1> QED
  BY <1>1 DEF Hold

LEMMA OfferIsNext ==
    /\ slot' = None => Offer' = "none"
    /\ slot' # None => /\ sess'[slot'] = "open" => Offer' = "live"
                       /\ sess'[slot'] = "stale" => Offer' = "stale"
                       /\ sess'[slot'] \notin {"open", "stale"} => Offer' = "dead"
  BY DEF Offer

LEMMA HoldIsNext ==
    /\ use' = None => Hold' = "none"
    /\ use' = Closed => Hold' = "closed"
    /\ use' \in Session => Hold' = IF use' = slot' THEN "current" ELSE "orphan"
<1>1. Closed # None /\ Closed \notin Session
  BY ClosedAssumption
<1> QED
  BY <1>1 DEF Hold

(* What a step that does not end the process does to a client.             *)
GoesOn == Carried /\ (Running' \/ use = None)

LEMMA Carrying ==
    ASSUME UseInv, GoesOn
    PROVE  /\ use \notin Session => use' = use
           /\ use \in Session => use' = IF sess'[use] \in {"free", "dead"} THEN Closed ELSE use
           /\ ~Running' => use' = None
  BY DEF GoesOn, Carried, ClientOf

LEMMA UseKept ==
    ASSUME UseInv, GoesOn, \A t \in Session : sess'[t] \in Condition,
           rpc' = "install" => UNCHANGED <<rpc, rheld>>
    PROVE  UseInv'
<1>1. Closed \notin Session /\ Closed # None
  BY ClosedAssumption
<1>2. CASE use \in Session
  <2>1. use' = IF sess'[use] \in {"free", "dead"} THEN Closed ELSE use
    BY <1>2, Carrying
  <2>2. ~Running' => use' = None
    BY Carrying
  <2> QED
    BY <1>1, <1>2, <2>1, <2>2 DEF UseInv
<1>3. CASE use \notin Session
  <2>1. use' = use /\ (~Running' => use' = None)
    BY <1>3, Carrying
  <2> QED
    BY <1>3, <2>1 DEF UseInv
<1> QED
  BY <1>2, <1>3

(* A step that leaves the slot and the sessions alone is none to a user.   *)
LEMMA Untouched ==
    ASSUME UseInv, GoesOn, UNCHANGED <<sess, slot>>
    PROVE  use' = use /\ SlotSame
<1>1. use' = use
  BY Carrying DEF UseInv
<1> QED
  BY <1>1 DEF SlotSame, Offer, Hold

(* The end of the process is the end of its clients.                       *)
LEMMA UseEnds ==
    ASSUME Carried, NEW how, EndProcess(how)
    PROVE  UseInv' /\ SlotMoves
<1>1. use' = None /\ slot' = None
  BY DEF Carried, EndProcess
<1>2. Offer' = "none" /\ Hold' = "none"
  BY <1>1, OfferIsNext, HoldIsNext
<1> QED
  BY <1>1, <1>2 DEF UseInv, SlotMoves, Slot!Next, Slot!Environment, Slot!Ends

(* The slot is emptied: its session's client is an orphan's from here on.  *)
LEMMA Emptied ==
    ASSUME IInv, UseInv, slot # None, slot' = None, use' = use, UNCHANGED sess
    PROVE  SlotMoves
<1>1. Offer # "none" /\ Offer' = "none"
  BY OfferIs, OfferIsNext DEF IInv, HandsInv
<1>2. Hold' = IF Hold = "current" THEN "orphan" ELSE Hold
  BY HoldIs, HoldIsNext DEF UseInv, IInv, TypeOK
<1> QED
  BY <1>1, <1>2 DEF SlotMoves, Slot!Next, Slot!Environment, Slot!Withdrawn

(* A session that is not on offer changes: its client is closed or not.    *)
LEMMA Elsewhere ==
    ASSUME UseInv, GoesOn, UNCHANGED slot, NEW s, s # slot,
           \A t \in Session : t # s => sess'[t] = sess[t],
           slot \in Session \cup {None}
    PROVE  SlotMoves
<1>1. UNCHANGED Offer
  BY OfferIs, OfferIsNext DEF Offer
<1>2. CASE use' = use
  <2>1. UNCHANGED Hold
    BY <1>2 DEF Hold
  <2> QED
    BY <1>1, <2>1 DEF SlotMoves, SlotSame
<1>3. CASE use' # use
  <2>1. use = s /\ use \in Session /\ use' = Closed
    BY <1>3, Carrying DEF UseInv
  <2>2. Hold = "orphan" /\ Hold' = "closed"
    BY <2>1, HoldIs, HoldIsNext
  <2> QED
    BY <1>1, <2>2 DEF SlotMoves, Slot!Next, Slot!Environment, Slot!Closes
<1> QED
  BY <1>2, <1>3

(* Every step of the reconnect task.                                       *)
LEMMA UseReconnect ==
    ASSUME IInv, UseInv, ReconnectTask, Carried
    PROVE  UseInv' /\ SlotMoves
<1> USE DEF IInv, TypeOK
<1>1. GoesOn
  BY DEF GoesOn, ReconnectTask, Backoff, Preflight, HandshakeOk, HandshakeFails, Install, MaintainCheck,
         ProbeStart, ProbeReply, DropTake, DropDone, Reconnecting, ProbeFailed, mainVars
<1>2. CASE Backoff \/ Preflight \/ HandshakeFails \/ MaintainCheck \/ ProbeStart \/ ProbeReply
  <2>1. UNCHANGED <<sess, slot>> /\ rpc' # "install"
    BY <1>2 DEF Backoff, Preflight, HandshakeFails, MaintainCheck, ProbeStart, ProbeReply,
                Reconnecting, ProbeFailed
  <2>2. use' = use /\ SlotSame
    BY <1>1, <2>1, Untouched
  <2> QED
    BY <1>1, <2>1, <2>2, UseKept DEF SlotMoves
<1>3. ASSUME NEW s \in Session, HandshakeOk(s) PROVE UseInv' /\ SlotMoves
  <2>1. /\ sess[s] = "free" /\ slot' = slot /\ rheld' = s /\ slot = None
        /\ sess' = [sess EXCEPT ![s] = "open"]
    BY <1>3 DEF HandshakeOk, Reconnecting
  <2>2. use' = use /\ use # s /\ (~Running' => use' = None)
    BY <1>1, <2>1, Carrying DEF UseInv
  <2>3. UseInv'
    BY <2>1, <2>2 DEF UseInv
  <2>4. SlotSame
    BY <2>1, <2>2 DEF SlotSame, Offer, Hold
  <2> QED
    BY <2>3, <2>4 DEF SlotMoves
<1>4. CASE Install
  <2>1. /\ slot = None /\ rheld \in Owned /\ slot' = rheld /\ sess' = sess
        /\ rpc = "install" /\ rpc' = "maintain"
    BY <1>4 DEF Install, Reconnecting, HandsInv
  <2>2. use' = use
    BY <1>1, <2>1, Carrying DEF UseInv
  <2>3. UseInv'
    BY <1>1, <2>1, UseKept
  <2>4. Offer = "none" /\ Offer' \in {"live", "stale", "dead"}
    BY <2>1, OfferIs, OfferIsNext
  <2>5. Hold' = Hold
    BY <2>1, <2>2, HoldIs, HoldIsNext DEF UseInv
  <2> QED
    BY <2>3, <2>4, <2>5 DEF SlotMoves, Slot!Next, Slot!Environment, Slot!Offered
<1>5. CASE DropTake
  <2>1. UNCHANGED sess /\ slot' = None /\ rpc' # "install"
    BY <1>5 DEF DropTake, Reconnecting
  <2>2. use' = use
    BY <1>1, <2>1, Carrying DEF UseInv
  <2>3. UseInv'
    BY <1>1, <2>1, UseKept
  <2>4. CASE slot = None
    BY <2>1, <2>2, <2>3, <2>4 DEF SlotMoves, SlotSame, Offer, Hold
  <2>5. CASE slot # None
    BY <2>1, <2>2, <2>3, <2>5, Emptied
  <2> QED
    BY <2>4, <2>5
<1>6. CASE DropDone
  <2>1. /\ rheld \in Session /\ slot = None /\ slot' = None /\ rpc' # "install"
        /\ sess'[rheld] \in {"free", "orphan"}
        /\ \A t \in Session : t # rheld => sess'[t] = sess[t]
    BY <1>6 DEF DropDone, Reconnecting, HandsInv
  <2>2. SlotMoves
    BY <1>1, <2>1, Elsewhere
  <2>3. UseInv'
    BY <1>1, <2>1, UseKept
  <2> QED
    BY <2>2, <2>3
<1> QED
  BY <1>2, <1>3, <1>4, <1>5, <1>6 DEF ReconnectTask

(* Of the environment, only what happens to sockets matters to a user.     *)
LEMMA UseEnvironment ==
    ASSUME IInv, UseInv, Environment, Carried
    PROVE  UseInv' /\ SlotMoves
<1> USE DEF IInv, TypeOK
<1>1. UNCHANGED <<slot, rpc, rheld>> /\ GoesOn
  <2>1. UNCHANGED <<slot, rpc, rheld, proc>>
    BY DEF Environment, ToggleTcp, ToggleApi, ToggleHttp, SessionFault, Reap, reconnectVars,
           mainVars
  <2> QED
    BY <2>1 DEF UseInv, GoesOn
<1>2. CASE ToggleTcp \/ ToggleApi \/ ToggleHttp
  <2>1. UNCHANGED sess
    BY <1>2 DEF ToggleTcp, ToggleApi, ToggleHttp
  <2> QED
    BY <1>1, <2>1, Untouched, UseKept DEF SlotMoves
<1>3. ASSUME NEW s \in Session, SessionFault(s) PROVE UseInv' /\ SlotMoves
  <2>1. /\ \/ sess[s] = "open" /\ sess'[s] = "stale"
           \/ sess[s] \in {"open", "stale"} /\ sess'[s] = "dead"
        /\ \A t \in Session : t # s => sess'[t] = sess[t]
    BY <1>3 DEF SessionFault
  <2>2. UseInv'
    BY <1>1, <2>1, UseKept
  <2>3. CASE s # slot
    BY <1>1, <2>1, <2>2, <2>3, Elsewhere
  <2>4. CASE s = slot /\ sess'[s] = "stale"
    <3>1. Offer = "live" /\ Offer' = "stale"
      BY <1>1, <2>1, <2>4, OfferIs, OfferIsNext
    <3>2. Hold' = Hold
      BY <1>1, <2>1, <2>4, Carrying DEF UseInv, Hold
    <3> QED
      BY <2>2, <3>1, <3>2 DEF SlotMoves, Slot!Next, Slot!Environment, Slot!TurnsStale
  <2>5. CASE s = slot /\ sess'[s] = "dead"
    <3>1. Offer \in {"live", "stale"} /\ Offer' = "dead"
      BY <1>1, <2>1, <2>5, OfferIs, OfferIsNext
    <3>2. CASE use = s
      <4>1. use' = Closed
        BY <1>1, <2>1, <2>5, <3>2, Carrying
      <4>2. Hold = "current" /\ Hold' = "closed"
        BY <2>5, <3>2, <4>1, HoldIs, HoldIsNext
      <4> QED
        BY <2>2, <3>1, <4>2 DEF SlotMoves, Slot!Next, Slot!Environment, Slot!Dies
    <3>3. CASE use # s
      <4>1. use' = use
        BY <1>1, <2>1, <3>3, Carrying DEF UseInv
      <4>2. Hold # "current" /\ Hold' = Hold
        BY <1>1, <2>5, <3>3, <4>1 DEF Hold
      <4> QED
        BY <2>2, <3>1, <4>2 DEF SlotMoves, Slot!Next, Slot!Environment, Slot!Dies
    <3> QED
      BY <3>2, <3>3
  <2> QED
    BY <2>1, <2>3, <2>4, <2>5
<1>4. ASSUME NEW s \in Session, Reap(s) PROVE UseInv' /\ SlotMoves
  <2>1. /\ sess[s] = "orphan" /\ sess'[s] = "free" /\ s # slot
        /\ \A t \in Session : t # s => sess'[t] = sess[t]
    BY <1>4 DEF Reap, HandsInv
  <2>2. UseInv'
    BY <1>1, <2>1, UseKept
  <2> QED
    BY <1>1, <2>1, <2>2, Elsewhere
<1> QED
  BY <1>2, <1>3, <1>4 DEF Environment

(* The canary is nothing to a user, unless it ends the process.            *)
LEMMA UseCanary ==
    ASSUME IInv, UseInv, CanaryTask, Carried
    PROVE  UseInv' /\ SlotMoves
<1>1. CASE CanaryExit
  BY <1>1, UseEnds DEF CanaryExit
<1>2. CASE ~CanaryExit
  <2>1. Running' /\ UNCHANGED <<sess, slot, rpc, rheld>>
    BY <1>2 DEF CanaryTask, CanaryTick, CanaryProbe, CanaryReply, CanaryGood, CanaryClear,
              CanaryBad, CanaryStamp, CanarySelfAnswered, CanarySelfSilent, Canary,
              reconnectVars, mainVars
  <2>2. GoesOn
    BY <2>1 DEF GoesOn
  <2>3. \A t \in Session : sess'[t] \in Condition
    BY <2>1 DEF IInv, TypeOK
  <2>4. use' = use /\ SlotSame
    BY <2>1, <2>2, Untouched
  <2>5. UseInv'
    BY <2>1, <2>2, <2>3, <2>4, UseKept
  <2> QED
    BY <2>4, <2>5 DEF SlotMoves
<1> QED
  BY <1>1, <1>2

(* main withdraws the session on offer and disconnects it, or ends.        *)
LEMMA UseMain ==
    ASSUME IInv, UseInv, Main, Carried
    PROVE  UseInv' /\ SlotMoves
<1> USE DEF IInv, TypeOK, GoesOn
<1>1. CASE ServerEnds \/ MainReturns
  BY <1>1, UseEnds DEF ServerEnds, MainReturns
<1>2. CASE Interrupt \/ Restart
  <2>1. Running' /\ UNCHANGED <<sess, slot, rpc, rheld>>
    BY <1>2 DEF Interrupt, Restart, reconnectVars
  <2>2. GoesOn
    BY <2>1 DEF GoesOn
  <2> QED
    BY <2>1, <2>2, Untouched, UseKept DEF SlotMoves
<1>3. CASE ShutdownTake
  <2>1. Running' /\ UNCHANGED <<sess, rpc, rheld>> /\ slot' = None
    BY <1>3 DEF ShutdownTake, reconnectVars
  <2>2. use' = use
    BY <2>1, Carrying DEF UseInv
  <2>3. UseInv'
    BY <2>1, UseKept
  <2>4. CASE slot = None
    BY <2>1, <2>2, <2>3, <2>4 DEF SlotMoves, SlotSame, Offer, Hold
  <2>5. CASE slot # None
    BY <2>1, <2>2, <2>3, <2>5, Emptied
  <2> QED
    BY <2>4, <2>5
<1>4. CASE ShutdownDone
  <2>1. /\ Running' /\ UNCHANGED <<slot, rpc, rheld>> /\ slot = None /\ mheld \in Session
        /\ sess'[mheld] = "free"
        /\ \A t \in Session : t # mheld => sess'[t] = sess[t]
    BY <1>4 DEF ShutdownDone, reconnectVars, ShutdownInv
  <2>2. SlotMoves
    BY <2>1, Elsewhere
  <2>3. UseInv'
    BY <2>1, UseKept
  <2> QED
    BY <2>2, <2>3
<1> QED
  BY <1>1, <1>2, <1>3, <1>4 DEF Main

(* get_client, which may hand out a session whose socket is gone.          *)
LEMMA UseGetClient ==
    ASSUME IInv, UseInv, GetClient
    PROVE  UseInv' /\ SlotMoves
<1> USE DEF IInv, TypeOK
<1>1. use' = ClientOf(slot, sess) /\ UNCHANGED <<slot, sess, rpc, rheld>> /\ Running'
  BY DEF GetClient, vars, reconnectVars, mainVars
<1>2. UNCHANGED Offer
  BY <1>1 DEF Offer
<1>3. CASE slot = None
  <2>1. use' = None
    BY <1>1, <1>3 DEF ClientOf
  <2>2. Offer = "none" /\ Hold' = "none"
    BY <1>3, <2>1, OfferIs, HoldIsNext
  <2> QED
    BY <1>2, <2>1, <2>2 DEF UseInv, SlotMoves, Slot!Next, Slot!GetClient
<1>4. CASE slot # None
  <2>1. slot \in Session /\ sess[slot] \in {"open", "stale", "dead"} /\ rpc # "install"
    BY <1>4 DEF HandsInv
  <2>2. CASE sess[slot] = "dead"
    <3>1. use' = Closed
      BY <1>1, <2>1, <2>2 DEF ClientOf
    <3>2. Offer = "dead" /\ Hold' = "closed"
      BY <1>4, <2>2, <3>1, OfferIs, HoldIsNext
    <3>3. UseInv'
      <4>1. Closed \notin Session /\ Closed # None
        BY ClosedAssumption
      <4> QED
        BY <1>1, <3>1, <4>1 DEF UseInv
    <3> QED
      BY <1>2, <3>2, <3>3 DEF SlotMoves, Slot!Next, Slot!GetClient
  <2>3. CASE sess[slot] # "dead"
    <3>1. use' = slot
      BY <1>1, <2>1, <2>3 DEF ClientOf
    <3>2. Offer \in {"live", "stale"} /\ Hold' = "current"
      BY <1>1, <1>4, <2>1, <2>3, <3>1, OfferIs, HoldIsNext
    <3>3. UseInv'
      BY <1>1, <2>1, <2>3, <3>1 DEF UseInv
    <3> QED
      BY <1>2, <3>2, <3>3 DEF SlotMoves, Slot!Next, Slot!GetClient
  <2> QED
    BY <2>2, <2>3
<1> QED
  BY <1>3, <1>4

(* A step of whatever task.                                                *)
LEMMA UseStep ==
    ASSUME IInv, UseInv, [UseNext]_allVars
    PROVE  UseInv' /\ SlotMoves
<1>1. CASE UNCHANGED allVars
  <2>1. UNCHANGED <<use, slot, sess, rpc, rheld, proc>>
    BY <1>1 DEF allVars, vars, reconnectVars, mainVars
  <2>2. UseInv'
    BY <2>1 DEF UseInv
  <2>3. SlotSame
    BY <2>1 DEF SlotSame, Offer, Hold
  <2> QED
    BY <2>2, <2>3 DEF SlotMoves
<1>2. CASE GetClient
  BY <1>2, UseGetClient
<1>3. CASE Next /\ Carried
  BY <1>3, UseEnvironment, UseReconnect, UseCanary, UseMain DEF Next
<1> QED
  BY <1>1, <1>2, <1>3 DEF UseNext

LEMMA UseStart == UseInit => UseInv /\ Slot!Init
<1> SUFFICES ASSUME UseInit PROVE UseInv /\ Slot!Init
  OBVIOUS
<1>1. Offer = "none" /\ Hold = "none"
  BY OfferIs, HoldIs DEF UseInit, Init
<1> QED
  BY <1>1 DEF UseInit, UseInv, Slot!Init

(* A user changes nothing of the manager's.                                *)
LEMMA UseIsConnection == UseSpec => Spec
<1>1. UseInit => Init
  BY DEF UseInit
<1>2. [UseNext]_allVars => [Next]_vars
  BY DEF UseNext, GetClient, allVars
<1> QED
  BY <1>1, <1>2, PTL DEF UseSpec, Spec

(* Whatever the manager's tasks, main and the sessions do to each other, a *)
(* task that keeps a client meets what ClientSlot says and no more: its    *)
(* client is of the session on offer, or closed, or an orphan that will be *)
(* closed, and never one of a session it did not get.                      *)
THEOREM ClientRefinement == UseSpec => ImplementsClientSlot
<1>1. IInv /\ UseInv /\ [UseNext]_allVars => UseInv' /\ [Slot!Next]_(Slot!vars)
  BY UseStep DEF SlotMoves, SlotSame, Slot!vars
<1> QED
  BY <1>1, UseStart, UseIsConnection, InductiveInvariant, PTL
     DEF UseSpec, ImplementsClientSlot, Slot!Spec
=============================================================================
