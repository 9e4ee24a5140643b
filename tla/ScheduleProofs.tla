--------------------------- MODULE ScheduleProofs ---------------------------
(***************************************************************************)
(* Theorems about ReconnectSchedule.tla: the delays of backoff never       *)
(* shrink as attempts are counted, for every base, cap and calm interval;  *)
(* an outage never becomes a handshake storm; and a gateway that is back   *)
(* is handshaken within the calm interval.                                 *)
(*                                                                         *)
(* Ramp is a recursive function, which TLA+ defines by CHOOSE: that a      *)
(* function with its equation exists is proved here by the least number up *)
(* to which there would be none, and its growth by the least number that   *)
(* would break it.                                                         *)
(***************************************************************************)
EXTENDS ReconnectSchedule, NaturalsInduction, WellFoundedInduction, TLAPS

(* A set of numbers that is not empty has a least member.                  *)
LEMMA LeastNatural ==
    ASSUME NEW S \in SUBSET Nat, S # {}
    PROVE  \E m \in S : \A k \in S : m <= k
<1> DEFINE R == OpToRel(<, Nat)
<1>1. IsWellFoundedOn(R, Nat)
  BY NatLessThanWellFounded
<1>2. \A k, m \in Nat : k < m => <<k, m>> \in R
  BY DEF OpToRel
<1> HIDE DEF R
<1>3. PICK m \in S : \A k \in S : <<k, m>> \notin R
  BY <1>1, WFMin
<1>4. ASSUME NEW k \in S PROVE m <= k
  <2>1. k \in Nat /\ m \in Nat
    OBVIOUS
  <2>2. ~(k < m)
    BY <1>2, <1>3, <2>1, Zenon
  <2> QED
    BY <2>1, <2>2
<1> QED
  BY <1>4

-----------------------------------------------------------------------------
(* The ramp of delays.                                                     *)

(* g is the ramp up to its n-th delay.                                     *)
Ramps(g, n) ==
    /\ g \in [1..n -> Nat]
    /\ \A k \in 1..n : g[k] = IF k = 1 THEN FirstDelay * 1000 ELSE (g[k - 1] * 8) \div 5

LEMMA RampExtends ==
    ASSUME NEW n \in Nat, NEW g, Ramps(g, n)
    PROVE  \E h : Ramps(h, n + 1)
<1> DEFINE d == IF n = 0 THEN FirstDelay * 1000 ELSE (g[n] * 8) \div 5
           h == [k \in 1..(n + 1) |-> IF k = n + 1 THEN d ELSE g[k]]
<1>1. d \in Nat
  <2>1. CASE n = 0
    BY <2>1, ScheduleAssumption
  <2>2. CASE n # 0
    <3>1. g[n] \in Nat
      BY <2>2 DEF Ramps
    <3> QED
      BY <2>2, <3>1
  <2> QED
    BY <2>1, <2>2
<1>2. d = IF n + 1 = 1 THEN FirstDelay * 1000 ELSE (g[(n + 1) - 1] * 8) \div 5
  OBVIOUS
<1> HIDE DEF d
<1>3. h \in [1..(n + 1) -> Nat]
  BY <1>1 DEF Ramps
<1>4. h[n + 1] = d /\ \A k \in 1..n : h[k] = g[k]
  OBVIOUS
<1> HIDE DEF h
<1>5. ASSUME NEW k \in 1..(n + 1)
      PROVE  h[k] = IF k = 1 THEN FirstDelay * 1000 ELSE (h[k - 1] * 8) \div 5
  <2>1. CASE k = n + 1
    <3>1. k # 1 => k - 1 \in 1..n /\ k - 1 = n
      BY <2>1
    <3>2. k # 1 => h[k - 1] = g[n] /\ (n + 1) - 1 = n
      BY <1>4, <3>1
    <3>3. h[k] = d
      BY <1>4, <2>1
    <3>4. CASE k = 1
      BY <1>2, <2>1, <3>3, <3>4
    <3>5. CASE k # 1
      BY <1>2, <2>1, <3>2, <3>3, <3>5
    <3> QED
      BY <3>4, <3>5
  <2>2. CASE k # n + 1
    <3>1. k \in 1..n /\ (k # 1 => k - 1 \in 1..n)
      BY <2>2
    <3>2. h[k] = g[k] /\ (k # 1 => h[k - 1] = g[k - 1])
      BY <1>4, <3>1
    <3>3. g[k] = IF k = 1 THEN FirstDelay * 1000 ELSE (g[k - 1] * 8) \div 5
      BY <3>1 DEF Ramps
    <3>4. CASE k = 1
      BY <3>2, <3>3, <3>4
    <3>5. CASE k # 1
      BY <3>2, <3>3, <3>5
    <3> QED
      BY <3>4, <3>5
  <2> QED
    BY <2>1, <2>2
<1>6. Ramps(h, n + 1)
  BY <1>3, <1>5 DEF Ramps
<1> QED
  BY <1>6

LEMMA RampExists == \E g : Ramps(g, CalmAfter)
<1> DEFINE S == {n \in Nat : ~\E g : Ramps(g, n)}
<1>1. SUFFICES ASSUME S # {} PROVE FALSE
  BY ScheduleAssumption
<1>2. PICK n \in S : \A k \in S : n <= k
  BY <1>1, LeastNatural
<1>3. CASE n = 0
  <2>1. Ramps(<<>>, 0)
    BY DEF Ramps
  <2> QED
    BY <1>3, <2>1
<1>4. CASE n # 0
  <2>1. n - 1 \in Nat /\ ~(n <= n - 1)
    BY <1>4
  <2>2. PICK g : Ramps(g, n - 1)
    BY <1>2, <2>1
  <2>3. \E h : Ramps(h, (n - 1) + 1)
    BY <2>1, <2>2, RampExtends
  <2> QED
    BY <2>3
<1> QED
  BY <1>3, <1>4

(* Ramp is the function its definition says.                               *)
LEMMA RampIs == Ramps(Ramp, CalmAfter)
<1> DEFINE Is(g) == g = [n \in 1..CalmAfter |->
                           IF n = 1 THEN FirstDelay * 1000 ELSE (g[n - 1] * 8) \div 5]
<1>1. PICK g : Ramps(g, CalmAfter)
  BY RampExists
<1>2. Is(g)
  BY <1>1 DEF Ramps
<1>3. Ramp = CHOOSE f : Is(f)
  BY DEF Ramp
<1> HIDE DEF Is
<1>4. Is(Ramp)
  BY <1>2, <1>3
<1>5. Ramp = [n \in 1..CalmAfter |->
                IF n = 1 THEN FirstDelay * 1000 ELSE (Ramp[n - 1] * 8) \div 5]
  BY <1>4 DEF Is
<1>6. \A n \in 1..CalmAfter :
        Ramp[n] = IF n = 1 THEN FirstDelay * 1000 ELSE (Ramp[n - 1] * 8) \div 5
  BY <1>5
<1>7. DOMAIN Ramp = 1..CalmAfter /\ Ramp = [n \in 1..CalmAfter |-> Ramp[n]]
  BY <1>5
<1>8. \A n \in 1..CalmAfter : Ramp[n] \in Nat
  <2> DEFINE S == {n \in Nat : n \in 1..CalmAfter /\ Ramp[n] \notin Nat}
  <2>1. SUFFICES ASSUME S # {} PROVE FALSE
    BY ScheduleAssumption
  <2>2. PICK n \in S : \A k \in S : n <= k
    BY <2>1, LeastNatural
  <2>3. CASE n = 1
    BY <1>6, <2>2, <2>3, ScheduleAssumption
  <2>4. CASE n # 1
    <3>1. n - 1 \in 1..CalmAfter /\ ~(n <= n - 1)
      BY <2>2, <2>4, ScheduleAssumption
    <3>2. Ramp[n - 1] \in Nat
      BY <2>2, <3>1
    <3>3. Ramp[n] = (Ramp[n - 1] * 8) \div 5
      BY <1>6, <2>2, <2>4
    <3> QED
      BY <2>2, <3>2, <3>3
  <2> QED
    BY <2>3, <2>4
<1>9. Ramp \in [1..CalmAfter -> Nat]
  <2> HIDE DEF Is
  <2> QED
    BY <1>7, <1>8
<1> QED
  BY <1>6, <1>9 DEF Ramps

(* No delay of the ramp is shorter than an earlier one.                    *)
LEMMA RampGrows ==
    ASSUME NEW a \in 1..CalmAfter, NEW b \in 1..CalmAfter, a <= b
    PROVE  Ramp[a] \in Nat /\ Ramp[b] \in Nat /\ Ramp[a] <= Ramp[b]
<1>0. \A n \in 1..CalmAfter : Ramp[n] \in Nat
  BY RampIs DEF Ramps
<1> DEFINE S == {n \in Nat : n \in a..CalmAfter /\ ~(Ramp[a] <= Ramp[n])}
<1>1. SUFFICES ASSUME S # {} PROVE FALSE
  BY <1>0, ScheduleAssumption
<1>2. PICK n \in S : \A k \in S : n <= k
  BY <1>1, LeastNatural
<1>3. n # a
  BY <1>0, <1>2
<1>4. n - 1 \in a..CalmAfter /\ n - 1 \in Nat /\ ~(n <= n - 1) /\ n \in 1..CalmAfter
      /\ n - 1 \in 1..CalmAfter
  BY <1>2, <1>3, ScheduleAssumption
<1>5. Ramp[a] <= Ramp[n - 1]
  BY <1>2, <1>4
<1>6. Ramp[n] = (Ramp[n - 1] * 8) \div 5
  BY <1>4, RampIs DEF Ramps
<1>7. Ramp[n - 1] <= Ramp[n]
  BY <1>0, <1>4, <1>6
<1> QED
  BY <1>0, <1>2, <1>4, <1>5, <1>7

-----------------------------------------------------------------------------
(* The delay after so many attempts.                                       *)
LEMMA BackoffRange ==
    ASSUME NEW n \in Nat
    PROVE  /\ Backoff(n) \in 0..CalmInterval
           /\ n >= 1 => Backoff(n) >= FirstDelay
<1>1. /\ FirstDelay \in Nat /\ FastCap \in Nat /\ CalmInterval \in Nat /\ CalmAfter \in Nat
      /\ FirstDelay <= FastCap /\ FastCap <= CalmInterval /\ 1 <= CalmAfter
  BY ScheduleAssumption
<1>2. CASE n \in 1..(CalmAfter - 1)
  <2>1. Ramp[1] = FirstDelay * 1000
    BY <1>1, RampIs DEF Ramps
  <2>2. Ramp[n] \in Nat /\ FirstDelay * 1000 <= Ramp[n]
    BY <1>1, <1>2, <2>1, RampGrows
  <2>3. Ramp[n] \div 1000 \in Nat /\ FirstDelay <= Ramp[n] \div 1000
    BY <1>1, <2>2
  <2> QED
    BY <1>1, <1>2, <2>3 DEF Backoff, LesserOf
<1> QED
  BY <1>1, <1>2 DEF Backoff

(* The delay never shrinks as attempts are counted, through the ramp, its  *)
(* cap and the calm interval (the test backoff_ramps_then_goes_calm checks *)
(* the first 40 of them).                                                  *)
THEOREM BackoffGrows ==
    ASSUME NEW a \in Nat, NEW b \in Nat, a <= b
    PROVE  Backoff(a) <= Backoff(b)
<1>1. /\ FastCap \in Nat /\ CalmInterval \in Nat /\ CalmAfter \in Nat
      /\ FastCap <= CalmInterval
  BY ScheduleAssumption
<1>2. Backoff(a) \in 0..CalmInterval /\ Backoff(b) \in 0..CalmInterval
  BY BackoffRange
<1>3. CASE a = 0 \/ b >= CalmAfter
  BY <1>1, <1>2, <1>3 DEF Backoff
<1>4. CASE a \in 1..(CalmAfter - 1) /\ b \in 1..(CalmAfter - 1)
  <2>1. Ramp[a] \in Nat /\ Ramp[b] \in Nat /\ Ramp[a] <= Ramp[b]
    BY <1>1, <1>4, RampGrows
  <2>2. Ramp[a] \div 1000 \in Nat /\ Ramp[b] \div 1000 \in Nat /\ Ramp[a] \div 1000 <= Ramp[b] \div 1000
    BY <2>1
  <2> QED
    BY <1>1, <1>4, <2>2 DEF Backoff, LesserOf
<1> QED
  BY <1>1, <1>3, <1>4

-----------------------------------------------------------------------------
(* What every state satisfies.                                             *)
PhaseMax == IF HandshakeMax >= PreflightMax THEN HandshakeMax ELSE PreflightMax

(* How long the gateway can have been up when a phase starts.              *)
Overdue ==
    /\ pc = "sleep" => sinceUp <= PhaseMax
    /\ pc = "preflight" => sinceUp <= PhaseMax + CalmInterval
    /\ pc = "handshake" => sinceUp <= PhaseMax + CalmInterval + PreflightMax

(* Failed handshakes are among the failed attempts, none since a refusal,  *)
(* and what was slept or will be slept is the delay of the attempts.       *)
Spacing ==
    /\ attempts >= shakes
    /\ tcpDown => shakes = 0
    /\ pc = "connected" => attempts = 0 /\ ~tcpDown
    /\ pc = "sleep" => wait = Backoff(attempts) /\ (attempts = 0 => sinceShake >= FirstDelay)
    /\ pc \in {"preflight", "handshake"} =>
         sinceShake >= FirstDelay /\ sinceShake >= Backoff(shakes)
    /\ pc = "handshake" => attempts >= Bump(shakes) /\ ~tcpDown

ScheduleInv == TypeOK /\ Overdue /\ Spacing

LEMMA Bounds ==
    /\ FirstDelay \in Nat /\ FastCap \in Nat /\ CalmInterval \in Nat /\ PreflightMax \in Nat
    /\ HandshakeMax \in Nat /\ PollInterval \in Nat /\ MaxAttempts \in Nat /\ MaxClock \in Nat
    /\ PhaseMax \in Nat /\ 1 <= MaxAttempts
    /\ FirstDelay <= FastCap /\ FastCap <= CalmInterval
    /\ FirstDelay <= PollInterval /\ PollInterval <= MaxClock
    /\ CalmInterval + 2 * PreflightMax + 2 * HandshakeMax < MaxClock
    /\ HandshakeMax <= PhaseMax /\ PreflightMax <= PhaseMax
  BY ScheduleAssumption DEF PhaseMax

(* Counting an attempt, up to the bound of the count.                      *)
LEMMA Bumping ==
    ASSUME NEW n \in 0..MaxAttempts
    PROVE  Bump(n) \in 1..MaxAttempts /\ Bump(n) >= n
           /\ \A m \in 0..MaxAttempts : m <= n => Bump(m) <= Bump(n)
<1>1. MaxAttempts \in Nat /\ 1 <= MaxAttempts
  BY Bounds
<1>2. \A m \in 0..MaxAttempts : Bump(m) = IF m + 1 <= MaxAttempts THEN m + 1 ELSE MaxAttempts
  BY DEF Bump, LesserOf
<1>3. \A m \in 0..MaxAttempts : Bump(m) \in 1..MaxAttempts /\ Bump(m) >= m
  BY <1>1, <1>2
<1>4. ASSUME NEW m \in 0..MaxAttempts, m <= n PROVE Bump(m) <= Bump(n)
  <2>1. CASE n + 1 <= MaxAttempts
    BY <1>1, <1>2, <1>4, <2>1
  <2>2. CASE ~(n + 1 <= MaxAttempts)
    <3>1. Bump(n) = MaxAttempts
      BY <1>2, <2>2
    <3> QED
      BY <1>1, <1>3, <1>4, <3>1
  <2> QED
    BY <2>1, <2>2
<1> QED
  BY <1>3, <1>4

(* Time that goes by adds to both stopwatches, and no more than it is.     *)
LEMMA Elapsing ==
    ASSUME TypeOK, NEW d \in Nat, Elapse(d)
    PROVE  /\ sinceUp' \in 0..MaxClock /\ sinceShake' \in 0..MaxClock
           /\ sinceUp' <= sinceUp + d
           /\ sinceShake' >= sinceShake
           /\ \A n \in 0..MaxClock : n <= sinceShake + d => n <= sinceShake'
<1> DEFINE shaken == sinceShake + d
           up == sinceUp + d
<1>1. sinceUp \in 0..MaxClock /\ sinceShake \in 0..MaxClock /\ MaxClock \in Nat
  BY Bounds DEF TypeOK
<1>2. sinceUp' = IF GatewayUp THEN (IF up <= MaxClock THEN up ELSE MaxClock) ELSE 0
  BY DEF Elapse, LesserOf
<1>3. sinceShake' = IF shaken <= MaxClock THEN shaken ELSE MaxClock
  BY DEF Elapse, LesserOf
<1>4. sinceUp' = 0 \/ (sinceUp' = up /\ up <= MaxClock) \/ (sinceUp' = MaxClock /\ MaxClock <= up)
  <2>1. up \in Nat
    BY <1>1
  <2> QED
    BY <1>1, <1>2, <2>1
<1>5. \/ sinceShake' = shaken /\ shaken <= MaxClock
      \/ sinceShake' = MaxClock /\ MaxClock <= shaken
  <2>1. shaken \in Nat
    BY <1>1
  <2> QED
    BY <1>1, <1>3, <2>1
<1> QED
  BY <1>1, <1>4, <1>5

(* The top of the loop: what comes back to it need only have counted its   *)
(* attempts, and left the calls of the last handshake behind.              *)
LEMMA Looping ==
    ASSUME TypeOK, NEW n \in 0..MaxAttempts, LoopWith(n)
    PROVE  /\ pc' = "sleep" /\ attempts' = n /\ attempts' \in 0..MaxAttempts
           /\ wait' = Backoff(attempts)' /\ wait' \in 0..CalmInterval
<1>1. n \in Nat
  BY Bounds
<1>2. wait' = Backoff(n) /\ Backoff(n) \in 0..CalmInterval /\ attempts' = n /\ pc' = "sleep"
  BY <1>1, BackoffRange DEF LoopWith
<1>3. Backoff(attempts)' = Backoff(n)
  BY <1>2 DEF Backoff
<1> QED
  BY <1>2, <1>3

LEMMA ScheduleInit == Init => ScheduleInv
<1> SUFFICES ASSUME Init PROVE ScheduleInv
  OBVIOUS
<1>1. Backoff(0) = 0
  BY DEF Backoff
<1>2. TypeOK
  <2>1. tcpUp \in BOOLEAN /\ apiUp \in BOOLEAN /\ tcpDown \in BOOLEAN
    BY DEF Init
  <2>2. /\ attempts \in 0..MaxAttempts /\ shakes \in 0..MaxAttempts /\ wait \in 0..CalmInterval
        /\ sinceUp \in 0..MaxClock /\ sinceShake \in 0..MaxClock /\ pc = "sleep"
    BY Bounds DEF Init
  <2> QED
    BY <2>1, <2>2 DEF TypeOK
<1>3. Overdue
  BY Bounds DEF Init, Overdue
<1>4. Spacing
  BY <1>1, Bounds DEF Init, Spacing
<1> QED
  BY <1>2, <1>3, <1>4 DEF ScheduleInv

LEMMA ScheduleNext == ScheduleInv /\ [Next]_vars => ScheduleInv'
<1> SUFFICES ASSUME ScheduleInv, [Next]_vars PROVE ScheduleInv'
  OBVIOUS
<1>0. TypeOK /\ Overdue /\ Spacing
  BY DEF ScheduleInv
<1>b. \A n \in 0..MaxAttempts : n \in Nat /\ Backoff(n) \in 0..CalmInterval
                                /\ (n >= 1 => Backoff(n) >= FirstDelay)
  BY Bounds, BackoffRange
<1>t. /\ attempts \in 0..MaxAttempts /\ shakes \in 0..MaxAttempts /\ wait \in 0..CalmInterval
      /\ sinceUp \in 0..MaxClock /\ sinceShake \in 0..MaxClock
      /\ pc \in {"sleep", "preflight", "handshake", "connected"}
  BY <1>0 DEF TypeOK
<1>1. CASE ToggleTcp \/ ToggleApi
  <2>1. TypeOK'
    <3>1. tcpUp' \in BOOLEAN /\ apiUp' \in BOOLEAN
      BY <1>0, <1>1 DEF TypeOK, ToggleTcp, ToggleApi
    <3>2. sinceUp' = 0 /\ UNCHANGED <<pc, attempts, tcpDown, wait, sinceShake, shakes>>
      BY <1>1 DEF ToggleTcp, ToggleApi
    <3> QED
      BY <1>0, <3>1, <3>2, Bounds DEF TypeOK
  <2>2. sinceUp' = 0 /\ UNCHANGED <<pc, attempts, tcpDown, wait, sinceShake, shakes>>
    BY <1>1 DEF ToggleTcp, ToggleApi
  <2>3. Overdue'
    BY <2>2, Bounds DEF Overdue
  <2>4. Spacing'
    BY <1>0, <2>2 DEF Spacing, Backoff, Bump
  <2> QED
    BY <2>1, <2>3, <2>4 DEF ScheduleInv
<1>2. CASE Sleep
  <2>1. /\ pc = "sleep" /\ pc' = "preflight"
        /\ UNCHANGED <<tcpUp, apiUp, attempts, tcpDown, wait, shakes>>
        /\ wait = Backoff(attempts) /\ attempts >= shakes
        /\ attempts = 0 => sinceShake >= FirstDelay
        /\ wait \in Nat /\ Elapse(wait)
    BY <1>0, <1>t, <1>2, Bounds DEF Sleep, Spacing
  <2>2. /\ sinceUp' \in 0..MaxClock /\ sinceShake' \in 0..MaxClock /\ sinceUp' <= sinceUp + wait
        /\ sinceShake' >= sinceShake
        /\ \A n \in 0..MaxClock : n <= sinceShake + wait => n <= sinceShake'
    BY <1>0, <2>1, Elapsing
  <2>3. TypeOK'
    BY <1>0, <2>1, <2>2 DEF TypeOK
  <2>4. Overdue'
    BY <1>0, <1>t, <2>1, <2>2, Bounds DEF Overdue
  <2>5. Backoff(shakes) <= wait /\ Backoff(shakes) \in 0..MaxClock
    <3>1. attempts \in Nat /\ shakes \in Nat /\ Backoff(shakes) \in 0..CalmInterval
      BY <1>t, <1>b
    <3> QED
      BY <2>1, <3>1, BackoffGrows, Bounds
  <2>6. Backoff(shakes) <= sinceShake'
    BY <1>t, <2>1, <2>2, <2>5
  <2>7. FirstDelay <= sinceShake'
    <3>1. attempts # 0 => attempts >= 1 /\ FirstDelay <= wait
      BY <1>t, <1>b, <2>1
    <3> QED
      BY <1>t, <2>1, <2>2, <3>1, Bounds
  <2>8. Spacing'
    BY <1>0, <2>1, <2>6, <2>7 DEF Spacing, Backoff
  <2> QED
    BY <2>3, <2>4, <2>8 DEF ScheduleInv
<1>3. CASE PreflightOk
  <2>1. PICK d \in {0, PreflightMax} : Elapse(d)
    BY <1>3 DEF PreflightOk
  <2>2. /\ pc = "preflight" /\ pc' = "handshake" /\ tcpDown' = FALSE
        /\ attempts' = Bump(IF tcpDown THEN 0 ELSE attempts)
        /\ UNCHANGED <<tcpUp, apiUp, wait, shakes>>
        /\ d \in Nat /\ d <= PreflightMax
    BY <1>3, Bounds DEF PreflightOk, AttemptsAfterPreflight
  <2>3. /\ sinceUp' \in 0..MaxClock /\ sinceShake' \in 0..MaxClock /\ sinceUp' <= sinceUp + d
        /\ sinceShake' >= sinceShake
    BY <1>0, <2>1, <2>2, Elapsing
  <2>4. attempts' \in 0..MaxAttempts /\ attempts' >= Bump(shakes) /\ Bump(shakes) >= shakes
    <3> DEFINE n == IF tcpDown THEN 0 ELSE attempts
    <3>1. n \in 0..MaxAttempts /\ shakes <= n /\ attempts' = Bump(n)
      BY <1>0, <1>t, <2>2, Bounds DEF Spacing
    <3> HIDE DEF n
    <3> QED
      BY <1>t, <3>1, Bumping
  <2>5. TypeOK'
    BY <1>0, <2>2, <2>3, <2>4 DEF TypeOK
  <2>6. Overdue'
    BY <1>0, <1>t, <2>2, <2>3, Bounds DEF Overdue
  <2>7. Spacing'
    <3>1. Backoff(shakes)' = Backoff(shakes) /\ Bump(shakes)' = Bump(shakes)
      BY <2>2 DEF Backoff, Bump
    <3>2. Backoff(shakes) \in Nat /\ Bump(shakes) \in Nat
      BY <1>t, <1>b, Bumping, Bounds
    <3> QED
      BY <1>0, <1>t, <2>2, <2>3, <2>4, <3>1, <3>2, Bounds DEF Spacing
  <2> QED
    BY <2>5, <2>6, <2>7 DEF ScheduleInv
<1>4. CASE PreflightFails
  <2>1. PICK d \in {0, PreflightMax} : Elapse(d)
    BY <1>4 DEF PreflightFails
  <2>2. /\ pc = "preflight" /\ (~tcpUp \/ sinceUp = 0) /\ LoopWith(Bump(attempts))
        /\ tcpDown' = TRUE /\ shakes' = 0 /\ UNCHANGED <<tcpUp, apiUp>>
        /\ d \in Nat /\ d <= PreflightMax
    BY <1>4, <2>1, Bounds DEF PreflightFails
  <2>3. Bump(attempts) \in 1..MaxAttempts
    BY <1>t, Bumping
  <2>4. /\ pc' = "sleep" /\ attempts' = Bump(attempts) /\ attempts' \in 1..MaxAttempts
        /\ wait' = Backoff(attempts)' /\ wait' \in 0..CalmInterval
    BY <1>0, <2>2, <2>3, Looping
  <2>5. /\ sinceUp' \in 0..MaxClock /\ sinceShake' \in 0..MaxClock /\ sinceUp' <= PreflightMax
    <3>1. ~tcpUp => sinceUp' = 0
      BY <2>1 DEF Elapse, GatewayUp
    <3> QED
      BY <1>0, <1>t, <2>1, <2>2, <3>1, Elapsing, Bounds
  <2>6. TypeOK'
    BY <1>0, <2>2, <2>4, <2>5, Bounds DEF TypeOK
  <2>7. Overdue'
    BY <2>4, <2>5, Bounds DEF Overdue
  <2>8. Spacing'
    BY <2>2, <2>4, Bounds DEF Spacing
  <2> QED
    BY <2>6, <2>7, <2>8 DEF ScheduleInv
<1>5. CASE HandshakeOk
  <2>1. /\ pc = "handshake" /\ pc' = "connected" /\ attempts' = 0 /\ tcpDown' = FALSE /\ shakes' = 0
        /\ UNCHANGED <<tcpUp, apiUp, wait>> /\ Elapse(0)
    BY <1>5 DEF HandshakeOk
  <2>2. sinceUp' \in 0..MaxClock /\ sinceShake' \in 0..MaxClock
    BY <1>0, <2>1, Elapsing
  <2>3. TypeOK'
    <3>1. tcpUp' \in BOOLEAN /\ apiUp' \in BOOLEAN /\ tcpDown' \in BOOLEAN
      BY <1>0, <2>1 DEF TypeOK
    <3>2. attempts' \in 0..MaxAttempts /\ shakes' \in 0..MaxAttempts
      BY <2>1, Bounds
    <3>3. wait' \in 0..CalmInterval /\ pc' \in {"sleep", "preflight", "handshake", "connected"}
      BY <1>t, <2>1
    <3> QED
      BY <2>2, <3>1, <3>2, <3>3 DEF TypeOK
  <2> QED
    BY <2>1, <2>3 DEF ScheduleInv, Overdue, Spacing
<1>6. CASE HandshakeFails
  <2>1. /\ pc = "handshake" /\ LoopWith(attempts) /\ shakes' = Bump(shakes)
        /\ sinceUp' \in 0..HandshakeMax /\ sinceShake' = 0
        /\ UNCHANGED <<tcpUp, apiUp, tcpDown>>
    BY <1>6, Bounds DEF HandshakeFails
  <2>2. /\ pc' = "sleep" /\ attempts' = attempts
        /\ wait' = Backoff(attempts)' /\ wait' \in 0..CalmInterval
    BY <1>0, <1>t, <2>1, Looping
  <2>3. /\ attempts >= Bump(shakes) /\ ~tcpDown /\ Bump(shakes) \in 1..MaxAttempts
    BY <1>0, <1>t, <2>1, Bumping DEF Spacing
  <2>4. TypeOK'
    BY <1>0, <2>1, <2>2, <2>3, Bounds DEF TypeOK
  <2>5. Overdue'
    BY <2>1, <2>2, Bounds DEF Overdue
  <2>6. Spacing'
    BY <1>t, <2>1, <2>2, <2>3, Bounds DEF Spacing
  <2> QED
    BY <2>4, <2>5, <2>6 DEF ScheduleInv
<1>7. CASE SessionLost
  <2>1. /\ pc = "connected" /\ LoopWith(attempts) /\ sinceUp' = 0 /\ sinceShake' = PollInterval
        /\ UNCHANGED <<tcpUp, apiUp, tcpDown, shakes>>
    BY <1>7 DEF SessionLost
  <2>2. /\ pc' = "sleep" /\ attempts' = attempts
        /\ wait' = Backoff(attempts)' /\ wait' \in 0..CalmInterval
    BY <1>0, <1>t, <2>1, Looping
  <2>3. TypeOK'
    BY <1>0, <2>1, <2>2, Bounds DEF TypeOK
  <2>4. Overdue'
    BY <2>1, <2>2, Bounds DEF Overdue
  <2>5. Spacing'
    BY <1>0, <2>1, <2>2, Bounds DEF Spacing
  <2> QED
    BY <2>3, <2>4, <2>5 DEF ScheduleInv
<1>8. CASE UNCHANGED vars
  BY <1>0, <1>8 DEF vars, ScheduleInv, TypeOK, Overdue, Spacing, Backoff, Bump
<1> QED
  BY <1>1, <1>2, <1>3, <1>4, <1>5, <1>6, <1>7, <1>8 DEF Next

LEMMA ScheduleHolds == Spec => []ScheduleInv
  BY ScheduleInit, ScheduleNext, PTL DEF Spec

(* Type correctness of the schedule.                                       *)
THEOREM ScheduleTypeCorrect == Spec => []TypeOK
<1>1. ScheduleInv => TypeOK
  BY DEF ScheduleInv
<1> QED
  BY <1>1, ScheduleHolds, PTL

(* However often and whenever the endpoint and the gateway go and come     *)
(* back, handshakes are a base delay apart, and after k failed ones in a   *)
(* row the k-th delay (HandshakeSpacing).                                  *)
THEOREM HandshakesAreSpaced == Spec => []HandshakeSpacing
<1>1. ScheduleInv => HandshakeSpacing
  BY DEF ScheduleInv, Spacing, HandshakeSpacing
<1> QED
  BY <1>1, ScheduleHolds, PTL

(* A gateway that is back and stays is handshaken within the calm          *)
(* interval, one phase and one pre-flight (RecoveryWithinCalmInterval).    *)
THEOREM RecoveryIsWithinCalmInterval == Spec => []RecoveryWithinCalmInterval
<1>1. ScheduleInv => RecoveryWithinCalmInterval
  <2> SUFFICES ASSUME ScheduleInv, pc # "connected"
               PROVE  sinceUp <= CalmInterval + PreflightMax + PhaseMax
    BY DEF RecoveryWithinCalmInterval, PhaseMax
  <2>1. sinceUp \in Nat /\ pc \in {"sleep", "preflight", "handshake"}
    BY Bounds DEF ScheduleInv, TypeOK
  <2> QED
    BY <2>1, Bounds DEF ScheduleInv, Overdue
<1> QED
  BY <1>1, ScheduleHolds, PTL
=============================================================================
