--------------------------- MODULE PreflightProofs ---------------------------
(***************************************************************************)
(* For all intervals, timeouts and retries with WarmUpAssumption, and for  *)
(* every moment at which the server may become ready: preflight only says  *)
(* Ok of a container that was healthy, waits no longer than one poll past  *)
(* its deadline, and refuses no server for time that was ready by the end  *)
(* of its start period.                                                    *)
(*                                                                         *)
(* The last follows from where a failing check leaves the next one: it     *)
(* began before the server was ready and took Timeout at most, so the next *)
(* begins Interval after that at the latest, and succeeds.  A query that   *)
(* is told that the container is not healthy was begun before that check   *)
(* had ended; WarmUpAssumption says that this is too early for a timeout.  *)
(***************************************************************************)
EXTENDS Preflight, TLAPS

LEMMA TimesAreNat ==
  /\ POLL_INTERVAL \in Nat /\ POLL_TIMEOUT \in Nat /\ MaxQuery \in Nat /\ Interval \in Nat
  /\ Timeout \in Nat /\ Retries \in Nat /\ StartPeriod \in Nat
  /\ POLL_INTERVAL > 0 /\ Interval > 0
  /\ StartPeriod + Interval + 2 * Timeout + MaxQuery < POLL_TIMEOUT
BY TimeAssumption, WarmUpAssumption

LEMMA InitPreflightInv == Init => PreflightInv
<1> SUFFICES ASSUME Init PROVE PreflightInv
  OBVIOUS
<1>1. now \in Nat
  BY TimeAssumption DEF Init
<1>2. PICK d \in 0..Interval : container.at = now + d
  BY DEF Init
<1>3. container.at \in Nat /\ now <= container.at /\ container.at <= now + Interval
  BY <1>1, <1>2, TimesAreNat
<1>4. container \in [up : BOOLEAN, ready : Nat, health : Health, checking : BOOLEAN, at : Nat, failures : Nat]
  <2>1. PICK k \in [up : BOOLEAN, ready : ReadyTimes, health : Health \ {"healthy"}, checking : {FALSE},
                    at : {now + e : e \in 0..Interval}, failures : {0, Retries}] : container = k
    BY DEF Init
  <2>2. k.at \in Nat /\ k.ready \in Nat /\ k.failures \in Nat
    <3>1. k.ready \in ReadyTimes /\ k.failures \in {0, Retries}
      BY <2>1
    <3>2. k.at \in Nat
      BY <1>3, <2>1
    <3>3. k.ready \in Nat
      BY <3>1, TimeAssumption
    <3>4. k.failures \in Nat
      BY <3>1, TimesAreNat
    <3>5. QED
      BY <3>2, <3>3, <3>4
  <2>3. k = [up |-> k.up, ready |-> k.ready, health |-> k.health, checking |-> k.checking,
             at |-> k.at, failures |-> k.failures]
    BY <2>1
  <2>4. k.up \in BOOLEAN /\ k.health \in Health /\ k.checking \in BOOLEAN
    BY <2>1
  <2>5. QED
    BY <2>1, <2>2, <2>3, <2>4
<1>5. ~container.checking /\ container.health # "healthy"
  BY DEF Init
<1>6. preflight.phase = "begin" /\ preflight.start = now /\ preflight.at = now
      /\ preflight.health = "absent" /\ preflight.result = "none"
  BY DEF Init
<1>7. Typed
  BY <1>1, <1>4 DEF Init, Typed, Results
<1>8. OnTime
  BY <1>1, <1>3, <1>5, <1>6, TimesAreNat DEF OnTime, BoundedWait, Waited
<1>9. Told
  BY <1>6 DEF Told, OkWasHealthy, Ended
<1>10. WarmsUp
  BY <1>1, <1>3, <1>4, <1>5, <1>6, TimesAreNat DEF WarmsUp, Warm, WarmUpIsEnough, Ended
<1>11. QED
  BY <1>7, <1>8, <1>9, <1>10 DEF PreflightInv

LEMMA NextPreflightInv == PreflightInv /\ [Next]_vars => PreflightInv'
<1> SUFFICES ASSUME PreflightInv, [Next]_vars PROVE PreflightInv'
  OBVIOUS
<1> USE TimesAreNat
<1>0. Typed /\ OnTime /\ Told /\ WarmsUp
  BY DEF PreflightInv
<1>1. CASE UNCHANGED vars
  BY <1>1, <1>0 DEF vars, PreflightInv, Typed, OnTime, BoundedWait, Waited, Told, OkWasHealthy, Ended,
                    WarmsUp, Warm, WarmUpIsEnough
<1>2. CASE check_docker_available
  <2>0. preflight.phase = "begin" /\ preflight.start = now /\ UNCHANGED <<now, container>>
    BY <1>2, <1>0 DEF check_docker_available, OnTime
  <2>1. CASE Ends("docker_unavailable") /\ UNCHANGED seen
    <3>1. preflight' = [preflight EXCEPT !.phase = "ended", !.result = "docker_unavailable"]
      BY <2>1 DEF Ends
    <3>2. Typed'
      BY <2>0, <3>1, <1>0 DEF Typed, Results
    <3>3. OnTime' /\ WarmsUp'
      BY <2>0, <3>1, <1>0 DEF Typed, OnTime, BoundedWait, Waited, WarmsUp, Warm, WarmUpIsEnough, Ended
    <3>4. Told'
      BY <2>0, <3>1, <1>0 DEF Typed, Told, OkWasHealthy, Ended
    <3>5. QED
      BY <3>2, <3>3, <3>4 DEF PreflightInv
  <2>2. CASE /\ preflight' = [preflight EXCEPT !.phase = "asking", !.start = now, !.at = now]
             /\ seen' = {container.health}
    <3>1. Typed'
      BY <2>0, <2>2, <1>0 DEF Typed
    <3>2. OnTime' /\ WarmsUp'
      BY <2>0, <2>2, <1>0 DEF Typed, OnTime, BoundedWait, Waited, WarmsUp, Warm, WarmUpIsEnough, Ended
    <3>3. Told'
      BY <2>0, <2>2, <1>0 DEF Typed, Told, OkWasHealthy, Ended
    <3>4. QED
      BY <3>1, <3>2, <3>3 DEF PreflightInv
  <2>3. QED
    BY <2>1, <2>2, <1>2 DEF check_docker_available
<1>3. CASE Looks
  <2>0. /\ preflight.phase = "asking" /\ UNCHANGED <<now, container, seen>>
        /\ preflight' = [preflight EXCEPT !.phase = "answering",
                           !.health = IF container.up THEN container.health ELSE "absent"]
    BY <1>3 DEF Looks
  <2>1. Typed'
    BY <2>0, <1>0 DEF Typed
  <2>2. OnTime'
    BY <2>0, <1>0 DEF Typed, OnTime, BoundedWait, Waited
  <2>3. Told'
    BY <2>0, <1>0 DEF Typed, Told, OkWasHealthy, Ended
  <2>4. preflight'.health \in {"starting", "unhealthy"} => container.up /\ container.health # "healthy"
    BY <2>0, <1>0 DEF Typed
  <2>5. preflight'.health \in {"starting", "unhealthy"} => preflight.at <= Warm + Timeout + Interval + Timeout
    BY <2>0, <2>4, <1>0 DEF Typed, OnTime, WarmsUp, Warm
  <2>6. WarmsUp'
    BY <2>0, <2>5, <1>0 DEF Typed, WarmsUp, Warm, WarmUpIsEnough, Ended
  <2>7. QED
    BY <2>1, <2>2, <2>3, <2>6 DEF PreflightInv
<1>4. CASE ComposePsFails \/ UnexpectedOutput
  <2>0. PICK result \in {"docker_unavailable", "compose_ps_failed", "unexpected_output"} :
          /\ preflight' = [preflight EXCEPT !.phase = "ended", !.result = result]
          /\ UNCHANGED <<now, container, seen>>
    BY <1>4 DEF ComposePsFails, UnexpectedOutput, Ends
  <2>1. Typed'
    BY <2>0, <1>0 DEF Typed, Results
  <2>2. OnTime' /\ WarmsUp'
    BY <2>0, <1>0 DEF Typed, OnTime, BoundedWait, Waited, WarmsUp, Warm, WarmUpIsEnough, Ended
  <2>3. Told'
    BY <2>0, <1>0 DEF Typed, Told, OkWasHealthy, Ended
  <2>4. QED
    BY <2>1, <2>2, <2>3 DEF PreflightInv
<1>5. CASE Answers
  <2>0. preflight.phase = "answering" /\ UNCHANGED <<now, container, seen>>
    BY <1>5 DEF Answers
  <2>1. ASSUME NEW result \in Results, Ends(result), result = "ok" => "healthy" \in seen,
               result = "not_healthy" => container.ready > StartPeriod
        PROVE  PreflightInv'
    <3>1. preflight' = [preflight EXCEPT !.phase = "ended", !.result = result]
      BY <2>1 DEF Ends
    <3>2. Typed'
      BY <2>0, <3>1, <1>0 DEF Typed
    <3>3. OnTime'
      BY <2>0, <3>1, <1>0 DEF Typed, OnTime, BoundedWait, Waited
    <3>4. Told'
      BY <2>0, <2>1, <3>1, <1>0 DEF Typed, Told, OkWasHealthy, Ended
    <3>5. WarmsUp'
      BY <2>0, <2>1, <3>1, <1>0 DEF Typed, WarmsUp, Warm, WarmUpIsEnough, Ended
    <3>6. QED
      BY <3>2, <3>3, <3>4, <3>5 DEF PreflightInv
  <2>2. CASE Accepts(preflight.health)
    <3>1. Ends("ok") /\ "healthy" \in seen
      BY <2>0, <2>2, <1>0, <1>5 DEF Answers, Accepts, Told
    <3>2. QED
      BY <2>1, <3>1 DEF Results
  <2>3. CASE ~Accepts(preflight.health) /\ preflight.health = "absent"
    <3>1. Ends("service_absent")
      BY <2>3, <1>5 DEF Answers
    <3>2. QED
      BY <2>1, <3>1 DEF Results
  <2>4. CASE ~Accepts(preflight.health) /\ preflight.health # "absent" /\ TimedOut
    <3>1. Ends("not_healthy")
      BY <2>4, <1>5 DEF Answers
    <3>2. preflight.health \in {"starting", "unhealthy"}
      BY <2>4, <1>0 DEF Typed, Health, Accepts
    <3>3. now <= Warm + Timeout + Interval + Timeout + MaxQuery
      BY <2>0, <3>2, <1>0 DEF Typed, OnTime, WarmsUp, Warm
    <3>4. container.ready > StartPeriod
      BY <2>4, <3>3, <1>0 DEF Typed, OnTime, TimedOut, Waited, Warm
    <3>5. QED
      BY <2>1, <3>1, <3>4 DEF Results
  <2>5. CASE ~Accepts(preflight.health) /\ preflight.health # "absent" /\ ~TimedOut
    <3>1. preflight' = [preflight EXCEPT !.phase = "sleeping", !.at = now]
      BY <2>5, <1>5 DEF Answers
    <3>2. Typed'
      BY <2>0, <3>1, <1>0 DEF Typed
    <3>3. now < preflight.start + POLL_TIMEOUT
      BY <2>5, <1>0 DEF Typed, OnTime, TimedOut, Waited
    <3>4. OnTime'
      BY <2>0, <3>1, <3>3, <1>0 DEF Typed, OnTime, BoundedWait, Waited
    <3>5. Told'
      BY <2>0, <3>1, <1>0 DEF Typed, Told, OkWasHealthy, Ended
    <3>6. WarmsUp'
      BY <2>0, <3>1, <1>0 DEF Typed, WarmsUp, Warm, WarmUpIsEnough, Ended
    <3>7. QED
      BY <3>2, <3>4, <3>5, <3>6 DEF PreflightInv
  <2>6. QED
    BY <2>2, <2>3, <2>4, <2>5
<1>6. CASE Wakes
  <2>0. /\ preflight.phase = "sleeping" /\ now = preflight.at + POLL_INTERVAL
        /\ preflight' = [preflight EXCEPT !.phase = "asking", !.at = now]
        /\ seen' = {container.health} /\ UNCHANGED <<now, container>>
    BY <1>6 DEF Wakes
  <2>1. Typed'
    BY <2>0, <1>0 DEF Typed
  <2>2. OnTime' /\ WarmsUp'
    BY <2>0, <1>0 DEF Typed, OnTime, BoundedWait, Waited, WarmsUp, Warm, WarmUpIsEnough, Ended
  <2>3. Told'
    BY <2>0, <1>0 DEF Typed, Told, OkWasHealthy, Ended
  <2>4. QED
    BY <2>1, <2>2, <2>3 DEF PreflightInv
<1>7. CASE CheckBegins
  <2>0. /\ container.up /\ now = container.at
        /\ container' = [container EXCEPT !.checking = TRUE] /\ UNCHANGED <<now, preflight, seen>>
    BY <1>7 DEF CheckBegins
  <2>1. Typed'
    BY <2>0, <1>0 DEF Typed
  <2>2. OnTime' /\ WarmsUp'
    BY <2>0, <1>0 DEF Typed, OnTime, BoundedWait, Waited, WarmsUp, Warm, WarmUpIsEnough, Ended
  <2>3. Told'
    BY <2>0, <1>0 DEF Typed, Told, OkWasHealthy, Ended
  <2>4. QED
    BY <2>1, <2>2, <2>3 DEF PreflightInv
<1>8. ASSUME NEW success \in BOOLEAN, CheckEnds(success) PROVE PreflightInv'
  <2> DEFINE failures == IF success \/ now < StartPeriod THEN 0 ELSE container.failures + 1
             health == IF success THEN "healthy"
                       ELSE IF failures >= Retries THEN "unhealthy" ELSE container.health
             counted == IF failures > Retries THEN Retries ELSE failures
  <2>0. /\ container.checking /\ container.up
        /\ success => now >= container.ready
        /\ ~success => container.at < container.ready
        /\ container' = [container EXCEPT !.checking = FALSE, !.at = now + Interval, !.health = health,
                                          !.failures = counted]
        /\ seen' = seen \cup {health} /\ UNCHANGED <<now, preflight>>
    BY <1>8, <1>0 DEF CheckEnds, Ready, OnTime
  <2>1. health \in Health /\ counted \in Nat /\ (success => health = "healthy")
    BY <1>0 DEF Typed, Health
  <2>2. ~success => health # "healthy" /\ now <= container.ready + Timeout
    BY <2>0, <1>0 DEF Typed, OnTime, WarmsUp
  <2> HIDE DEF failures, health, counted
  <2>3. Typed'
    <3>1. now + Interval \in Nat /\ FALSE \in BOOLEAN
      BY <1>0 DEF Typed
    <3>2. container' \in [up : BOOLEAN, ready : Nat, health : Health, checking : BOOLEAN, at : Nat, failures : Nat]
      BY <2>0, <2>1, <3>1, <1>0 DEF Typed
    <3>3. QED
      BY <2>0, <3>2, <1>0 DEF Typed
  <2>4. OnTime'
    BY <2>0, <1>0 DEF Typed, OnTime, BoundedWait, Waited
  <2>5. Told'
    BY <2>0, <1>0 DEF Typed, Told, OkWasHealthy, Ended
  <2>6. WarmsUp'
    BY <2>0, <2>1, <2>2, <1>0 DEF Typed, WarmsUp, Warm, WarmUpIsEnough, Ended
  <2>7. QED
    BY <2>3, <2>4, <2>5, <2>6 DEF PreflightInv
<1>9. CASE GoesDown
  <2>0. /\ container' = [container EXCEPT !.up = FALSE, !.checking = FALSE]
        /\ UNCHANGED <<now, preflight, seen>>
    BY <1>9 DEF GoesDown
  <2>1. Typed'
    BY <2>0, <1>0 DEF Typed
  <2>2. OnTime' /\ WarmsUp'
    BY <2>0, <1>0 DEF Typed, OnTime, BoundedWait, Waited, WarmsUp, Warm, WarmUpIsEnough, Ended
  <2>3. Told'
    BY <2>0, <1>0 DEF Typed, Told, OkWasHealthy, Ended
  <2>4. QED
    BY <2>1, <2>2, <2>3 DEF PreflightInv
<1>10. CASE Tick
  <2>1. now' = now + 1 /\ UNCHANGED <<container, preflight, seen>>
    BY <1>10 DEF Tick
  <2>2. Typed'
    BY <2>1, <1>0 DEF Typed
  <2>3. OnTime'
    BY <2>1, <1>0, <1>10 DEF Tick, Typed, OnTime, BoundedWait, Waited
  <2>4. Told' /\ WarmsUp'
    BY <2>1, <1>0 DEF Told, OkWasHealthy, Ended, WarmsUp, Warm, WarmUpIsEnough
  <2>5. QED
    BY <2>2, <2>3, <2>4 DEF PreflightInv
<1>11. QED
  BY <1>1, <1>2, <1>3, <1>4, <1>5, <1>6, <1>7, <1>8, <1>9, <1>10 DEF Next, Program

\* Everything below at once: what preflight keeps to, in any interleaving with
\* Docker's health checks (preflight.rs, run; docker-compose.yml, healthcheck).
THEOREM PreflightCorrect == Spec => []PreflightInv
BY InitPreflightInv, NextPreflightInv, PTL DEF Spec

\* Ok is only ever said of a container that was healthy while it was asked about.
THEOREM OkIsHealthy == Spec => []OkWasHealthy
<1>1. PreflightInv => OkWasHealthy
  BY DEF PreflightInv, Told
<1>2. QED
  BY <1>1, PreflightCorrect, PTL

\* The deadline is overrun by less than one poll, however late the answers come.
THEOREM WaitIsBounded == Spec => []BoundedWait
<1>1. PreflightInv => BoundedWait
  BY DEF PreflightInv, OnTime
<1>2. QED
  BY <1>1, PreflightCorrect, PTL

\* A server that was ready by the end of its start period is not refused for time.
THEOREM WarmUpSuffices == Spec => []WarmUpIsEnough
<1>1. PreflightInv => WarmUpIsEnough
  BY DEF PreflightInv, WarmsUp
<1>2. QED
  BY <1>1, PreflightCorrect, PTL
=============================================================================
