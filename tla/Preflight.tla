------------------------------ MODULE Preflight ------------------------------
(***************************************************************************)
(* preflight.rs against the container it waits for: polls of `docker       *)
(* compose ps', each answering after a time of its own, and Docker's own   *)
(* health checks of the neo4j service, which only begin to succeed once    *)
(* the server is ready.  Time is counted in seconds and passes only while  *)
(* nothing is due.                                                         *)
(***************************************************************************)
EXTENDS Naturals

CONSTANTS
    POLL_INTERVAL, POLL_TIMEOUT,
    MaxQuery,      \* the longest that a `docker compose ps' may take
    Interval, Timeout, Retries, StartPeriod,   \* docker-compose.yml, healthcheck
    Ages,          \* how long the container may have been up at first
    ReadyTimes     \* when, after its start, the server may become ready

ASSUME TimeAssumption ==
  /\ {POLL_INTERVAL, POLL_TIMEOUT, MaxQuery, Interval, Timeout, Retries, StartPeriod} \subseteq Nat
  /\ POLL_INTERVAL > 0 /\ Interval > 0 /\ Ages \subseteq Nat /\ ReadyTimes \subseteq Nat

\* A server that is ready by the end of its start period is found healthy by
\* the check after the one that was under way, and there is a poll after that.
ASSUME WarmUpAssumption == StartPeriod + Interval + 2 * Timeout + MaxQuery < POLL_TIMEOUT

VARIABLES
    now,         \* seconds since the container was started
    container,   \* whether it is up, when it is ready, its health and its checks
    preflight,   \* the call of preflight::run
    seen         \* history: what the container's health was during the last query

vars == <<now, container, preflight, seen>>

Health == {"healthy", "starting", "unhealthy"}
Results ==
  {"none", "ok", "docker_unavailable", "compose_ps_failed", "unexpected_output", "service_absent", "not_healthy"}
-----------------------------------------------------------------------------
(* The container: Docker's health checks *)

Ready == now >= container.ready

CheckBegins ==
  /\ container.up /\ ~container.checking /\ now = container.at
  /\ container' = [container EXCEPT !.checking = TRUE]
  /\ UNCHANGED <<now, preflight, seen>>

\* A check that overlaps the moment of readiness may go either way; failures
\* of the start period are not counted.
CheckEnds(success) ==
  /\ container.checking
  /\ success => Ready
  /\ ~success => container.at < container.ready
  /\ LET failures == IF success \/ now < StartPeriod THEN 0 ELSE container.failures + 1
         health == IF success THEN "healthy"
                   ELSE IF failures >= Retries THEN "unhealthy" ELSE container.health
     IN  /\ container' = [container EXCEPT !.checking = FALSE, !.at = now + Interval, !.health = health,
                            !.failures = IF failures > Retries THEN Retries ELSE failures]
         /\ seen' = seen \cup {health}
  /\ UNCHANGED <<now, preflight>>

\* docker compose down, or the container exits: ps does not list it any more.
GoesDown ==
  /\ container.up
  /\ container' = [container EXCEPT !.up = FALSE, !.checking = FALSE]
  /\ UNCHANGED <<now, preflight, seen>>
-----------------------------------------------------------------------------
(* preflight::run *)

Ends(result) == preflight' = [preflight EXCEPT !.phase = "ended", !.result = result]

check_docker_available ==
  /\ preflight.phase = "begin"
  /\ \/ Ends("docker_unavailable") /\ UNCHANGED seen
     \/ /\ preflight' = [preflight EXCEPT !.phase = "asking", !.start = now, !.at = now]
        /\ seen' = {container.health}
  /\ UNCHANGED <<now, container>>

\* Docker looks at the container at some moment of the query.
Looks ==
  /\ preflight.phase = "asking"
  /\ preflight' = [preflight EXCEPT !.phase = "answering",
                     !.health = IF container.up THEN container.health ELSE "absent"]
  /\ UNCHANGED <<now, container, seen>>

\* The command cannot be run, or exits with an error.
ComposePsFails ==
  /\ preflight.phase \in {"asking", "answering"}
  /\ \E result \in {"docker_unavailable", "compose_ps_failed"} : Ends(result)
  /\ UNCHANGED <<now, container, seen>>

\* It answers a line that is not of the format, or a health that is not known.
UnexpectedOutput ==
  /\ preflight.phase = "answering"
  /\ Ends("unexpected_output")
  /\ UNCHANGED <<now, container, seen>>

Waited == now - preflight.start

\* Mutant: the start period is thought to be long enough.
TimedOut_StartPeriod == Waited >= StartPeriod

\* Mutant: the deadline itself is waited out once more.
TimedOut_After == Waited > POLL_TIMEOUT

TimedOut == Waited >= POLL_TIMEOUT

\* Mutant: a service that is starting is taken to be up.
Accepts_Starting(health) == health \in {"healthy", "starting"}

Accepts(health) == health = "healthy"

\* Mutant: a service that is absent is asked about again, at once.
Answers_AsksAgain ==
  /\ preflight.phase = "answering"
  /\ IF Accepts(preflight.health) THEN Ends("ok")
     ELSE IF preflight.health = "absent"
     THEN preflight' = [preflight EXCEPT !.phase = "asking", !.at = now]
     ELSE IF TimedOut THEN Ends("not_healthy")
     ELSE preflight' = [preflight EXCEPT !.phase = "sleeping", !.at = now]
  /\ UNCHANGED <<now, container, seen>>

\* health_from_compose_ps, and what the loop makes of it.
Answers ==
  /\ preflight.phase = "answering"
  /\ IF Accepts(preflight.health) THEN Ends("ok")
     ELSE IF preflight.health = "absent" THEN Ends("service_absent")
     ELSE IF TimedOut THEN Ends("not_healthy")
     ELSE preflight' = [preflight EXCEPT !.phase = "sleeping", !.at = now]
  /\ UNCHANGED <<now, container, seen>>

Wakes ==
  /\ preflight.phase = "sleeping" /\ now = preflight.at + POLL_INTERVAL
  /\ preflight' = [preflight EXCEPT !.phase = "asking", !.at = now]
  /\ seen' = {container.health}
  /\ UNCHANGED <<now, container>>
-----------------------------------------------------------------------------
\* Nothing may be overdue.
Tick ==
  /\ preflight.phase \in {"asking", "answering"} => now < preflight.at + MaxQuery
  /\ preflight.phase = "sleeping" => now < preflight.at + POLL_INTERVAL
  /\ container.up => now < container.at + (IF container.checking THEN Timeout ELSE 0)
  /\ preflight.phase \notin {"begin", "ended"}
  /\ now' = now + 1
  /\ UNCHANGED <<container, preflight, seen>>

\* Docker has been at it for a while: the container is starting, or has used
\* up its retries, and if it was ready long enough ago a check found that out.
Init ==
  /\ now \in Ages
  /\ container \in [up : BOOLEAN, ready : ReadyTimes, health : Health \ {"healthy"}, checking : {FALSE},
                    at : {now + d : d \in 0..Interval}, failures : {0, Retries}]
  /\ container.health = "unhealthy" <=> container.failures = Retries
  /\ container.health = "unhealthy" <=> now >= StartPeriod + Retries * Interval
  /\ container.ready + Timeout + Interval >= now
  /\ preflight = [phase |-> "begin", start |-> now, at |-> now, health |-> "absent", result |-> "none"]
  /\ seen = {}

Program == check_docker_available \/ Looks \/ ComposePsFails \/ UnexpectedOutput \/ Answers \/ Wakes
Next == Program \/ CheckBegins \/ (\E success \in BOOLEAN : CheckEnds(success)) \/ GoesDown \/ Tick

\* Time passes, and whatever is due happens.
Spec == Init /\ [][Next]_vars /\ WF_vars(Next)
-----------------------------------------------------------------------------
(* What must hold *)

Ended(result) == preflight.phase = "ended" /\ preflight.result = result

\* Ok is only said of a container that was healthy while it was asked about,
\* however late the answer came (preflight.rs: it "waits on the real container
\* healthcheck instead of guessing with a fixed sleep").
OkWasHealthy == Ended("ok") => "healthy" \in seen

\* A server that is ready by the end of its start period is never refused for
\* time, wherever the polls and Docker's checks fall (preflight.rs: a container
\* that takes nearly the full start period "still gets at least one real
\* healthcheck attempt inside our own timeout").
WarmUpIsEnough == Ended("not_healthy") => container.ready > StartPeriod

\* The deadline is only looked at between two polls; it is overrun by less
\* than one more of them.
BoundedWait == Waited < POLL_TIMEOUT + POLL_INTERVAL + MaxQuery

\* Why: nothing is overdue, what preflight has been told was so when it was
\* asked, and a check that begins once the server is ready is the last that a
\* container which is not healthy yet has to wait for.
Typed ==
  /\ now \in Nat
  /\ container \in [up : BOOLEAN, ready : Nat, health : Health, checking : BOOLEAN, at : Nat, failures : Nat]
  /\ preflight \in [phase : {"begin", "asking", "answering", "sleeping", "ended"}, start : Nat, at : Nat,
                     health : Health \cup {"absent"}, result : Results]
OnTime ==
  /\ preflight.start <= now
  /\ preflight.phase = "begin" => now = preflight.start
  /\ preflight.phase \in {"asking", "answering"} =>
       /\ preflight.at <= now /\ now <= preflight.at + MaxQuery
       /\ preflight.at < preflight.start + POLL_TIMEOUT + POLL_INTERVAL
  /\ preflight.phase = "sleeping" =>
       /\ preflight.at <= now /\ now <= preflight.at + POLL_INTERVAL
       /\ preflight.at < preflight.start + POLL_TIMEOUT
  /\ container.up => now <= container.at + (IF container.checking THEN Timeout ELSE 0)
  /\ container.checking => container.up
  /\ BoundedWait
Told ==
  /\ preflight.phase = "asking" => container.health \in seen
  /\ preflight.phase = "answering" => preflight.health \in seen \cup {"absent"}
  /\ OkWasHealthy
Warm == IF container.ready >= preflight.start THEN container.ready ELSE preflight.start
WarmsUp ==
  /\ IF container.health = "healthy" THEN container.ready <= container.at
     ELSE container.at <= Warm + Timeout + Interval
  /\ preflight.phase = "answering" /\ preflight.health \in {"starting", "unhealthy"} =>
       preflight.at <= Warm + Timeout + Interval + Timeout
  /\ WarmUpIsEnough
PreflightInv == Typed /\ OnTime /\ Told /\ WarmsUp

\* Preflight comes to an end with an answer, whatever the container does.
PreflightEnds == <>(preflight.phase = "ended")
=============================================================================
