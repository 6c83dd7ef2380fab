----------------------------- MODULE HostedHealth -----------------------------
(***************************************************************************)
(* The health of the hosted providers (provider-hosted-server), asked by   *)
(* requests that overlap. One question asks every provider at once and     *)
(* waits for all; a provider that is configured is probed, for HealthTimeout *)
(* at most, unless an entry of the cache is young enough. The provider     *)
(* itself comes and goes.                                                  *)
(***************************************************************************)
EXTENDS Integers, FiniteSets

CONSTANTS
  HostedProviders, Configured, Target, \* all, those with a key, and the adapter's default
  HealthCache, HealthTimeout,          \* HEALTH_CACHE_MS and HEALTH_TIMEOUT_MS
  Askers,
  MaxTime, MaxSwings                   \* bounds on the time, and on the comings and goings

ASSUME HostedHealthAssumption ==
  /\ Configured \subseteq HostedProviders /\ Target \in HostedProviders
  /\ HealthCache \in Nat \ {0} /\ HealthTimeout \in Nat
  /\ MaxTime \in Nat

NotAsked == [status |-> "none", at |-> 0, seen |-> 0]
Probing == "probing"

VARIABLES
  time,
  up,         \* whether the adapter's own provider can be reached
  healthCache, \* per provider, an entry: what was concluded, when, and when that was so
  asking,     \* per asker: whether it waits, since when, and the entries it has
  answer,     \* what the last question was answered, and when that was so
  swings      \* counter of the bound

healthVars == <<time, up, healthCache, asking, answer, swings>>

Resting == [waits |-> FALSE, started |-> 0, got |-> [p \in HostedProviders |-> NotAsked]]
NotTold == [ok |-> FALSE, seen |-> 0, told |-> 0]

HealthInit ==
  /\ time = 0
  /\ up = TRUE
  /\ healthCache = [p \in HostedProviders |-> NotAsked]
  /\ asking = [a \in Askers |-> Resting]
  /\ answer = NotTold
  /\ swings = 0

YoungWhenever(e) == e # NotAsked

Young(e) == e # NotAsked /\ time - e.at < HealthCache
\* health, up to its probes.
Consulted(p) ==
  IF Young(healthCache[p]) THEN healthCache[p]
  ELSE [status |-> IF p \in Configured THEN Probing ELSE "unconfigured", at |-> time, seen |-> time]

Ask(a) ==
  /\ ~asking[a].waits
  /\ asking' = [asking EXCEPT ![a] =
                  [waits |-> TRUE, started |-> time, got |-> [p \in HostedProviders |-> Consulted(p)]]]
  /\ healthCache' = [p \in HostedProviders |->
                       IF p \in Configured THEN healthCache[p] ELSE Consulted(p)]
  /\ UNCHANGED <<time, up, answer, swings>>

\* A probe in flight finds the adapter's own provider as it is; what becomes of the others is
\* never told.
Look(a) ==
  /\ asking[a].waits /\ asking[a].got[Target].status = Probing
  /\ asking' = [asking EXCEPT ![a].got[Target] =
                  [@ EXCEPT !.status = IF up THEN "looked up" ELSE "looked down", !.seen = time]]
  /\ UNCHANGED <<time, up, healthCache, answer, swings>>

\* Its response arrives, or the timer ends it, and the entry replaces whatever the cache has.
Conclude(a, p, status, seen) ==
  LET entry == [status |-> status, at |-> time, seen |-> seen]
  IN /\ asking' = [asking EXCEPT ![a].got[p] = entry]
     /\ healthCache' = [healthCache EXCEPT ![p] = entry]
     /\ UNCHANGED <<time, up, answer, swings>>

Pending == {Probing, "looked up", "looked down"}
InFlight(a) == {p \in HostedProviders : asking[a].got[p].status \in Pending}

Arrive(a, p) ==
  LET e == asking[a].got[p]
  IN /\ asking[a].waits
     /\ \/ e.status = "looked up" /\ Conclude(a, p, "healthy", e.seen)
        \/ e.status = "looked down" /\ Conclude(a, p, "unavailable", e.seen)
        \/ e.status = Probing /\ p # Target /\ Conclude(a, p, "probed", time)
        \/ /\ e.status \in Pending /\ p = Target
           /\ time - asking[a].started >= HealthTimeout
           /\ Conclude(a, p, "unavailable", time)

\* healthCheck answers from the entry of the adapter's own provider.
Answer(a) ==
  /\ asking[a].waits /\ InFlight(a) = {}
  /\ LET e == asking[a].got[Target]
     IN answer' = [ok |-> e.status = "healthy", seen |-> e.seen, told |-> time]
  /\ asking' = [asking EXCEPT ![a] = Resting]
  /\ UNCHANGED <<time, up, healthCache, swings>>

\* No probe outlives its timer.
HealthTick ==
  /\ time < MaxTime
  /\ \A a \in Askers : asking[a].waits => (InFlight(a) # {} /\ time - asking[a].started < HealthTimeout)
  /\ time' = time + 1
  /\ UNCHANGED <<up, healthCache, asking, answer, swings>>

\* The adapter's own provider goes or comes back.
Swing ==
  /\ swings < MaxSwings
  /\ swings' = swings + 1
  /\ up' = ~up
  /\ UNCHANGED <<time, healthCache, asking, answer>>

HealthNext ==
  \/ \E a \in Askers : Ask(a) \/ Look(a) \/ Answer(a) \/ \E p \in HostedProviders : Arrive(a, p)
  \/ HealthTick \/ Swing

\* A provider is said to be well or not by what was so at most the life of an entry and two
\* time-outs ago: one between the look and the entry, one while the question waits for the slowest
\* of the other providers. Overlapping questions and entries replaced out of order included.
HealthIsRecent == answer.told - answer.seen < HealthCache + 2 * HealthTimeout \/ answer = NotTold
=============================================================================
