------------------------------- MODULE Gateway -------------------------------
(***************************************************************************)
(* The API shell in front of a provider: the onRequest hook with its fixed *)
(* window (security.ts, app.ts), and the compile requests it lets through, each a  *)
(* run of the single-stage orchestrator that calls the provider with       *)
(* retries (orchestrator.ts, invoke.ts).                                   *)
(*                                                                         *)
(* The hook runs in one step, but reads the clock twice. After it, the     *)
(* requests in progress interleave at every await. Bodies, prompts, events *)
(* and what a revision says are left out.                                  *)
(***************************************************************************)
EXTENDS Integers, FiniteSets

CONSTANTS
  Clients,        \* by remote address
  Handlers,       \* places for the compile requests in progress
  Window, Second, \* of the rate limit, and 1000 ms
  GeneralLimit, ProviderLimit, GlobalLimit,
  MaxAttempts,
  CallCap,        \* max_provider_calls of the orchestrator's budget
  Excess,         \* bound: requests of a client refused for their number, per window and tier
  MaxClock

ASSUME GatewayAssumption ==
  /\ Window \in Nat \ {0} /\ Second \in Nat \ {0}
  /\ GeneralLimit \in Nat \ {0} /\ ProviderLimit \in Nat \ {0} /\ GlobalLimit \in Nat \ {0}
  /\ MaxAttempts \in Nat \ {0} /\ CallCap \in Nat
  /\ MaxClock \in Nat /\ Excess \in Nat
  /\ "*" \notin Clients /\ "nobody" \notin Clients

Tiers == {"general", "provider"}
Shared == <<"provider", "*">>
Keys == (Tiers \X Clients) \cup {Shared}

LimitOf == [general |-> GeneralLimit, provider |-> ProviderLimit]

VARIABLES
  clock,
  window,     \* the fixed window: when it started, and the counts of its keys; the other
              \* fields are history
  job         \* per handler, its request

vars == <<clock, window, job>>

\* History of a window: the provider requests let through, per client and in all, the client
\* whose second reading of the clock opened it, and until when a refused client is to wait.
Opened(t) ==
  [started |-> t, counts |-> [k \in Keys |-> 0],
   served |-> [c \in Clients |-> 0], granted |-> 0, opener |-> "nobody",
   told |-> [c \in Clients |-> 0]]

NoJob == [phase |-> "idle", calls |-> 0, wait |-> ""]

Init ==
  /\ clock = Window
  /\ window = Opened(0)
  /\ job = [h \in Handlers |-> NoJob]

-----------------------------------------------------------------------------
(* The hook.                                                               *)

\* The window starts over when its time is up.
Over(w, t) == t - w.started >= Window
Rolled(w, t) == IF Over(w, t) THEN Opened(t) ELSE w

\* FixedWindow.check: a refused request counts too.
Counted(w, key) == [w EXCEPT !.counts[key] = @ + 1]

\* The count compared as it was before the request.
WithinBefore(w, key, limit) == w.counts[key] - 1 <= limit

Within(w, key, limit) == w.counts[key] <= limit

\* The seconds to wait rounded down.
WaitShort(w, t) ==
  LET left == (w.started + Window - t) \div Second IN IF left < 1 THEN 1 ELSE left

\* Retry-After: the seconds left in the window, rounded up, at least one.
WaitFor(w, t) ==
  LET left == (w.started + Window - t + Second - 1) \div Second
  IN IF left < 1 THEN 1 ELSE left

Told(w, c, t) == [w EXCEPT !.told[c] = t + Second * WaitFor(w, t)]

\* The shared count before the credential is looked at.
SharedFirst(w, c, credential, t) == Counted(Rolled(w, t), Shared)

\* Only a request with its credential, within the allowance of its client, counts against the
\* budget that all share, on a clock read again.
SharedCount(w, c, credential, t) ==
  IF credential THEN Counted(Rolled(w, t), Shared) ELSE w

\* The request goes through to its handler.
Granted(w, c, opens) ==
  [w EXCEPT !.served[c] = @ + 1, !.granted = @ + 1, !.opener = IF opens THEN c ELSE @]

\* The hook refuses the request: over the client's allowance, without its credential, over the
\* budget of all. `w` is the window after the first check.
Refuses(w, c, tier, credential, later) ==
  \/ ~Within(w, <<tier, c>>, LimitOf[tier]) /\ window' = Told(w, c, clock)
  \/ /\ Within(w, <<tier, c>>, LimitOf[tier])
     /\ LET v == IF tier = "provider" THEN SharedCount(w, c, credential, later) ELSE w
        IN \/ ~credential /\ window' = v
           \/ /\ credential /\ tier = "provider"
              /\ ~Within(v, Shared, GlobalLimit)
              /\ window' = Told(v, c, later)

Admits(w, c, later) ==
  LET v == SharedCount(w, c, TRUE, later) IN
  /\ Within(w, <<"provider", c>>, ProviderLimit)
  /\ Within(v, Shared, GlobalLimit)
  /\ window' = Granted(v, c, Over(w, later))

\* The first check of a request; `Excess` bounds the refused ones.
Arrived(c, tier) == Counted(Rolled(window, clock), <<tier, c>>)
Bounded(c, tier) == Arrived(c, tier).counts[<<tier, c>>] <= LimitOf[tier] + Excess

\* The clock may move between the two readings.
Readings == {t \in {clock, clock + 1} : t <= MaxClock}

Refused(c, tier) ==
  /\ Bounded(c, tier)
  /\ \E credential \in BOOLEAN, later \in Readings :
       /\ Refuses(Arrived(c, tier), c, tier, credential, later)
       /\ clock' = later
  /\ UNCHANGED job

\* A request of the general tier is answered at once.
General(c) ==
  /\ Bounded(c, "general")
  /\ Within(Arrived(c, "general"), <<"general", c>>, GeneralLimit)
  /\ window' = Arrived(c, "general")
  /\ UNCHANGED <<clock, job>>

\* A compile request without a brief, one the budget of the orchestrator does not admit, or a
\* health check of the provider: it has been let through, and leaves nothing behind.
Passing(c) ==
  /\ Bounded(c, "provider")
  /\ \E later \in Readings : Admits(Arrived(c, "provider"), c, later) /\ clock' = later
  /\ UNCHANGED job

\* Orchestrator.run, up to its first call.
Compile(c, h) ==
  /\ job[h].phase = "idle"
  /\ MaxAttempts <= CallCap
  /\ Bounded(c, "provider")
  /\ \E later \in Readings : Admits(Arrived(c, "provider"), c, later) /\ clock' = later
  /\ job' = [job EXCEPT ![h] = [NoJob EXCEPT !.phase = "calling", !.calls = 1]]

Tick ==
  /\ clock < MaxClock
  /\ clock' = clock + 1
  /\ UNCHANGED <<window, job>>

-----------------------------------------------------------------------------
(* invokeWithRetry and the rest of the run.                                *)

\* A back-off as long as the provider says.
AsTold(asked) == asked

\* MAX_BACKOFF_MS: however long a provider asks to be left alone, the wait ends.
Backoff(asked) == "bounded"

\* The call ends. A completion, a terminal failure and a throw end the calls; a retriable
\* failure does when no attempt is left.
CallEnds(h) ==
  /\ job[h].phase = "calling"
  /\ \/ job' = [job EXCEPT ![h] = [@ EXCEPT !.phase = "storing"]]
     \/ /\ job[h].calls < MaxAttempts
        /\ \E asked \in {"bounded", "endless"} :
             job' = [job EXCEPT ![h] = [@ EXCEPT !.phase = "waiting", !.wait = Backoff(asked)]]
  /\ UNCHANGED <<clock, window>>

WaitEnds(h) ==
  /\ job[h].phase = "waiting"
  /\ job[h].wait = "bounded"
  /\ job' = [job EXCEPT ![h] = [@ EXCEPT !.phase = "calling", !.wait = "", !.calls = @ + 1]]
  /\ UNCHANGED <<clock, window>>

\* The revision is appended, or the store throws: the caller has its answer either way.
Stored(h) ==
  /\ job[h].phase = "storing"
  /\ job' = [job EXCEPT ![h] = NoJob]
  /\ UNCHANGED <<clock, window>>

Serve(h) == CallEnds(h) \/ WaitEnds(h) \/ Stored(h)

Next ==
  \/ \E c \in Clients :
       \/ \E tier \in Tiers : Refused(c, tier)
       \/ General(c)
       \/ Passing(c)
       \/ \E h \in Handlers : Compile(c, h)
  \/ Tick
  \/ \E h \in Handlers : Serve(h)

\* A provider call ends, by its own timeout if nothing else, a timer fires, an append returns.
Fairness == \A h \in Handlers : WF_vars(Serve(h))

Spec == Init /\ [][Next]_vars /\ Fairness

-----------------------------------------------------------------------------
(* Properties.                                                             *)

Job ==
  [phase : {"idle", "calling", "waiting", "storing"}, calls : Nat,
   wait : {"", "bounded", "endless"}]

TypeOK ==
  /\ clock \in Nat
  /\ window.started \in Nat /\ window.started <= clock
  /\ window.counts \in [Keys -> Nat]
  /\ window.served \in [Clients -> Nat] /\ window.granted \in Nat
  /\ window.told \in [Clients -> Nat]
  /\ job \in [Handlers -> Job]
  /\ \A h \in Handlers : job[h].calls <= MaxAttempts

\* In one window the provider is reached by no more requests than the budget that all the
\* clients share, and by no more of one client than its own allowance: but for the one request
\* whose second reading of the clock opened the window, counted for its client in the last.
CeilingsHold ==
  /\ window.granted <= GlobalLimit
  /\ \A c \in Clients :
       window.served[c] <= ProviderLimit + (IF window.opener = c THEN 1 ELSE 0)

\* The shared budget is spent on the requests that went through and on nothing else: a caller
\* without a credential, or over its own allowance, cannot use it up for the others.
SharedBudgetIsSpentOnRequests ==
  window.granted = IF window.counts[Shared] <= GlobalLimit THEN window.counts[Shared]
                   ELSE GlobalLimit

\* A client that waits as long as Retry-After tells it to finds the window over.
RetryAfterIsEnough ==
  \A c \in Clients : window.told[c] # 0 => window.told[c] >= window.started + Window

\* Every compile request that was let in is answered, however the provider and the store fail
\* and however long the provider asks to wait.
RequestsSettle == \A h \in Handlers : (job[h].phase # "idle") ~> (job[h].phase = "idle")

\* The two ceilings agree on the window of a request: comment on GLOBAL_PROVIDER_KEY in the hook.
CeilingsAgree == \A c \in Clients : window.served[c] <= ProviderLimit
=============================================================================
