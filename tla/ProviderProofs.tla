---------------------------- MODULE ProviderProofs ----------------------------
(***************************************************************************)
(* Theorems about the programs that call a provider: Gateway, Suite,       *)
(* EvalCommand and HostedHealth, for any clients, limits, suites, caps,    *)
(* trials, attempts, providers and time-outs.                              *)
(*                                                                         *)
(* Gateway: what the hook does to the window is a composition of a few     *)
(* functions of it. `Sound` says of a window what its theorems need, a     *)
(* lemma per function that it is kept, and the step of a request is one    *)
(* composition or another of the lemmas.                                   *)
(*                                                                         *)
(* Suite: the trials a run is done with (`Visited`) grow by the one that   *)
(* is scored. Every bound on the calls is a bound by the size of that set, *)
(* or of its keys, and the whole set is no larger than the plan.           *)
(*                                                                         *)
(* EvalCommand: a dry run is remembered with what main() returned of it,   *)
(* and main() returns the same of the plan it is the dry run of.           *)
(*                                                                         *)
(* HostedHealth: an entry is at most a time-out older than what it says,   *)
(* and a question waits at most one more.                                  *)
(***************************************************************************)
EXTENDS Gateway, EvalCommand, HostedHealth, TLAPS, FiniteSetTheorems, WellFoundedInduction

-----------------------------------------------------------------------------
(* Gateway: what is kept of a window.                                      *)

Windows ==
  [started : Nat, counts : [Keys -> Nat], served : [Clients -> Nat], granted : Nat,
   opener : Clients \cup {"nobody"}, told : [Clients -> Nat]]

ByOpener(w, c) == IF w.opener = c THEN 1 ELSE 0

\* A client was served no more than it was counted, nor than its allowance: but for the request
\* that opened the window.
ServedOf(w, c) ==
  /\ w.served[c] <= w.counts[<<"provider", c>>] + ByOpener(w, c)
  /\ w.served[c] <= ProviderLimit + ByOpener(w, c)

GrantedOf(w) ==
  w.granted = IF w.counts[Shared] <= GlobalLimit THEN w.counts[Shared] ELSE GlobalLimit

ToldOf(w, c) == w.told[c] # 0 => w.told[c] >= w.started + Window

Sound(w, t) ==
  /\ w \in Windows
  /\ w.started <= t
  /\ \A c \in Clients : ServedOf(w, c) /\ ToldOf(w, c)
  /\ GrantedOf(w)

Inv == clock \in Nat /\ Sound(window, clock)

-----------------------------------------------------------------------------
(* Gateway: lemmas.                                                                 *)

LEMMA KeysAreApart ==
  /\ Shared \in Keys
  /\ \A c \in Clients, tier \in Tiers : <<tier, c>> \in Keys /\ <<tier, c>> # Shared
BY GatewayAssumption DEF Shared, Keys, Tiers

\* A fresh window.
LEMMA OpenedSound ==
  ASSUME NEW t \in Nat
  PROVE  Sound(Opened(t), t) /\ Opened(t).counts = [k \in Keys |-> 0]
<1> DEFINE w == Opened(t)
<1>1. /\ w.started = t /\ w.counts = [k \in Keys |-> 0] /\ w.served = [c \in Clients |-> 0]
      /\ w.granted = 0 /\ w.opener = "nobody" /\ w.told = [c \in Clients |-> 0]
      /\ w \in Windows
  BY DEF Opened, Windows
<1> HIDE DEF w
<1>2. w.counts[Shared] = 0
  BY <1>1, KeysAreApart
<1>3. ASSUME NEW c \in Clients PROVE ServedOf(w, c) /\ ToldOf(w, c)
  <2>1. w.served[c] = 0 /\ w.told[c] = 0 /\ w.counts[<<"provider", c>>] = 0
    BY <1>1, KeysAreApart DEF Tiers
  <2> QED BY <2>1, GatewayAssumption DEF ServedOf, ToldOf, ByOpener
<1>4. GrantedOf(w)
  BY <1>1, <1>2, GatewayAssumption DEF GrantedOf
<1>5. Sound(w, t) /\ w.counts = [k \in Keys |-> 0]
  BY <1>1, <1>3, <1>4 DEF Sound
<1> QED BY <1>5 DEF w

LEMMA RolledSound ==
  ASSUME NEW w, NEW t \in Nat, NEW u \in Nat, Sound(w, t), t <= u
  PROVE  Sound(Rolled(w, u), u)
<1>1. CASE Over(w, u)
  BY <1>1, OpenedSound DEF Rolled
<1>2. CASE ~Over(w, u)
  BY <1>2 DEF Rolled, Sound, Windows
<1> QED BY <1>1, <1>2

\* Counting a key leaves the rest alone.
LEMMA CountedIs ==
  ASSUME NEW w \in Windows, NEW k \in Keys
  PROVE  /\ Counted(w, k) \in Windows
         /\ Counted(w, k).started = w.started /\ Counted(w, k).served = w.served
         /\ Counted(w, k).granted = w.granted /\ Counted(w, k).opener = w.opener
         /\ Counted(w, k).told = w.told
         /\ Counted(w, k).counts[k] = w.counts[k] + 1
         /\ \A j \in Keys \ {k} : Counted(w, k).counts[j] = w.counts[j]
BY DEF Counted, Windows

\* A client's own count.
LEMMA OwnCountSound ==
  ASSUME NEW w, NEW t \in Nat, Sound(w, t), NEW c \in Clients, NEW tier \in Tiers
  PROVE  Sound(Counted(w, <<tier, c>>), t)
<1> DEFINE k == <<tier, c>>
           v == Counted(w, k)
<1>1. w \in Windows /\ k \in Keys /\ k # Shared /\ Shared \in Keys
  BY KeysAreApart DEF Sound
<1>2. /\ v \in Windows /\ v.started = w.started /\ v.served = w.served
      /\ v.granted = w.granted /\ v.opener = w.opener /\ v.told = w.told
      /\ v.counts[Shared] = w.counts[Shared]
  BY <1>1, CountedIs
<1>3. \A d \in Clients : v.counts[<<"provider", d>>] >= w.counts[<<"provider", d>>]
  <2> SUFFICES ASSUME NEW d \in Clients
               PROVE  v.counts[<<"provider", d>>] >= w.counts[<<"provider", d>>]
    OBVIOUS
  <2>1. <<"provider", d>> \in Keys
    BY KeysAreApart DEF Tiers
  <2>2. w.counts[<<"provider", d>>] \in Nat
    BY <1>1, <2>1 DEF Windows
  <2>3. CASE <<"provider", d>> = k
    BY <1>1, <2>2, <2>3, CountedIs
  <2>4. CASE <<"provider", d>> # k
    <3>1. v.counts[<<"provider", d>>] = w.counts[<<"provider", d>>]
      BY <1>1, <2>1, <2>4, CountedIs
    <3> QED BY <2>2, <3>1
  <2> QED BY <2>3, <2>4
<1>4. \A d \in Clients : ServedOf(v, d)
  <2> SUFFICES ASSUME NEW d \in Clients PROVE ServedOf(v, d)
    OBVIOUS
  <2>1. ServedOf(w, d) /\ ByOpener(v, d) = ByOpener(w, d) /\ ByOpener(w, d) \in {0, 1}
    BY <1>2 DEF Sound, ByOpener
  <2>2. <<"provider", d>> \in Keys
    BY KeysAreApart DEF Tiers
  <2>3. /\ w.counts[<<"provider", d>>] \in Nat /\ v.counts[<<"provider", d>>] \in Nat
        /\ w.served[d] \in Nat
    BY <1>1, <1>2, <2>2 DEF Windows
  <2> QED BY <1>2, <1>3, <2>1, <2>3 DEF ServedOf
<1>5. \A d \in Clients : ToldOf(v, d)
  BY <1>2 DEF Sound, ToldOf
<1>6. GrantedOf(v)
  BY <1>2 DEF Sound, GrantedOf
<1> QED BY <1>2, <1>4, <1>5, <1>6 DEF Sound

\* The shared count: sound again once the request is granted, or when the budget is spent.
LEMMA SharedIs ==
  ASSUME NEW w, NEW t \in Nat, Sound(w, t)
  PROVE  LET v == Counted(w, Shared) IN
         /\ v \in Windows /\ v.started = w.started /\ v.served = w.served
         /\ v.granted = w.granted /\ v.opener = w.opener /\ v.told = w.told
         /\ v.counts[Shared] = w.counts[Shared] + 1
         /\ \A d \in Clients : v.counts[<<"provider", d>>] = w.counts[<<"provider", d>>]
         /\ w.counts[Shared] \in Nat
<1>1. w \in Windows /\ Shared \in Keys
  BY KeysAreApart DEF Sound
<1>2. \A d \in Clients : <<"provider", d>> \in Keys \ {Shared}
  BY KeysAreApart DEF Tiers
<1>3. w.counts[Shared] \in Nat
  BY <1>1 DEF Windows
<1> QED BY <1>1, <1>2, <1>3, CountedIs

LEMMA SpentSound ==
  ASSUME NEW w, NEW t \in Nat, Sound(w, t), ~Within(Counted(w, Shared), Shared, GlobalLimit)
  PROVE  Sound(Counted(w, Shared), t)
<1> DEFINE v == Counted(w, Shared)
<1>1. /\ v \in Windows /\ v.started = w.started /\ v.served = w.served
      /\ v.granted = w.granted /\ v.opener = w.opener /\ v.told = w.told
      /\ v.counts[Shared] = w.counts[Shared] + 1
      /\ \A d \in Clients : v.counts[<<"provider", d>>] = w.counts[<<"provider", d>>]
      /\ w.counts[Shared] \in Nat
  BY SharedIs
<1>2. \A d \in Clients : ServedOf(v, d) /\ ToldOf(v, d)
  BY <1>1 DEF Sound, ServedOf, ToldOf, ByOpener
<1>3. GrantedOf(v)
  <2>1. ~(v.counts[Shared] <= GlobalLimit)
    BY DEF Within
  <2>2. w.granted = IF w.counts[Shared] <= GlobalLimit THEN w.counts[Shared] ELSE GlobalLimit
    BY DEF Sound, GrantedOf
  <2>3. v.granted = GlobalLimit
    BY <1>1, <2>1, <2>2, GatewayAssumption
  <2> QED BY <2>1, <2>3 DEF GrantedOf
<1> QED BY <1>1, <1>2, <1>3 DEF Sound

LEMMA GrantedIs ==
  ASSUME NEW w \in Windows, NEW c \in Clients, NEW opens \in BOOLEAN
  PROVE  LET u == Granted(w, c, opens) IN
         /\ u \in Windows /\ u.started = w.started /\ u.counts = w.counts /\ u.told = w.told
         /\ u.granted = w.granted + 1
         /\ u.served[c] = w.served[c] + 1
         /\ \A d \in Clients \ {c} : u.served[d] = w.served[d]
         /\ u.opener = IF opens THEN c ELSE w.opener
<1> DEFINE who == IF opens THEN c ELSE w.opener
           u == Granted(w, c, opens)
           more == [w.served EXCEPT ![c] = @ + 1]
<1>1. who \in Clients \cup {"nobody"}
  BY DEF Windows
<1>2. more \in [Clients -> Nat] /\ more[c] = w.served[c] + 1 /\ w.granted + 1 \in Nat
  BY DEF Windows
<1>3. \A d \in Clients \ {c} : more[d] = w.served[d]
  BY DEF Windows
<1>4. u = [w EXCEPT !.served = more, !.granted = w.granted + 1, !.opener = who]
  BY DEF Granted, Windows
<1> HIDE DEF who, more, u
<1>5. /\ u \in Windows /\ u.started = w.started /\ u.counts = w.counts /\ u.told = w.told
      /\ u.granted = w.granted + 1 /\ u.served = more /\ u.opener = who
  BY <1>1, <1>2, <1>4 DEF Windows
<1> QED BY <1>2, <1>3, <1>5 DEF u, who

LEMMA RoundedUp ==
  ASSUME NEW x \in Int, NEW n \in Nat \ {0}
  PROVE  (x + n - 1) \div n \in Int /\ n * ((x + n - 1) \div n) >= x
<1> DEFINE y == x + n - 1
           q == y \div n
           r == y % n
<1>1. y \in Int
  OBVIOUS
<1>2. q \in Int /\ r \in 0..(n - 1) /\ y = n * q + r
  <2> HIDE DEF y
  <2> QED BY <1>1
<1>3. n * q \in Int
  BY <1>2
<1>4. n * q >= x
  <2> DEFINE p == n * q
  <2>1. y = p + r /\ p \in Int
    BY <1>2, <1>3
  <2> HIDE DEF p, q, r
  <2>2. p >= x
    BY <2>1, <1>2
  <2> QED BY <2>2 DEF p
<1> QED BY <1>2, <1>4

LEMMA ToldSound ==
  ASSUME NEW w, NEW t \in Nat, Sound(w, t), NEW c \in Clients
  PROVE  Sound(Told(w, c, t), t)
<1> DEFINE v == Told(w, c, t)
           x == w.started + Window - t
           left == (x + Second - 1) \div Second
           wait == Second * WaitFor(w, t)
<1>1. w \in Windows /\ w.started \in Nat /\ x \in Int /\ Second \in Nat \ {0}
  BY GatewayAssumption DEF Sound, Windows
<1>2. left \in Int /\ Second * left >= x
  <2> HIDE DEF x
  <2> QED BY <1>1, RoundedUp
<1>3. WaitFor(w, t) = IF left < 1 THEN 1 ELSE left
  BY DEF WaitFor
<1>4. wait \in Nat /\ wait >= x
  <2>1. CASE left < 1
    <3>1. wait = Second
      BY <1>1, <1>3, <2>1
    <3>2. Second * left <= 0
      BY <1>1, <1>2, <2>1
    <3> HIDE DEF left, x, wait
    <3>3. Second * left \in Int
      BY <1>1, <1>2
    <3>4. x <= 0
      BY <1>1, <1>2, <3>2, <3>3
    <3> QED BY <1>1, <3>1, <3>4
  <2>2. CASE ~(left < 1)
    <3>1. wait = Second * left
      BY <1>3, <2>2
    <3>2. left \in Nat
      BY <1>2, <2>2
    <3> HIDE DEF left, x, wait
    <3>3. Second * left \in Nat
      BY <1>1, <3>2
    <3> QED BY <1>2, <3>1, <3>3
  <2> QED BY <2>1, <2>2
<1>5. t + wait \in Nat /\ t + wait >= w.started + Window
  <2> HIDE DEF wait
  <2> QED BY <1>1, <1>4, GatewayAssumption
<1>6. v = [w EXCEPT !.told[c] = t + wait]
  BY DEF Told
<1> HIDE DEF wait
<1>7. /\ v \in Windows /\ v.started = w.started /\ v.served = w.served /\ v.counts = w.counts
      /\ v.granted = w.granted /\ v.opener = w.opener /\ v.told[c] = t + wait
      /\ \A d \in Clients \ {c} : v.told[d] = w.told[d]
  <2> HIDE DEF v
  <2> QED BY <1>1, <1>5, <1>6 DEF Windows
<1>8. \A d \in Clients : ServedOf(v, d)
  BY <1>7 DEF Sound, ServedOf, ByOpener
<1>9. \A d \in Clients : ToldOf(v, d)
  BY <1>5, <1>7 DEF Sound, ToldOf
<1>10. GrantedOf(v)
  BY <1>7 DEF Sound, GrantedOf
<1> QED BY <1>7, <1>8, <1>9, <1>10 DEF Sound

-----------------------------------------------------------------------------
(* The hook.                                                               *)

\* The first check of a request.
LEMMA ArrivedSound ==
  ASSUME Inv, NEW c \in Clients, NEW tier \in Tiers
  PROVE  Sound(Arrived(c, tier), clock)
BY RolledSound, OwnCountSound DEF Inv, Arrived

LEMMA RefusedSound ==
  ASSUME Inv, NEW c \in Clients, NEW tier \in Tiers, NEW credential \in BOOLEAN,
         NEW later \in Readings, Refuses(Arrived(c, tier), c, tier, credential, later),
         clock' = later
  PROVE  Inv'
<1> DEFINE w == Arrived(c, tier)
           v == IF tier = "provider" THEN SharedCount(w, c, credential, later) ELSE w
<1>1. clock \in Nat /\ later \in Nat /\ clock <= later /\ Sound(w, clock)
  BY ArrivedSound DEF Inv, Readings
<1> HIDE DEF w
<1>2. Sound(w, later)
  BY <1>1 DEF Sound, Windows
<1>3. CASE window' = Told(w, c, clock)
  <2>1. Sound(window', clock)
    BY <1>1, <1>3, ToldSound
  <2> QED BY <1>1, <2>1 DEF Sound, Windows, Inv
<1>4. CASE ~credential /\ window' = v
  BY <1>1, <1>2, <1>4 DEF SharedCount, Inv
<1>5. CASE /\ credential /\ tier = "provider" /\ ~Within(v, Shared, GlobalLimit)
           /\ window' = Told(v, c, later)
  <2>1. v = Counted(Rolled(w, later), Shared)
    BY <1>5 DEF SharedCount
  <2>2. Sound(Rolled(w, later), later)
    BY <1>1, RolledSound
  <2>3. Sound(v, later)
    BY <1>1, <1>5, <2>1, <2>2, SpentSound
  <2> HIDE DEF v
  <2>4. Sound(window', later)
    BY <1>1, <1>5, <2>3, ToldSound
  <2> QED BY <1>1, <2>4 DEF Inv
<1> QED BY <1>3, <1>4, <1>5 DEF Refuses, w

\* A request that is let through: it was counted for its client in the window it is granted in,
\* or opens that window.
LEMMA AdmitsSound ==
  ASSUME Inv, NEW c \in Clients, NEW later \in Readings,
         Admits(Arrived(c, "provider"), c, later), clock' = later
  PROVE  Inv'
<1> DEFINE r == Rolled(window, clock)
           w == Arrived(c, "provider")
           z == Rolled(w, later)
           v == Counted(z, Shared)
           k == <<"provider", c>>
<1>1. clock \in Nat /\ later \in Nat /\ clock <= later /\ Sound(w, clock) /\ Sound(z, later)
  BY ArrivedSound, RolledSound DEF Inv, Readings, Tiers
<1>2. w = Counted(r, k) /\ Sound(r, clock)
  BY RolledSound DEF Arrived, Inv
<1>3. k \in Keys /\ r \in Windows
  BY <1>2, KeysAreApart DEF Sound, Tiers
<1>4. /\ window' = Granted(v, c, Over(w, later))
      /\ Within(w, k, ProviderLimit) /\ Within(v, Shared, GlobalLimit)
  BY DEF Admits, SharedCount
<1> HIDE DEF w, z, r
<1>5. /\ v \in Windows /\ v.started = z.started /\ v.served = z.served
      /\ v.granted = z.granted /\ v.opener = z.opener /\ v.told = z.told
      /\ v.counts[Shared] = z.counts[Shared] + 1
      /\ \A d \in Clients : v.counts[<<"provider", d>>] = z.counts[<<"provider", d>>]
      /\ z.counts[Shared] \in Nat
  BY <1>1, SharedIs
<1> HIDE DEF v
<1> DEFINE u == Granted(v, c, Over(w, later))
<1>6. /\ u \in Windows /\ u.started = v.started /\ u.counts = v.counts /\ u.told = v.told
      /\ u.granted = v.granted + 1
      /\ u.served[c] = v.served[c] + 1
      /\ \A d \in Clients \ {c} : u.served[d] = v.served[d]
      /\ u.opener = IF Over(w, later) THEN c ELSE v.opener
  <2>1. Over(w, later) \in BOOLEAN
    BY DEF Over
  <2> HIDE DEF u
  <2>2. u = Granted(v, c, Over(w, later))
    BY DEF u
  <2> QED BY <1>5, <2>1, <2>2, GrantedIs
<1> HIDE DEF u
<1>7. GrantedOf(u)
  <2>1. v.counts[Shared] <= GlobalLimit
    BY <1>4 DEF Within
  <2>2. z.granted = z.counts[Shared]
    BY <1>1, <1>5, <2>1, GatewayAssumption DEF Sound, GrantedOf
  <2> QED BY <1>5, <1>6, <2>1, <2>2 DEF GrantedOf
<1>8. \A d \in Clients : ToldOf(u, d)
  BY <1>1, <1>5, <1>6 DEF Sound, ToldOf
<1>9. ServedOf(u, c)
  <2>1. CASE Over(w, later)
    <3>1. z = Opened(later)
      BY <2>1 DEF z, Rolled
    <3>2. z.served[c] = 0 /\ z.counts[k] = 0
      BY <3>1, <1>3 DEF Opened
    <3>3. u.served[c] = 1 /\ u.counts[k] = 0 /\ u.opener = c
      BY <1>5, <1>6, <2>1, <3>2
    <3> QED BY <3>3, GatewayAssumption DEF ServedOf, ByOpener
  <2>2. CASE ~Over(w, later)
    <3>1. z = w
      BY <2>2 DEF z, Rolled
    <3>2. /\ w.counts[k] = r.counts[k] + 1 /\ w.served = r.served /\ w.opener = r.opener
      BY <1>2, <1>3, CountedIs
    <3>3. r.served[c] <= r.counts[k] + ByOpener(r, c)
      BY <1>2 DEF Sound, ServedOf
    <3>4. u.served[c] = r.served[c] + 1 /\ u.counts[k] = r.counts[k] + 1 /\ u.opener = r.opener
      BY <1>5, <1>6, <2>2, <3>1, <3>2
    <3>5. r.counts[k] + 1 <= ProviderLimit
      BY <1>4, <3>2 DEF Within
    <3>6. r.served[c] \in Nat /\ r.counts[k] \in Nat /\ ByOpener(r, c) \in {0, 1}
      BY <1>3 DEF Windows, ByOpener
    <3>7. ByOpener(u, c) = ByOpener(r, c)
      BY <3>4 DEF ByOpener
    <3> HIDE DEF k
    <3>8. /\ u.served[c] <= u.counts[k] + ByOpener(u, c)
          /\ u.served[c] <= ProviderLimit + ByOpener(u, c)
      BY <3>3, <3>4, <3>5, <3>6, <3>7, GatewayAssumption
    <3> QED BY <3>8 DEF ServedOf, k
  <2> QED BY <2>1, <2>2
<1>10. ASSUME NEW d \in Clients \ {c} PROVE ServedOf(u, d)
  <2>1. ServedOf(z, d)
    BY <1>1 DEF Sound
  <2>2. /\ u.served[d] = z.served[d]
        /\ u.counts[<<"provider", d>>] = z.counts[<<"provider", d>>]
    BY <1>5, <1>6
  <2>3. <<"provider", d>> \in Keys
    BY KeysAreApart DEF Tiers
  <2>4. z.served[d] \in Nat /\ z.counts[<<"provider", d>>] \in Nat
    BY <1>1, <2>3 DEF Sound, Windows
  <2>5. ByOpener(z, d) <= ByOpener(u, d) /\ ByOpener(z, d) \in Nat /\ ByOpener(u, d) \in Nat
    <3>1. CASE Over(w, later)
      BY <3>1, GatewayAssumption DEF z, Rolled, Opened, ByOpener
    <3>2. CASE ~Over(w, later)
      BY <3>2, <1>5, <1>6 DEF ByOpener
    <3> QED BY <3>1, <3>2
  <2> QED BY <2>1, <2>2, <2>4, <2>5, GatewayAssumption DEF ServedOf
<1>11. u.started <= later
  BY <1>1, <1>5, <1>6 DEF Sound
<1>12. \A d \in Clients : ServedOf(u, d)
  BY <1>9, <1>10
<1>13. Sound(u, later)
  BY <1>6, <1>7, <1>8, <1>11, <1>12 DEF Sound
<1> QED BY <1>1, <1>4, <1>13 DEF Inv, u

-----------------------------------------------------------------------------
(* The invariant.                                                          *)

LEMMA InitSound == Init => Inv
BY OpenedSound, GatewayAssumption DEF Init, Inv, Sound, Windows, Opened, ServedOf, GrantedOf,
   ToldOf, ByOpener, Shared, Keys, Tiers

LEMMA StepSound == Inv /\ [Next]_vars => Inv'
<1> SUFFICES ASSUME Inv, [Next]_vars PROVE Inv'
  OBVIOUS
<1>1. ASSUME NEW c \in Clients, NEW tier \in Tiers, Refused(c, tier) PROVE Inv'
  BY <1>1, RefusedSound DEF Refused
<1>2. ASSUME NEW c \in Clients, General(c) PROVE Inv'
  BY <1>2, ArrivedSound DEF General, Inv, Tiers
<1>3. ASSUME NEW c \in Clients, Passing(c) PROVE Inv'
  BY <1>3, AdmitsSound DEF Passing
<1>4. ASSUME NEW c \in Clients, NEW h \in Handlers, Compile(c, h) PROVE Inv'
  BY <1>4, AdmitsSound DEF Compile
<1>5. CASE Tick
  BY <1>5 DEF Tick, Inv, Sound, Windows
<1>6. ASSUME NEW h \in Handlers, Serve(h) PROVE Inv'
  BY <1>6 DEF Serve, CallEnds, WaitEnds, Stored, Inv
<1>7. CASE UNCHANGED vars
  BY <1>7 DEF vars, Inv
<1> QED BY <1>1, <1>2, <1>3, <1>4, <1>5, <1>6, <1>7 DEF Next

LEMMA SpecSound == Spec => []Inv
BY InitSound, StepSound, PTL DEF Spec

-----------------------------------------------------------------------------
(* Theorems.                                                               *)

\* Whatever the clients send and whenever the clock moves, a window lets through no more provider
\* requests than the shared budget, and no more of a client than its allowance and the one that
\* opened it: the hook's two ceilings.
THEOREM BudgetsBound == Spec => []CeilingsHold
<1>1. Inv => CeilingsHold
  <2> SUFFICES ASSUME Inv PROVE CeilingsHold
    OBVIOUS
  <2>1. GrantedOf(window) /\ window.counts[Shared] \in Nat
    BY KeysAreApart DEF Inv, Sound, Windows
  <2>2. window.granted <= GlobalLimit
    BY <2>1, GatewayAssumption DEF GrantedOf
  <2> QED BY <2>2 DEF CeilingsHold, Inv, Sound, ServedOf, ByOpener
<1> QED BY <1>1, SpecSound, PTL

\* The shared budget counts the requests let through, until it is spent: no refused request,
\* and none without its credential, takes of it.
THEOREM OnlyGrantedRequestsSpend == Spec => []SharedBudgetIsSpentOnRequests
<1>1. Inv => SharedBudgetIsSpentOnRequests
  BY DEF Inv, Sound, GrantedOf, SharedBudgetIsSpentOnRequests
<1> QED BY <1>1, SpecSound, PTL

\* The Retry-After of a refusal reaches to the end of the window, whatever the units of the
\* clock and wherever in the window it is computed.
THEOREM WaitingHelps == Spec => []RetryAfterIsEnough
<1>1. Inv => RetryAfterIsEnough
  BY DEF Inv, Sound, ToldOf, RetryAfterIsEnough
<1> QED BY <1>1, SpecSound, PTL

-----------------------------------------------------------------------------
(* Well-founded choice.                                                    *)

\* A set of naturals that is not empty has a least one.
LEMMA LeastNatural ==
  ASSUME NEW S \in SUBSET Nat, S # {}
  PROVE  \E m \in S : \A k \in S : m <= k
<1>1. PICK m \in S : \A k \in S : ~(<<k, m>> \in OpToRel(<, Nat))
  BY WFMin, NatLessThanWellFounded
<1>2. \A k \in S : ~(k < m)
  BY <1>1 DEF OpToRel
<1> QED BY <1>2

-----------------------------------------------------------------------------
(* Suite: the trials of a run in their order.                              *)

Configs ==
  [stochastic : BOOLEAN, cached : BOOLEAN, cap : Caps \cup {NoCap}, cases : SUBSET Cases,
   trials : 1 .. Trials]

\* The trials a run is done with.
VisitedOf(ph, c, a) == IF ph = "running" THEN {v \in Todo(c) : Before(v, a)} ELSE Todo(c)
Visited == VisitedOf(phase, config, at)

\* The key of a trial, and those of a set of trials.
SlotKey(c, v) == <<<<c.stochastic, c.cap>>, v[1], IF c.stochastic THEN v[2] ELSE 0>>
KeysFor(c, slots) == {SlotKey(c, v) : v \in slots}

\* A run whose trials are calls of their own, or one call a case and hits.
OneCallAKey(c) == c.stochastic \/ c.cached \/ c.trials = 1

SuiteTypeOK ==
  /\ phase \in {"idle", "running"}
  /\ config \in Configs
  /\ phase = "running" => at \in Todo(config)
  /\ attempt \in 1 .. Attempts
  /\ cache \in [CacheKeys -> Nat]
  /\ calls \in Nat
  /\ cost \in [provider_calls : Nat, cache_hits : Nat]
  /\ lost \in [thrown : Nat, failed : Nat]
  /\ taken \in [Slots -> Nat]
  /\ answers \in Nat

\* No two keys hold one answer, and no trial that was answered has another than its key.
AnswersApart ==
  /\ \A k \in CacheKeys : cache[k] <= answers
  /\ \A k, l \in CacheKeys : k # l /\ cache[k] # NoAnswer => cache[k] # cache[l]
  /\ \A s \in Slots : taken[s] <= answers
  /\ config.stochastic /\ config.cached =>
       \A s \in Slots : taken[s] # NoAnswer => taken[s] = cache[SlotKey(config, s)]

TakenVisited == \A s \in Slots : taken[s] # NoAnswer => s \in Visited

\* Retries: the trials done with cost their attempts, the one in hand those it has used.
RetriesBound ==
  calls <= Cardinality(Visited) * Attempts + (IF phase = "running" THEN attempt - 1 ELSE 0)

\* While no request failed, a key is called once.
KeysBound ==
  lost = NoLoss /\ OneCallAKey(config) =>
    /\ calls <= Cardinality(KeysFor(config, Visited))
    /\ config.cached => \A v \in Visited : cache[SlotKey(config, v)] # NoAnswer

SuiteInv ==
  /\ SuiteTypeOK /\ AnswersApart /\ TrialsAreSamples
  /\ TakenVisited /\ CostIsWhatWasCalled
  /\ RetriesBound /\ KeysBound
  /\ Admitted(config)

-----------------------------------------------------------------------------
(* The order of the trials.                                                *)

LEMMA SlotsAre ==
  \A u \in Slots : /\ u[1] \in Nat /\ u[2] \in Nat /\ u[1] \in Written /\ u[1] \in Cases
                   /\ u[2] \in 1 .. Trials /\ u = <<u[1], u[2]>>
<1>1. Cases \subseteq Nat
  <2>1. Cardinality(Cases) \in Nat
    BY SuiteAssumption, FS_CardinalityType
  <2> QED BY <2>1, SuiteAssumption
<1>2. \A i \in 1 .. Trials : i \in Nat
  BY SuiteAssumption
<1>3. Written \subseteq Cases
  BY DEF Written
<1> SUFFICES ASSUME NEW u \in Slots
             PROVE  /\ u[1] \in Nat /\ u[2] \in Nat /\ u[1] \in Written /\ u[1] \in Cases
                    /\ u[2] \in 1 .. Trials /\ u = <<u[1], u[2]>>
  OBVIOUS
<1>4. u[1] \in Written /\ u[2] \in 1 .. Trials /\ u = <<u[1], u[2]>>
  BY DEF Slots
<1> QED BY <1>1, <1>2, <1>3, <1>4

LEMMA BeforeIsOrder ==
  /\ \A u \in Slots : ~Before(u, u)
  /\ \A u, v \in Slots : u # v => Before(u, v) \/ Before(v, u)
  /\ \A u, v \in Slots : Before(u, v) => ~Before(v, u)
  /\ \A u, v, w \in Slots : Before(u, v) /\ Before(v, w) => Before(u, w)
<1>1. \A u, v \in Slots : u # v => u[1] # v[1] \/ u[2] # v[2]
  BY SlotsAre
<1> QED BY <1>1, SlotsAre DEF Before

\* Earliest(S) is the first trial of S.
LEMMA EarliestIs ==
  ASSUME NEW S \in SUBSET Slots, S # {}
  PROVE  Earliest(S) \in S /\ \A v \in S : ~Before(v, Earliest(S))
<1> DEFINE firsts == {v[1] : v \in S}
<1>1. firsts \in SUBSET Nat /\ firsts # {}
  BY SlotsAre
<1>2. PICK c \in firsts : \A k \in firsts : c <= k
  <2> HIDE DEF firsts
  <2> QED BY <1>1, LeastNatural
<1> DEFINE seconds == {v[2] : v \in {x \in S : x[1] = c}}
<1>3. seconds \in SUBSET Nat /\ seconds # {}
  BY SlotsAre
<1>4. PICK t \in seconds : \A k \in seconds : t <= k
  <2> HIDE DEF seconds
  <2> QED BY <1>3, LeastNatural
<1>5. PICK u \in S : u[1] = c /\ u[2] = t
  OBVIOUS
<1>6. \A v \in S : ~Before(v, u)
  <2> SUFFICES ASSUME NEW v \in S PROVE ~Before(v, u)
    OBVIOUS
  <2>1. c <= v[1] /\ (v[1] = c => t <= v[2])
    BY <1>2, <1>4
  <2>2. v \in Slots /\ u \in Slots
    OBVIOUS
  <2> QED BY <2>1, <2>2, <1>5, SlotsAre DEF Before
<1> QED BY <1>6 DEF Earliest

LEMMA TodoAre ==
  ASSUME NEW c \in Configs
  PROVE  /\ Todo(c) \subseteq Slots /\ IsFiniteSet(Todo(c))
         /\ c.cases \subseteq Cases /\ IsFiniteSet(c.cases)
         /\ Todo(c) \subseteq c.cases \X (1 .. c.trials)
<1>1. c.cases \subseteq Cases /\ c.trials \in Nat
  BY SuiteAssumption DEF Configs
<1>2. IsFiniteSet(c.cases) /\ IsFiniteSet(1 .. c.trials)
  <2>1. IsFiniteSet(c.cases)
    BY <1>1, SuiteAssumption, FS_Subset
  <2>2. IsFiniteSet(1 .. c.trials)
    BY <1>1, FS_Interval
  <2> QED BY <2>1, <2>2
<1>3. Todo(c) \subseteq c.cases \X (1 .. c.trials)
  BY <1>1, SlotsAre DEF Todo
<1>4. IsFiniteSet(c.cases \X (1 .. c.trials))
  BY <1>2, FS_Product
<1>5. IsFiniteSet(Todo(c))
  BY <1>3, <1>4, FS_Subset
<1> QED BY <1>1, <1>2, <1>3, <1>5 DEF Todo

\* What comes after a trial: the first of those after it, or the end of the run.
NextTrial(c, u, ph, w) ==
  LET later == {v \in Todo(c) : Before(u, v)}
  IN IF later = {} THEN ph = "idle" ELSE ph = "running" /\ w = Earliest(later)

\* A trial that is scored joins the trials the run is done with, and the next is not one of them.
LEMMA VisitedGrows ==
  ASSUME NEW c \in Configs, NEW u \in Todo(c), NEW ph, NEW w, NextTrial(c, u, ph, w)
  PROVE  /\ VisitedOf(ph, c, w) = VisitedOf("running", c, u) \cup {u}
         /\ u \notin VisitedOf("running", c, u)
         /\ ph = "running" => w \in Todo(c)
<1> DEFINE later == {v \in Todo(c) : Before(u, v)}
<1>1. Todo(c) \subseteq Slots
  BY TodoAre
<1>2. u \notin VisitedOf("running", c, u)
  BY <1>1, BeforeIsOrder DEF VisitedOf
<1>3. \A v \in Todo(c) : v \in later \/ v = u \/ Before(v, u)
  BY <1>1, BeforeIsOrder
<1>4. CASE later = {}
  <2>1. ph = "idle"
    BY <1>4 DEF NextTrial
  <2> QED BY <1>2, <1>3, <1>4, <2>1 DEF VisitedOf
<1>5. CASE later # {}
  <2>1. ph = "running" /\ w = Earliest(later)
    BY <1>5 DEF NextTrial
  <2>2. w \in later /\ \A v \in later : ~Before(v, w)
    BY <1>1, <1>5, <2>1, EarliestIs
  <2>3. Before(u, w) /\ w \in Slots /\ w \in Todo(c)
    BY <2>2, <1>1
  <2>4. \A v \in Todo(c) : Before(v, w) => v = u \/ Before(v, u)
    BY <1>3, <2>2
  <2>5. \A v \in Todo(c) : v = u \/ Before(v, u) => Before(v, w)
    BY <2>3, <1>1, BeforeIsOrder
  <2> QED BY <1>2, <2>1, <2>3, <2>4, <2>5 DEF VisitedOf
<1> QED BY <1>4, <1>5

\* The trials a run is done with, as a set: finite, all of them its own.
LEMMA VisitedAre ==
  ASSUME NEW c \in Configs, NEW ph, NEW u
  PROVE  /\ VisitedOf(ph, c, u) \subseteq Todo(c) /\ VisitedOf(ph, c, u) \subseteq Slots
         /\ IsFiniteSet(VisitedOf(ph, c, u)) /\ Cardinality(VisitedOf(ph, c, u)) \in Nat
<1>1. VisitedOf(ph, c, u) \subseteq Todo(c)
  BY DEF VisitedOf
<1>2. IsFiniteSet(VisitedOf(ph, c, u))
  BY <1>1, TodoAre, FS_Subset
<1> QED BY <1>1, <1>2, TodoAre, FS_CardinalityType

LEMMA VisitedCount ==
  ASSUME NEW c \in Configs, NEW u \in Todo(c), NEW ph, NEW w, NextTrial(c, u, ph, w)
  PROVE  Cardinality(VisitedOf(ph, c, w)) = Cardinality(VisitedOf("running", c, u)) + 1
<1>1. /\ VisitedOf(ph, c, w) = VisitedOf("running", c, u) \cup {u}
      /\ u \notin VisitedOf("running", c, u)
  BY VisitedGrows
<1>2. IsFiniteSet(VisitedOf("running", c, u))
  BY VisitedAre
<1> HIDE DEF VisitedOf
<1> QED BY <1>1, <1>2, FS_AddElement

-----------------------------------------------------------------------------
(* Keys.                                                                   *)

LEMMA SlotKeyIs ==
  ASSUME NEW c \in Configs, NEW u \in Slots
  PROVE  /\ SlotKey(c, u) \in CacheKeys
         /\ c = config => cacheKey(u[1], u[2]) = SlotKey(c, u)
BY SlotsAre, SuiteAssumption DEF SlotKey, CacheKeys, cacheKey, ConfigurationId, Configs

\* Under stochastic decoding a trial has a key of its own.
LEMMA KeysApart ==
  ASSUME NEW c, c.stochastic, NEW u \in Slots, NEW v \in Slots, u # v
  PROVE  SlotKey(c, u) # SlotKey(c, v)
<1>1. u[1] # v[1] \/ u[2] # v[2]
  BY SlotsAre
<1> QED BY <1>1 DEF SlotKey

LEMMA KeysGrow ==
  ASSUME NEW c, NEW slots, IsFiniteSet(slots), NEW u
  PROVE  /\ IsFiniteSet(KeysFor(c, slots)) /\ Cardinality(KeysFor(c, slots)) \in Nat
         /\ Cardinality(KeysFor(c, slots \cup {u})) =
              IF SlotKey(c, u) \in KeysFor(c, slots) THEN Cardinality(KeysFor(c, slots))
              ELSE Cardinality(KeysFor(c, slots)) + 1
<1> DEFINE f == [v \in slots |-> SlotKey(c, v)]
<1>1. f \in Surjection(slots, KeysFor(c, slots))
  BY DEF Surjection, KeysFor
<1>2. IsFiniteSet(KeysFor(c, slots))
  <2> HIDE DEF f
  <2> QED BY <1>1, FS_Surjection
<1>3. KeysFor(c, slots \cup {u}) = KeysFor(c, slots) \cup {SlotKey(c, u)}
  BY DEF KeysFor
<1> QED BY <1>2, <1>3, FS_AddElement, FS_CardinalityType

\* The keys of a run are at most the calls of its plan.
LEMMA KeysWithinPlan ==
  ASSUME NEW c \in Configs
  PROVE  /\ IsFiniteSet(KeysFor(c, Todo(c)))
         /\ plannedCalls(c) \in Nat
         /\ Cardinality(KeysFor(c, Todo(c))) <= plannedCalls(c)
<1> DEFINE second == IF c.stochastic THEN 1 .. c.trials ELSE {0}
           pairs == c.cases \X second
           images == {<<<<c.stochastic, c.cap>>, p[1], p[2]>> : p \in pairs}
           f == [p \in pairs |-> <<<<c.stochastic, c.cap>>, p[1], p[2]>>]
<1>1. c.trials \in Nat \ {0} /\ c.stochastic \in BOOLEAN
  BY SuiteAssumption DEF Configs
<1>2. /\ IsFiniteSet(second) /\ Cardinality(second) = IF c.stochastic THEN c.trials ELSE 1
  <2>1. CASE c.stochastic
    BY <1>1, <2>1, FS_Interval
  <2>2. CASE ~c.stochastic
    BY <2>2, FS_Singleton
  <2> QED BY <2>1, <2>2
<1>3. IsFiniteSet(c.cases) /\ Cardinality(c.cases) \in Nat
  BY TodoAre, FS_CardinalityType
<1>4. IsFiniteSet(pairs) /\ Cardinality(pairs) = plannedCalls(c)
  <2> HIDE DEF second
  <2> QED BY <1>2, <1>3, FS_Product DEF plannedCalls
<1>5. KeysFor(c, Todo(c)) \subseteq images
  <2> SUFFICES ASSUME NEW v \in Todo(c) PROVE SlotKey(c, v) \in images
    BY DEF KeysFor
  <2> DEFINE p == <<v[1], IF c.stochastic THEN v[2] ELSE 0>>
  <2>1. p \in pairs
    BY TodoAre
  <2>2. SlotKey(c, v) = <<<<c.stochastic, c.cap>>, p[1], p[2]>>
    BY DEF SlotKey
  <2> QED BY <2>1, <2>2
<1>6. f \in Surjection(pairs, images)
  BY DEF Surjection
<1>7. IsFiniteSet(images) /\ Cardinality(images) <= Cardinality(pairs)
  <2> HIDE DEF f, pairs, images
  <2> QED BY <1>4, <1>6, FS_Surjection
<1>8. /\ IsFiniteSet(KeysFor(c, Todo(c)))
      /\ Cardinality(KeysFor(c, Todo(c))) <= Cardinality(images)
  <2> HIDE DEF images
  <2> QED BY <1>5, <1>7, FS_Subset
<1>9. /\ plannedCalls(c) \in Nat /\ Cardinality(images) \in Nat
      /\ Cardinality(KeysFor(c, Todo(c))) \in Nat
  <2> HIDE DEF f, pairs, images
  <2> QED BY <1>4, <1>7, <1>8, FS_CardinalityType
<1> QED BY <1>4, <1>7, <1>8, <1>9

-----------------------------------------------------------------------------
(* Suite: its steps.                                                       *)

\* Products of naturals.
LEMMA TimesGrows ==
  ASSUME NEW a \in Nat, NEW b \in Nat, NEW k \in Nat
  PROVE  (a + 1) * k = a * k + k /\ (a <= b => a * k <= b * k) /\ a * k \in Nat
<1>1. a <= b => (b - a) * k >= 0
  OBVIOUS
<1>2. (b - a) * k = b * k - a * k
  OBVIOUS
<1> QED BY <1>1, <1>2

\* A run that was not begun, or has just begun, has done none of its trials.
LEMMA NothingVisited ==
  ASSUME NEW c \in Configs, NEW ph, NEW u,
         \/ ph = "idle" /\ Todo(c) = {}
         \/ ph = "running" /\ Todo(c) # {} /\ u = Earliest(Todo(c))
  PROVE  /\ VisitedOf(ph, c, u) = {} /\ Cardinality(VisitedOf(ph, c, u)) = 0
         /\ KeysFor(c, VisitedOf(ph, c, u)) = {}
         /\ Cardinality(KeysFor(c, VisitedOf(ph, c, u))) = 0
         /\ ph = "running" => u \in Todo(c)
<1>1. VisitedOf(ph, c, u) = {}
  BY TodoAre, EarliestIs DEF VisitedOf
<1>2. KeysFor(c, {}) = {}
  BY DEF KeysFor
<1>3. ph = "running" => u \in Todo(c)
  BY TodoAre, EarliestIs
<1> QED BY <1>1, <1>2, <1>3, FS_EmptySet

LEMMA NothingIsTaken ==
  /\ NothingTaken \in [Slots -> Nat] /\ \A s \in Slots : NothingTaken[s] = NoAnswer
  /\ {s \in Slots : NothingTaken[s] # NoAnswer} = {}
  /\ Cardinality({s \in Slots : NothingTaken[s] # NoAnswer}) = 0
<1>1. {s \in Slots : NothingTaken[s] # NoAnswer} = {}
  BY DEF NothingTaken
<1> QED BY <1>1, FS_EmptySet DEF NothingTaken, NoAnswer

\* A run begins: of a suite or of an arm, over the cache that is there.
LEMMA StartKeeps ==
  ASSUME SuiteInv, NEW c \in Configs, Start(c), UNCHANGED <<cache, answers>>
  PROVE  SuiteInv'
<1> DEFINE V == VisitedOf(phase', config', at')
<1>1. /\ config' = c /\ attempt' = 1 /\ calls' = 0 /\ cost' = NoCost /\ lost' = NoLoss
      /\ taken' = NothingTaken /\ cache' = cache /\ answers' = answers /\ Admitted(c)
  BY DEF Start
<1>2. /\ V = {} /\ Cardinality(V) = 0 /\ Cardinality(KeysFor(c, V)) = 0
      /\ phase' = "running" => at' \in Todo(c)
  <2>1. CASE Todo(c) = {}
    <3>1. phase' = "idle"
      BY <2>1 DEF Start
    <3> QED BY <3>1, <2>1, <1>1, NothingVisited
  <2>2. CASE Todo(c) # {}
    <3>1. phase' = "running" /\ at' = Earliest(Todo(c))
      BY <2>2 DEF Start
    <3> QED BY <3>1, <2>2, <1>1, NothingVisited
  <2> QED BY <2>1, <2>2
<1>3. SuiteTypeOK'
  BY <1>1, <1>2, NothingIsTaken, SuiteAssumption
     DEF SuiteInv, SuiteTypeOK, NoCost, NoLoss, Start
<1>4. AnswersApart' /\ TrialsAreSamples'
  BY <1>1, NothingIsTaken DEF SuiteInv, SuiteTypeOK, AnswersApart, TrialsAreSamples, NoAnswer
<1>5. TakenVisited' /\ CostIsWhatWasCalled'
  BY <1>1, NothingIsTaken DEF TakenVisited, CostIsWhatWasCalled, NoCost, NoLoss
<1>6. RetriesBound'
  <2>1. Cardinality(V) * Attempts = 0
    BY <1>2, SuiteAssumption
  <2> QED BY <2>1, <1>1 DEF RetriesBound, Visited
<1>7. KeysBound'
  BY <1>1, <1>2 DEF KeysBound, Visited
<1>8. Admitted(config)'
  BY <1>1 DEF Admitted, plannedCalls
<1> QED BY <1>3, <1>4, <1>5, <1>6, <1>7, <1>8 DEF SuiteInv

\* No run yet: at the start, and in a new process.
Blank ==
  /\ phase = "idle" /\ config = NoRun /\ attempt = 1 /\ cache = NothingCached
  /\ calls = 0 /\ cost = NoCost /\ lost = NoLoss /\ taken = NothingTaken /\ answers = 0

LEMMA BlankHolds == Blank => SuiteInv
<1> SUFFICES ASSUME Blank PROVE SuiteInv
  OBVIOUS
<1>1. NoRun \in Configs /\ Todo(NoRun) = {} /\ NoRun.cap = NoCap
  BY SuiteAssumption DEF NoRun, Configs, Todo
<1>2. Visited = {} /\ Cardinality(Visited) = 0 /\ Cardinality(KeysFor(config, Visited)) = 0
  BY <1>1, NothingVisited DEF Visited, Blank
<1>3. SuiteTypeOK
  BY <1>1, NothingIsTaken, SuiteAssumption
     DEF Blank, SuiteTypeOK, NoCost, NoLoss, NothingCached, NoAnswer
<1>4. AnswersApart /\ TrialsAreSamples
  BY NothingIsTaken DEF Blank, AnswersApart, TrialsAreSamples, NoAnswer, NothingCached
<1>5. TakenVisited /\ CostIsWhatWasCalled
  BY NothingIsTaken DEF Blank, TakenVisited, CostIsWhatWasCalled, NoCost, NoLoss
<1>6. RetriesBound
  <2>1. Cardinality(Visited) * Attempts = 0
    BY <1>2, SuiteAssumption
  <2> QED BY <2>1 DEF RetriesBound, Blank
<1>7. KeysBound
  BY <1>2 DEF KeysBound, Blank
<1>8. Admitted(config)
  BY <1>1 DEF Admitted, Blank
<1> QED BY <1>3, <1>4, <1>5, <1>6, <1>7, <1>8 DEF SuiteInv

LEMMA GoneHolds == ProcessGone => SuiteInv'
<1>1. ProcessGone => Blank'
  BY DEF ProcessGone, Blank
<1> QED BY <1>1, BlankHolds, PTL

\* A trial is scored: it was not before, and what the run is done with grows by it.
LEMMA ScoredMoves ==
  ASSUME SuiteInv, phase = "running", config' = config, NEW given \in Nat, Scored(given)
  PROVE  /\ at \in Todo(config) /\ at \in Slots /\ taken[at] = NoAnswer
         /\ phase' \in {"idle", "running"} /\ (phase' = "running" => at' \in Todo(config'))
         /\ attempt' = 1
         /\ taken' \in [Slots -> Nat] /\ taken' = [taken EXCEPT ![at] = given]
         /\ Visited' = Visited \cup {at} /\ at \notin Visited
         /\ Cardinality(Visited') = Cardinality(Visited) + 1
         /\ TakenVisited'
<1>1. /\ config \in Configs /\ at \in Todo(config) /\ taken \in [Slots -> Nat] /\ TakenVisited
  BY DEF SuiteInv, SuiteTypeOK
<1>2. Todo(config) \subseteq Slots
  BY <1>1, TodoAre
<1>3. /\ taken' = [taken EXCEPT ![at] = given] /\ attempt' = 1
      /\ NextTrial(config, at, phase', at')
  BY DEF Scored, Later, NextTrial
<1>4. phase' \in {"idle", "running"}
  BY <1>3 DEF NextTrial
<1>5. /\ VisitedOf(phase', config, at') = VisitedOf("running", config, at) \cup {at}
      /\ at \notin VisitedOf("running", config, at)
      /\ phase' = "running" => at' \in Todo(config)
  BY <1>1, <1>3, VisitedGrows
<1>6. Cardinality(VisitedOf(phase', config, at')) =
        Cardinality(VisitedOf("running", config, at)) + 1
  BY <1>1, <1>3, VisitedCount
<1>7. Visited' = VisitedOf(phase', config, at') /\ Visited = VisitedOf("running", config, at)
  BY DEF Visited
<1>8. taken[at] = NoAnswer
  BY <1>1, <1>2, <1>5, <1>7 DEF TakenVisited
<1>9. TakenVisited'
  <2> SUFFICES ASSUME NEW s \in Slots, taken'[s] # NoAnswer PROVE s \in Visited'
    BY DEF TakenVisited
  <2> QED BY <1>1, <1>2, <1>3, <1>5, <1>7 DEF TakenVisited
<1>10. taken' \in [Slots -> Nat]
  BY <1>1, <1>3
<1> QED BY <1>1, <1>2, <1>3, <1>4, <1>5, <1>6, <1>7, <1>8, <1>9, <1>10

\* The retries of a scored trial are within its attempts.
LEMMA ScoredRetries ==
  ASSUME SuiteInv, phase = "running", config' = config, NEW given \in Nat, Scored(given),
         calls' \in Nat, calls' <= calls + 1
  PROVE  RetriesBound'
<1>1. config \in Configs /\ attempt \in 1 .. Attempts /\ calls \in Nat /\ RetriesBound
  BY DEF SuiteInv, SuiteTypeOK
<1>2. Cardinality(Visited') = Cardinality(Visited) + 1 /\ attempt' = 1
  BY ScoredMoves
<1>3. Cardinality(Visited) \in Nat
  BY <1>1, VisitedAre DEF Visited
<1>4. /\ (Cardinality(Visited) + 1) * Attempts = Cardinality(Visited) * Attempts + Attempts
      /\ Cardinality(Visited) * Attempts \in Nat
  BY <1>3, TimesGrows, SuiteAssumption
<1>5. calls <= Cardinality(Visited) * Attempts + attempt - 1
  BY <1>1, <1>4, SuiteAssumption DEF RetriesBound
<1>6. calls' <= Cardinality(Visited') * Attempts
  BY <1>1, <1>2, <1>4, <1>5, SuiteAssumption
<1> QED BY <1>2, <1>6, <1>3, <1>4, SuiteAssumption DEF RetriesBound

\* The trials that were answered, when one is scored.
LEMMA ScoredTaken ==
  ASSUME SuiteInv, phase = "running", config' = config, NEW given \in Nat, Scored(given)
  PROVE  LET before == {s \in Slots : taken[s] # NoAnswer}
             after == {s \in Slots : taken'[s] # NoAnswer}
         IN /\ Cardinality(before) \in Nat /\ Cardinality(after) \in Nat
            /\ Cardinality(after) >= Cardinality(before)
            /\ given # NoAnswer => Cardinality(after) = Cardinality(before) + 1
<1> DEFINE before == {s \in Slots : taken[s] # NoAnswer}
           after == {s \in Slots : taken'[s] # NoAnswer}
<1>1. /\ at \in Slots /\ taken[at] = NoAnswer /\ taken \in [Slots -> Nat]
      /\ taken' = [taken EXCEPT ![at] = given]
  BY ScoredMoves DEF SuiteInv, SuiteTypeOK
<1>2. before \subseteq Visited /\ IsFiniteSet(Visited)
  BY VisitedAre DEF SuiteInv, SuiteTypeOK, TakenVisited, Visited
<1>3. IsFiniteSet(before)
  <2> HIDE DEF before
  <2> QED BY <1>2, FS_Subset
<1>4. at \notin before /\ after = IF given = NoAnswer THEN before ELSE before \cup {at}
  BY <1>1
<1> HIDE DEF before, after
<1>5. Cardinality(before) \in Nat
  BY <1>3, FS_CardinalityType
<1>6. Cardinality(before \cup {at}) = Cardinality(before) + 1
  BY <1>3, <1>4, FS_AddElement
<1>7. /\ Cardinality(before) \in Nat /\ Cardinality(after) \in Nat
      /\ Cardinality(after) >= Cardinality(before)
      /\ given # NoAnswer => Cardinality(after) = Cardinality(before) + 1
  BY <1>4, <1>5, <1>6
<1> QED BY <1>7 DEF before, after

\* A trial scored without an answer of its own.
LEMMA ScoredWithout ==
  ASSUME SuiteInv, phase = "running", Scored(NoAnswer), UNCHANGED <<config, cache, answers>>,
         calls' = calls + 1, lost' \in [thrown : Nat, failed : Nat], lost' # NoLoss,
         cost' \in [provider_calls : Nat, cache_hits : Nat],
         cost'.cache_hits = cost.cache_hits,
         cost'.provider_calls + lost'.thrown = calls'
  PROVE  SuiteInv'
<1>1. SuiteTypeOK
  BY DEF SuiteInv
<1>2. /\ at \in Slots /\ phase' \in {"idle", "running"}
      /\ phase' = "running" => at' \in Todo(config')
      /\ attempt' = 1 /\ taken' \in [Slots -> Nat] /\ taken' = [taken EXCEPT ![at] = NoAnswer]
      /\ TakenVisited'
  BY ScoredMoves DEF NoAnswer
<1>3. SuiteTypeOK'
  BY <1>1, <1>2, SuiteAssumption DEF SuiteTypeOK
<1>4. AnswersApart'
  <2>1. \A s \in Slots : taken'[s] = NoAnswer \/ taken'[s] = taken[s]
    BY <1>1, <1>2 DEF SuiteTypeOK
  <2>2. answers \in Nat
    BY <1>1 DEF SuiteTypeOK
  <2> QED BY <2>1, <2>2 DEF SuiteInv, AnswersApart, NoAnswer
<1>5. TrialsAreSamples'
  BY <1>1, <1>2 DEF SuiteInv, SuiteTypeOK, TrialsAreSamples
<1>6. CostIsWhatWasCalled'
  <2> DEFINE before == {s \in Slots : taken[s] # NoAnswer}
             after == {s \in Slots : taken'[s] # NoAnswer}
  <2>1. /\ Cardinality(before) \in Nat /\ Cardinality(after) \in Nat
        /\ Cardinality(after) >= Cardinality(before)
    BY ScoredTaken DEF NoAnswer
  <2>2. cost.cache_hits <= Cardinality(before) /\ cost.cache_hits \in Nat
    BY <1>1 DEF SuiteInv, CostIsWhatWasCalled, SuiteTypeOK
  <2>3. cost'.cache_hits <= Cardinality(after)
    <3> HIDE DEF before, after
    <3> QED BY <2>1, <2>2
  <2> QED BY <2>3 DEF CostIsWhatWasCalled
<1>7. RetriesBound'
  BY <1>1, ScoredRetries DEF SuiteTypeOK, NoAnswer
<1>8. KeysBound'
  BY DEF KeysBound, NoLoss
<1>9. Admitted(config)'
  BY DEF SuiteInv, Admitted, plannedCalls
<1> QED BY <1>2, <1>3, <1>4, <1>5, <1>6, <1>7, <1>8, <1>9 DEF SuiteInv

LEMMA ThrewKeeps ==
  ASSUME SuiteInv, Threw
  PROVE  SuiteInv'
<1>1. /\ cost \in [provider_calls : Nat, cache_hits : Nat] /\ calls \in Nat
      /\ lost \in [thrown : Nat, failed : Nat] /\ cost.provider_calls + lost.thrown = calls
  BY DEF SuiteInv, SuiteTypeOK, CostIsWhatWasCalled
<1>2. /\ lost' \in [thrown : Nat, failed : Nat] /\ lost'.thrown = lost.thrown + 1
      /\ lost' # NoLoss
  BY <1>1 DEF Threw, NoLoss
<1>3. calls' = calls + 1 /\ cost' = cost
  BY DEF Threw, Called
<1> QED BY <1>1, <1>2, <1>3, ScoredWithout DEF Threw, Called

LEMMA FailedKeeps ==
  ASSUME SuiteInv, Failed
  PROVE  SuiteInv'
<1>1. /\ cost \in [provider_calls : Nat, cache_hits : Nat] /\ calls \in Nat
      /\ lost \in [thrown : Nat, failed : Nat] /\ cost.provider_calls + lost.thrown = calls
      /\ attempt \in 1 .. Attempts /\ SuiteTypeOK
  BY DEF SuiteInv, SuiteTypeOK, CostIsWhatWasCalled
<1>2. /\ lost' \in [thrown : Nat, failed : Nat] /\ lost'.thrown = lost.thrown
      /\ lost' # NoLoss
  BY <1>1 DEF Failed, NoLoss
<1>3. /\ cost' \in [provider_calls : Nat, cache_hits : Nat]
      /\ cost'.provider_calls = cost.provider_calls + 1 /\ cost'.cache_hits = cost.cache_hits
  BY <1>1 DEF Failed, Recorded
<1>4. /\ calls' = calls + 1 /\ phase = "running" /\ UNCHANGED <<config, cache, answers>>
      /\ cost'.provider_calls + lost'.thrown = calls'
  BY <1>1, <1>2, <1>3 DEF Failed, Called
<1>5. CASE Scored(NoAnswer)
  BY <1>2, <1>3, <1>4, <1>5, ScoredWithout
<1>6. CASE MayRetry(attempt) /\ attempt' = attempt + 1 /\ UNCHANGED <<phase, at, taken>>
  <2>1. attempt' \in 1 .. Attempts
    BY <1>1, <1>6, SuiteAssumption DEF MayRetry
  <2>2. SuiteTypeOK'
    BY <1>1, <1>2, <1>3, <1>4, <1>6, <2>1 DEF SuiteTypeOK
  <2>3. AnswersApart' /\ TrialsAreSamples'
    BY <1>4, <1>6 DEF SuiteInv, AnswersApart, TrialsAreSamples
  <2>4. Visited' = Visited
    BY <1>4, <1>6 DEF Visited
  <2>5. TakenVisited'
    BY <1>6, <2>4 DEF SuiteInv, TakenVisited
  <2>6. CostIsWhatWasCalled'
    BY <1>3, <1>4, <1>6 DEF SuiteInv, CostIsWhatWasCalled
  <2>7. RetriesBound'
    <3>1. Cardinality(Visited) * Attempts \in Nat
      BY VisitedAre, TimesGrows, SuiteAssumption DEF SuiteInv, SuiteTypeOK, Visited
    <3>2. calls <= Cardinality(Visited) * Attempts + (attempt - 1)
      BY <1>4 DEF SuiteInv, RetriesBound
    <3>3. calls' <= Cardinality(Visited) * Attempts + (attempt' - 1)
      BY <3>1, <3>2, <1>1, <1>4, <1>6
    <3> QED BY <3>3, <1>4, <1>6, <2>4 DEF RetriesBound
  <2>8. KeysBound'
    BY <1>2 DEF KeysBound
  <2>9. Admitted(config)'
    BY <1>4 DEF SuiteInv, Admitted, plannedCalls
  <2> QED BY <2>2, <2>3, <2>5, <2>6, <2>7, <2>8, <2>9 DEF SuiteInv
<1> QED BY <1>5, <1>6 DEF Failed

LEMMA FromCacheKeeps ==
  ASSUME SuiteInv, FromCache
  PROVE  SuiteInv'
<1> DEFINE given == cache[SlotKey(config, at)]
<1>1. SuiteTypeOK /\ phase = "running" /\ config \in Configs /\ config' = config
  BY DEF SuiteInv, SuiteTypeOK, FromCache
<1>2. at \in Slots /\ Key = SlotKey(config, at) /\ SlotKey(config, at) \in CacheKeys
  BY <1>1, TodoAre, SlotKeyIs DEF SuiteTypeOK, Key
<1>3. /\ given \in Nat /\ given # NoAnswer /\ config.cached /\ Scored(given)
      /\ UNCHANGED <<cache, calls, lost, answers>>
  BY <1>1, <1>2 DEF FromCache, IsHit, SuiteTypeOK
<1> HIDE DEF given
<1>4. /\ cost' \in [provider_calls : Nat, cache_hits : Nat]
      /\ cost'.provider_calls = cost.provider_calls /\ cost'.cache_hits = cost.cache_hits + 1
  BY <1>1 DEF FromCache, Hit, SuiteTypeOK
<1>5. /\ phase' \in {"idle", "running"}
      /\ phase' = "running" => at' \in Todo(config')
      /\ attempt' = 1 /\ taken' \in [Slots -> Nat] /\ taken' = [taken EXCEPT ![at] = given]
      /\ Visited' = Visited \cup {at} /\ at \notin Visited
      /\ TakenVisited'
  BY <1>1, <1>3, ScoredMoves
<1>6. SuiteTypeOK'
  BY <1>1, <1>3, <1>4, <1>5, SuiteAssumption DEF SuiteTypeOK
<1>7. AnswersApart'
  <2>1. given <= answers
    BY <1>2 DEF SuiteInv, AnswersApart, given
  <2>2. \A s \in Slots : s # at => taken'[s] = taken[s]
    BY <1>1, <1>5 DEF SuiteTypeOK
  <2>3. taken'[at] = given
    BY <1>1, <1>2, <1>5 DEF SuiteTypeOK
  <2> QED BY <1>1, <1>3, <2>1, <2>2, <2>3 DEF SuiteInv, AnswersApart, given
<1>8. TrialsAreSamples'
  <2> SUFFICES ASSUME config.stochastic, NEW s \in Slots, NEW u \in Slots, s # u,
                      taken'[s] # NoAnswer
               PROVE  taken'[s] # taken'[u]
    BY <1>1 DEF TrialsAreSamples
  <2>1. \A v \in Slots : v # at => taken'[v] = taken[v]
    BY <1>1, <1>5 DEF SuiteTypeOK
  <2>2. taken'[at] = given
    BY <1>1, <1>2, <1>5 DEF SuiteTypeOK
  <2>3. \A v \in Slots : v # at => taken[v] # given
    <3> SUFFICES ASSUME NEW v \in Slots, v # at, taken[v] # NoAnswer PROVE taken[v] # given
      BY <1>3
    <3>1. taken[v] = cache[SlotKey(config, v)]
      BY <1>3 DEF SuiteInv, AnswersApart
    <3>2. SlotKey(config, v) # SlotKey(config, at) /\ SlotKey(config, v) \in CacheKeys
      BY <1>1, <1>2, KeysApart, SlotKeyIs
    <3> QED BY <3>1, <3>2, <1>2 DEF SuiteInv, AnswersApart, given
  <2>4. CASE s # at /\ u # at
    BY <2>1, <2>4 DEF SuiteInv, TrialsAreSamples
  <2> QED BY <2>1, <2>2, <2>3, <2>4
<1>9. CostIsWhatWasCalled'
  <2> DEFINE before == {s \in Slots : taken[s] # NoAnswer}
             after == {s \in Slots : taken'[s] # NoAnswer}
  <2>1. /\ Cardinality(before) \in Nat /\ Cardinality(after) = Cardinality(before) + 1
    BY <1>1, <1>3, ScoredTaken
  <2>2. cost.cache_hits <= Cardinality(before) /\ cost.cache_hits \in Nat
        /\ cost.provider_calls + lost.thrown = calls
    BY <1>1 DEF SuiteInv, CostIsWhatWasCalled, SuiteTypeOK
  <2>3. cost'.cache_hits <= Cardinality(after)
    <3> HIDE DEF before, after
    <3> QED BY <2>1, <2>2, <1>4
  <2> QED BY <2>2, <2>3, <1>3, <1>4 DEF CostIsWhatWasCalled
<1>10. RetriesBound'
  BY <1>1, <1>3, ScoredRetries DEF SuiteTypeOK
<1>11. KeysBound'
  <2> SUFFICES ASSUME lost = NoLoss, OneCallAKey(config)
               PROVE  /\ calls <= Cardinality(KeysFor(config, Visited'))
                      /\ \A v \in Visited' : cache[SlotKey(config, v)] # NoAnswer
    BY <1>1, <1>3 DEF KeysBound
  <2>1. IsFiniteSet(Visited)
    BY <1>1, VisitedAre DEF Visited
  <2>2. /\ calls <= Cardinality(KeysFor(config, Visited))
        /\ \A v \in Visited : cache[SlotKey(config, v)] # NoAnswer
    BY <1>3 DEF SuiteInv, KeysBound
  <2>3. /\ Cardinality(KeysFor(config, Visited')) >= Cardinality(KeysFor(config, Visited))
        /\ Cardinality(KeysFor(config, Visited)) \in Nat
        /\ Cardinality(KeysFor(config, Visited')) \in Nat
    <3>1. /\ Cardinality(KeysFor(config, Visited)) \in Nat
          /\ Cardinality(KeysFor(config, Visited \cup {at})) =
               IF SlotKey(config, at) \in KeysFor(config, Visited)
               THEN Cardinality(KeysFor(config, Visited))
               ELSE Cardinality(KeysFor(config, Visited)) + 1
      BY <2>1, KeysGrow
    <3>2. Cardinality(KeysFor(config, Visited')) = Cardinality(KeysFor(config, Visited \cup {at}))
      BY <1>5
    <3> QED BY <3>1, <3>2
  <2> QED BY <2>2, <2>3, <1>1, <1>3, <1>5 DEF SuiteTypeOK, given
<1>12. Admitted(config)'
  BY <1>1 DEF SuiteInv, Admitted, plannedCalls
<1> QED BY <1>5, <1>6, <1>7, <1>8, <1>9, <1>10, <1>11, <1>12 DEF SuiteInv

\* A request that is no hit has a key that was not called yet, where no request failed.
LEMMA NewKey ==
  ASSUME SuiteInv, phase = "running", ~IsHit, lost = NoLoss, OneCallAKey(config)
  PROVE  SlotKey(config, at) \notin KeysFor(config, Visited)
<1>1. config \in Configs /\ at \in Todo(config)
  BY DEF SuiteInv, SuiteTypeOK
<1>2. /\ at \in Slots /\ Visited \subseteq Todo(config) /\ Visited \subseteq Slots /\ at \notin Visited
  BY <1>1, TodoAre, VisitedAre, BeforeIsOrder DEF Visited, VisitedOf
<1> SUFFICES ASSUME NEW v \in Visited, SlotKey(config, v) = SlotKey(config, at) PROVE FALSE
  BY DEF KeysFor
<1>3. CASE config.stochastic
  BY <1>2, <1>3, KeysApart
<1>4. CASE config.cached
  BY <1>1, <1>2, <1>4, SlotKeyIs DEF IsHit, Key, SuiteInv, KeysBound
<1>5. CASE config.trials = 1 /\ ~config.stochastic
  <2>1. v[1] = at[1]
    BY DEF SlotKey
  <2>2. v[2] = 1 /\ at[2] = 1
    BY <1>1, <1>2, <1>5, SlotsAre DEF Todo
  <2> QED BY <2>1, <2>2, <1>2, SlotsAre
<1> QED BY <1>3, <1>4, <1>5 DEF OneCallAKey

LEMMA AnsweredKeeps ==
  ASSUME SuiteInv, Answered
  PROVE  SuiteInv'
<1> DEFINE given == answers + 1
           K == SlotKey(config, at)
<1>1. /\ SuiteTypeOK /\ phase = "running" /\ config \in Configs /\ config' = config /\ ~IsHit
      /\ answers \in Nat /\ calls \in Nat
  BY DEF SuiteInv, SuiteTypeOK, Answered, Called
<1>2. at \in Slots /\ Key = K /\ K \in CacheKeys
  BY <1>1, TodoAre, SlotKeyIs DEF SuiteTypeOK, Key
<1>3. /\ given \in Nat /\ given # NoAnswer /\ Scored(given)
      /\ lost' = lost /\ answers' = given /\ calls' = calls + 1
      /\ cache' = IF config.cached THEN [cache EXCEPT ![K] = given] ELSE cache
  BY <1>1, <1>2 DEF Answered, Called, NoAnswer
<1>4. /\ cost' \in [provider_calls : Nat, cache_hits : Nat]
      /\ cost'.provider_calls = cost.provider_calls + 1 /\ cost'.cache_hits = cost.cache_hits
  BY <1>1 DEF Answered, Recorded, SuiteTypeOK
<1> HIDE DEF given, K
<1>5. /\ phase' \in {"idle", "running"}
      /\ phase' = "running" => at' \in Todo(config')
      /\ attempt' = 1 /\ taken' \in [Slots -> Nat] /\ taken' = [taken EXCEPT ![at] = given]
      /\ Visited' = Visited \cup {at} /\ at \notin Visited
      /\ TakenVisited'
  BY <1>1, <1>3, ScoredMoves
<1>6. SuiteTypeOK'
  BY <1>1, <1>2, <1>3, <1>4, <1>5, SuiteAssumption DEF SuiteTypeOK
<1>7. \A s \in Slots : s # at => taken'[s] = taken[s]
  BY <1>1, <1>5 DEF SuiteTypeOK
<1>8. taken'[at] = given
  BY <1>1, <1>2, <1>5 DEF SuiteTypeOK
<1>9. \A k \in CacheKeys : \/ cache'[k] = cache[k] /\ (config.cached => k # K)
                           \/ k = K /\ config.cached /\ cache'[k] = given
  BY <1>1, <1>2, <1>3 DEF SuiteTypeOK
<1>10. /\ \A k \in CacheKeys : cache[k] < given /\ cache[k] \in Nat
       /\ \A s \in Slots : taken[s] < given /\ taken[s] \in Nat
  BY <1>1 DEF SuiteInv, AnswersApart, SuiteTypeOK, given
<1>11. AnswersApart'
  <2>1. \A k \in CacheKeys : cache'[k] <= given
    BY <1>3, <1>9, <1>10
  <2>2. \A k, l \in CacheKeys : k # l /\ cache'[k] # NoAnswer => cache'[k] # cache'[l]
    BY <1>9, <1>10 DEF SuiteInv, AnswersApart
  <2>3. \A s \in Slots : taken'[s] <= given
    BY <1>3, <1>7, <1>8, <1>10
  <2>4. ASSUME config.stochastic, config.cached, NEW s \in Slots, taken'[s] # NoAnswer
        PROVE  taken'[s] = cache'[SlotKey(config, s)]
    <3>1. CASE s = at
      BY <2>4, <3>1, <1>2, <1>8, <1>9 DEF K
    <3>2. CASE s # at
      <4>1. SlotKey(config, s) # K /\ SlotKey(config, s) \in CacheKeys
        BY <2>4, <3>2, <1>1, <1>2, KeysApart, SlotKeyIs DEF K
      <4> QED BY <2>4, <3>2, <4>1, <1>7, <1>9 DEF SuiteInv, AnswersApart
    <3> QED BY <3>1, <3>2
  <2> QED BY <2>1, <2>2, <2>3, <2>4, <1>1, <1>3 DEF AnswersApart
<1>12. TrialsAreSamples'
  <2> SUFFICES ASSUME config.stochastic, NEW s \in Slots, NEW u \in Slots, s # u,
                      taken'[s] # NoAnswer
               PROVE  taken'[s] # taken'[u]
    BY <1>1 DEF TrialsAreSamples
  <2>1. \A v \in Slots : taken[v] # given
    BY <1>3, <1>10
  <2>2. CASE s # at /\ u # at
    BY <2>2, <1>7 DEF SuiteInv, TrialsAreSamples
  <2> QED BY <2>1, <2>2, <1>7, <1>8
<1>13. CostIsWhatWasCalled'
  <2> DEFINE before == {s \in Slots : taken[s] # NoAnswer}
             after == {s \in Slots : taken'[s] # NoAnswer}
  <2>1. /\ Cardinality(before) \in Nat /\ Cardinality(after) = Cardinality(before) + 1
    BY <1>1, <1>3, ScoredTaken
  <2>2. /\ cost.cache_hits <= Cardinality(before) /\ cost.cache_hits \in Nat
        /\ cost.provider_calls \in Nat /\ lost.thrown \in Nat
        /\ cost.provider_calls + lost.thrown = calls
    BY <1>1 DEF SuiteInv, CostIsWhatWasCalled, SuiteTypeOK
  <2>3. cost'.cache_hits <= Cardinality(after)
    <3> HIDE DEF before, after
    <3> QED BY <2>1, <2>2, <1>4
  <2>4. cost'.provider_calls + lost'.thrown = calls'
    BY <2>2, <1>3, <1>4
  <2> QED BY <2>3, <2>4 DEF CostIsWhatWasCalled
<1>14. RetriesBound'
  BY <1>1, <1>3, ScoredRetries
<1>15. KeysBound'
  <2> SUFFICES ASSUME lost = NoLoss, OneCallAKey(config)
               PROVE  /\ calls + 1 <= Cardinality(KeysFor(config, Visited'))
                      /\ config.cached => \A v \in Visited' : cache'[SlotKey(config, v)] # NoAnswer
    BY <1>1, <1>3 DEF KeysBound
  <2>1. IsFiniteSet(Visited) /\ Visited \subseteq Slots
    BY <1>1, VisitedAre DEF Visited
  <2>2. /\ calls <= Cardinality(KeysFor(config, Visited))
        /\ config.cached => \A v \in Visited : cache[SlotKey(config, v)] # NoAnswer
    BY <1>3 DEF SuiteInv, KeysBound
  <2>3. /\ Cardinality(KeysFor(config, Visited')) = Cardinality(KeysFor(config, Visited)) + 1
        /\ Cardinality(KeysFor(config, Visited)) \in Nat
    BY <2>1, <1>1, <1>5, KeysGrow, NewKey
  <2>4. ASSUME config.cached, NEW v \in Visited' PROVE cache'[SlotKey(config, v)] # NoAnswer
    <3>1. v \in Slots /\ (v \in Visited \/ v = at)
      BY <2>1, <1>2, <1>5
    <3>2. SlotKey(config, v) \in CacheKeys
      BY <3>1, <1>1, SlotKeyIs
    <3> QED BY <2>2, <2>4, <3>1, <3>2, <1>2, <1>3, <1>9 DEF K
  <2> QED BY <2>2, <2>3, <2>4, <1>1
<1>16. Admitted(config)'
  BY <1>1 DEF SuiteInv, Admitted, plannedCalls
<1> QED BY <1>5, <1>6, <1>11, <1>12, <1>13, <1>14, <1>15, <1>16 DEF SuiteInv

LEMMA RequestKeeps ==
  ASSUME SuiteInv, Request
  PROVE  SuiteInv'
BY FromCacheKeeps, AnsweredKeeps, FailedKeeps, ThrewKeeps DEF Request

LEMMA SuiteStuttering ==
  ASSUME SuiteInv, UNCHANGED suiteVars
  PROVE  SuiteInv'
<1>1. /\ phase' = phase /\ config' = config /\ at' = at /\ attempt' = attempt /\ cache' = cache
      /\ calls' = calls /\ cost' = cost /\ lost' = lost /\ taken' = taken /\ answers' = answers
  BY DEF suiteVars
<1>2. Visited' = Visited
  BY <1>1 DEF Visited
<1>3. SuiteTypeOK' /\ AnswersApart' /\ TrialsAreSamples'
  BY <1>1 DEF SuiteInv, SuiteTypeOK, AnswersApart, TrialsAreSamples
<1>4. TakenVisited' /\ CostIsWhatWasCalled' /\ RetriesBound' /\ KeysBound' /\ Admitted(config)'
  BY <1>1, <1>2 DEF SuiteInv, TakenVisited, CostIsWhatWasCalled, RetriesBound, KeysBound,
                    Admitted, plannedCalls
<1> QED BY <1>3, <1>4 DEF SuiteInv

LEMMA CallerKeeps ==
  ASSUME SuiteInv, CallerStarts
  PROVE  SuiteInv'
<1>1. PICK stochastic \in BOOLEAN, cached \in BOOLEAN, cap \in Caps :
        Start([stochastic |-> stochastic, cached |-> cached, cap |-> cap, cases |-> Cases,
               trials |-> Trials])
  BY DEF CallerStarts
<1> DEFINE c == [stochastic |-> stochastic, cached |-> cached, cap |-> cap, cases |-> Cases,
                 trials |-> Trials]
<1>2. c \in Configs
  BY SuiteAssumption DEF Configs
<1>3. Start(c) /\ UNCHANGED <<cache, answers>>
  BY <1>1 DEF CallerStarts
<1> HIDE DEF c
<1> QED BY <1>2, <1>3, StartKeeps

\* Callers of runSuite that keep one cache.
THEOREM SuiteInvariant == SuiteSpec => []SuiteInv
<1>1. SuiteInit => SuiteInv
  BY BlankHolds DEF SuiteInit, Blank
<1>2. SuiteInv /\ [SuiteNext]_suiteVars => SuiteInv'
  BY RequestKeeps, CallerKeeps, SuiteStuttering DEF SuiteNext
<1> QED BY <1>1, <1>2, PTL DEF SuiteSpec

\* The trials a run is done with, and their keys, are no more than those of the plan.
LEMMA WithinPlan == SuiteInv => CallsWithinPlan
<1> SUFFICES ASSUME SuiteInv PROVE CallsWithinPlan
  OBVIOUS
<1>1. /\ config \in Configs /\ calls \in Nat /\ phase \in {"idle", "running"}
      /\ phase = "running" => at \in Todo(config)
      /\ attempt \in 1 .. Attempts /\ Admitted(config) /\ Attempts \in Nat
  BY SuiteAssumption DEF SuiteInv, SuiteTypeOK
<1>2. /\ IsFiniteSet(Todo(config)) /\ Todo(config) \subseteq Slots
      /\ Visited \subseteq Todo(config) /\ IsFiniteSet(Visited)
      /\ Cardinality(Visited) \in Nat
  BY <1>1, TodoAre, VisitedAre DEF Visited
<1>3. Cardinality(Todo(config)) \in Nat
  BY <1>2, FS_CardinalityType
<1>4. calls <= Cardinality(Todo(config)) * Attempts
  <2>1. CASE phase = "idle"
    <3>1. Visited = Todo(config)
      BY <2>1 DEF Visited, VisitedOf
    <3>2. Cardinality(Todo(config)) * Attempts \in Nat
      BY <1>1, <1>3, TimesGrows
    <3> QED BY <3>1, <3>2, <2>1 DEF SuiteInv, RetriesBound
  <2>2. CASE phase = "running"
    <3>1. at \notin Visited /\ Visited \cup {at} \subseteq Todo(config)
      BY <1>1, <1>2, <2>2, BeforeIsOrder DEF Visited, VisitedOf
    <3>2. Cardinality(Visited \cup {at}) = Cardinality(Visited) + 1
      BY <1>2, <3>1, FS_AddElement
    <3>3. Cardinality(Visited) + 1 <= Cardinality(Todo(config))
      BY <1>2, <3>1, <3>2, FS_Subset
    <3>4. /\ (Cardinality(Visited) + 1) * Attempts <= Cardinality(Todo(config)) * Attempts
          /\ Cardinality(Todo(config)) * Attempts \in Nat
      BY <1>1, <1>2, <1>3, <3>3, TimesGrows
    <3>5. /\ (Cardinality(Visited) + 1) * Attempts = Cardinality(Visited) * Attempts + Attempts
          /\ Cardinality(Visited) * Attempts \in Nat
      BY <1>1, <1>2, TimesGrows
    <3>6. calls <= Cardinality(Visited) * Attempts + (attempt - 1)
      BY <2>2 DEF SuiteInv, RetriesBound
    <3> QED BY <1>1, <3>4, <3>5, <3>6
  <2> QED BY <1>1, <2>1, <2>2
<1>5. ASSUME lost = NoLoss, OneCallAKey(config)
      PROVE  calls <= plannedCalls(config) /\ (config.cap = NoCap \/ calls <= config.cap)
  <2>1. calls <= Cardinality(KeysFor(config, Visited))
    BY <1>5 DEF SuiteInv, KeysBound
  <2>2. KeysFor(config, Visited) \subseteq KeysFor(config, Todo(config))
    BY <1>2 DEF KeysFor
  <2>3. /\ IsFiniteSet(KeysFor(config, Todo(config)))
        /\ plannedCalls(config) \in Nat
        /\ Cardinality(KeysFor(config, Todo(config))) <= plannedCalls(config)
    BY <1>1, KeysWithinPlan
  <2>4. /\ IsFiniteSet(KeysFor(config, Visited))
        /\ Cardinality(KeysFor(config, Visited)) <= Cardinality(KeysFor(config, Todo(config)))
    BY <2>2, <2>3, FS_Subset
  <2>5. /\ Cardinality(KeysFor(config, Visited)) \in Nat
        /\ Cardinality(KeysFor(config, Todo(config))) \in Nat
    BY <2>3, <2>4, FS_CardinalityType
  <2>6. calls <= plannedCalls(config)
    BY <1>1, <2>1, <2>3, <2>4, <2>5
  <2>7. config.cap \in Nat
    <3>1. \A cap \in Caps \cup {NoCap} : cap \in Nat
      BY SuiteAssumption DEF NoCap
    <3> QED BY <1>1, <3>1 DEF Configs
  <2> QED BY <1>1, <2>3, <2>6, <2>7 DEF Admitted
<1> QED BY <1>4, <1>5 DEF CallsWithinPlan, OneCallAKey

\* Under stochastic decoding no answer of the cache stands for two trials: eval.ts puts the trial
\* into the key.
THEOREM TrialsAreTheirOwn == SuiteSpec => []TrialsAreSamples
<1>1. SuiteInv => TrialsAreSamples
  BY DEF SuiteInv
<1> QED BY <1>1, SuiteInvariant, PTL

\* A run is charged for the requests that came back, and a hit is no call (cache.ts).
THEOREM ChargedForCalls == SuiteSpec => []CostIsWhatWasCalled
<1>1. SuiteInv => CostIsWhatWasCalled
  BY DEF SuiteInv
<1> QED BY <1>1, SuiteInvariant, PTL

\* The plan budget.ts admits a run on bounds its calls while no request fails; with every retry of
\* invoke.ts, its trials times the attempts do.
THEOREM PlanIsKept == SuiteSpec => []CallsWithinPlan
BY WithinPlan, SuiteInvariant, PTL

-----------------------------------------------------------------------------
(* EvalCommand: the plan a dry run approves, and the run of it.            *)

MaybeInvocation(f) == f = None \/ f \in Invocations

\* What runs was not refused, and what a dry run said is what main() returns.
CommandInv ==
  /\ command # None => command \in Invocations /\ CodeOf(command) = Proceeds
  /\ predicted.of # None => predicted.of \in Invocations /\ predicted.of.dry
                              /\ predicted.exit = CodeOf(predicted.of)
  /\ ended.of # None => ended.of \in Invocations
                          /\ predicted.of \in {None, ended.of, AsDry(ended.of)}
  /\ ended.of.transport = "live" => (ended.exit = 2 <=> CodeOf(ended.of) = 2)

\* A dry run never gets to run.
LEMMA DryNeverProceeds ==
  ASSUME NEW f \in Invocations, CodeOf(f) = Proceeds
  PROVE  ~f.dry /\ Preflight(f)
BY DEF CodeOf, Proceeds

\* --dry-run changes nothing that main() refuses an invocation of a real transport for.
LEMMA DryRefusesTheSame ==
  ASSUME NEW f \in Invocations, f.transport = "live"
  PROVE  CodeOf(AsDry(f)) = 2 <=> CodeOf(f) = 2
<1>1. /\ AsDry(f).transport = f.transport /\ AsDry(f).compare = f.compare
      /\ AsDry(f).cap = f.cap /\ AsDry(f).ready = f.ready /\ AsDry(f).inOrder = f.inOrder
      /\ AsDry(f).probed = f.probed
  BY DEF AsDry, Invocations
<1>2. Preflight(AsDry(f)) <=> Preflight(f)
  BY <1>1 DEF Preflight, RunOf, Runnable, Real
<1>3. Real(f) /\ Real(AsDry(f))
  BY <1>1 DEF Real
<1> QED BY <1>1, <1>2, <1>3 DEF CodeOf, Proceeds

LEMMA RunsAreConfigs ==
  ASSUME NEW f \in Invocations
  PROVE  /\ RunOf(f, RunnableSuite(f), Trials) \in Configs
         /\ RunOf(f, Written, 1) \in Configs
<1>1. RunnableSuite(f) \subseteq Cases /\ Written \subseteq Cases
  BY DEF RunnableSuite, Runnable, Written
<1>2. Trials \in 1 .. Trials /\ 1 \in 1 .. Trials
  BY SuiteAssumption
<1>3. f.cap \in Caps \cup {NoCap} /\ Real(f) \in BOOLEAN
  BY DEF Invocations, Real
<1> QED BY <1>1, <1>2, <1>3 DEF RunOf, Configs

\* An invocation that ends as main() returns, or after it ran.
LEMMA ExitKeeps ==
  ASSUME CommandInv, NEW f \in Invocations, NEW code, Exits(f, code),
         \/ code = CodeOf(f)
         \/ CodeOf(f) = Proceeds /\ code # 2
         \/ CodeOf(f) = Proceeds /\ f.transport # "live"
  PROVE  CommandInv'
<1>1. f # None
  BY DEF Invocations, None
<1>2. /\ command' = None /\ ended'.of = f /\ ended'.exit = code
      /\ predicted' = IF f.dry THEN Ended(f, code) ELSE Recalled(f)
  BY DEF Exits, Ended
<1>3. f.transport = "live" => (code = 2 <=> CodeOf(f) = 2)
  BY DEF Proceeds
<1>4. CASE f.dry
  <2>1. code = CodeOf(f)
    BY <1>4, DryNeverProceeds
  <2>2. predicted'.of = f /\ predicted'.exit = code
    BY <1>2, <1>4 DEF Ended
  <2> QED BY <1>1, <1>2, <1>3, <1>4, <2>1, <2>2 DEF CommandInv
<1>5. CASE ~f.dry
  <2>1. predicted' = Recalled(f)
    BY <1>2, <1>5
  <2>2. CASE predicted.of = AsDry(f)
    <3>1. predicted' = predicted
      BY <2>1, <2>2 DEF Recalled
    <3> QED BY <3>1, <2>2, <1>1, <1>2, <1>3 DEF CommandInv
  <2>3. CASE predicted.of # AsDry(f)
    <3>1. predicted'.of = None
      BY <2>1, <2>3 DEF Recalled, NothingEnded, Ended
    <3> QED BY <3>1, <1>1, <1>2, <1>3 DEF CommandInv
  <2> QED BY <2>2, <2>3
<1> QED BY <1>4, <1>5

EvalInv == SuiteInv /\ CommandInv

LEMMA ReturnsKeeps ==
  ASSUME EvalInv, NEW f \in Invocations, Returns(f)
  PROVE  EvalInv'
<1>1. ProcessGone /\ Exits(f, CodeOf(f))
  BY DEF Returns, Exits
<1>2. CommandInv'
  BY <1>1, ExitKeeps DEF EvalInv
<1> QED BY <1>1, <1>2, GoneHolds DEF EvalInv

\* A run over the paid transport is not refused by its own admission: preflight asked the same.
LEMMA RunsSuiteKeeps ==
  ASSUME EvalInv, NEW f \in Invocations, RunsSuite(f)
  PROVE  EvalInv'
<1> DEFINE run == RunOf(f, RunnableSuite(f), Trials)
<1>1. CodeOf(f) = Proceeds /\ f # None
  BY DEF RunsSuite, Invocations, None
<1>2. CASE Start(run) /\ command' = f /\ ended' = NothingEnded /\ predicted' = Recalled(f)
             /\ UNCHANGED <<cache, answers>>
  <2>1. SuiteInv'
    <3> HIDE DEF run
    <3>1. run \in Configs
      BY RunsAreConfigs DEF run
    <3> QED BY <3>1, <1>2, StartKeeps DEF EvalInv
  <2>2. ended'.of = None /\ None.transport # "live"
    BY <1>2 DEF NothingEnded, Ended, None
  <2>3. predicted' = predicted \/ predicted'.of = None
    BY <1>2 DEF Recalled, NothingEnded, Ended
  <2>4. CommandInv'
    BY <1>1, <1>2, <2>2, <2>3 DEF EvalInv, CommandInv
  <2> QED BY <2>1, <2>4 DEF EvalInv
<1>3. CASE ~Admitted(run) /\ Exits(f, 2)
  <2>1. f.transport # "live"
    BY <1>1, <1>3, DryNeverProceeds DEF Preflight, RunnableSuite
  <2>2. CommandInv'
    BY <1>1, <1>3, <2>1, ExitKeeps DEF EvalInv
  <2>3. ProcessGone
    BY <1>3 DEF Exits
  <2> QED BY <2>2, <2>3, GoneHolds DEF EvalInv
<1> QED BY <1>2, <1>3 DEF RunsSuite

LEMMA ScoredExitKeeps ==
  ASSUME EvalInv, command # None, NEW code, code # 2, Exits(command, code)
  PROVE  EvalInv'
<1>1. command \in Invocations /\ CodeOf(command) = Proceeds
  BY DEF EvalInv, CommandInv
<1>2. CommandInv'
  BY <1>1, ExitKeeps DEF EvalInv
<1> QED BY <1>2, GoneHolds DEF EvalInv, Exits

LEMMA RunsArmKeeps ==
  ASSUME EvalInv, NEW next, RunsArm(next)
  PROVE  EvalInv'
<1>1. command \in Invocations /\ UNCHANGED <<command, ended, predicted, cache, answers>>
  BY DEF EvalInv, CommandInv, RunsArm, RunIsOver
<1>2. SuiteInv'
  BY <1>1, RunsAreConfigs, StartKeeps DEF EvalInv, RunsArm
<1>3. CommandInv'
  BY <1>1 DEF EvalInv, CommandInv
<1> QED BY <1>2, <1>3 DEF EvalInv

CommandSpec == SuiteInit /\ CommandInit /\ [][CommandNext]_<<suiteVars, commandVars>>

\* Invocations of the eval command, one process after another.
THEOREM EvalInvariant == CommandSpec => []EvalInv
<1>1. SuiteInit /\ CommandInit => EvalInv
  <2> SUFFICES ASSUME SuiteInit, CommandInit PROVE EvalInv
    OBVIOUS
  <2>1. SuiteInv
    BY BlankHolds DEF SuiteInit, Blank
  <2>2. CommandInv
    BY DEF CommandInit, CommandInv, NothingEnded, Ended, None
  <2> QED BY <2>1, <2>2 DEF EvalInv
<1>2. EvalInv /\ [CommandNext]_<<suiteVars, commandVars>> => EvalInv'
  <2> SUFFICES ASSUME EvalInv, [CommandNext]_<<suiteVars, commandVars>> PROVE EvalInv'
    OBVIOUS
  <2>1. ASSUME NEW f \in Invocations, Returns(f) \/ RunsSuite(f) PROVE EvalInv'
    BY <2>1, ReturnsKeeps, RunsSuiteKeeps
  <2>2. CASE Request /\ UNCHANGED commandVars
    BY <2>2, RequestKeeps DEF EvalInv, CommandInv, commandVars
  <2>3. CASE RunScored
    <3>1. command # None
      BY <2>3 DEF RunScored, RunIsOver
    <3>2. RunsArm("baseline") \/ \E code \in {0, 1, 3} : Exits(command, code)
      BY <2>3 DEF RunScored
    <3> QED BY <3>1, <3>2, ScoredExitKeeps, RunsArmKeeps
  <2>4. CASE BaselineScored
    BY <2>4, RunsArmKeeps DEF BaselineScored
  <2>5. CASE ArmsCompared
    <3>1. PICK code \in {0, 4} : Exits(command, code)
      BY <2>5 DEF ArmsCompared
    <3>2. command # None /\ code # 2
      BY <2>5 DEF ArmsCompared, RunIsOver
    <3> QED BY <3>1, <3>2, ScoredExitKeeps
  <2>6. CASE UNCHANGED <<suiteVars, commandVars>>
    BY <2>6, SuiteStuttering DEF EvalInv, CommandInv, commandVars
  <2> QED BY <2>1, <2>2, <2>3, <2>4, <2>5, <2>6 DEF CommandNext
<1> QED BY <1>1, <1>2, PTL DEF CommandSpec

\* What a suite promises, of the runs of the eval command too.
THEOREM CommandKeepsItsSuites ==
  CommandSpec => [](TrialsAreSamples /\ CostIsWhatWasCalled /\ CallsWithinPlan)
<1>1. EvalInv => TrialsAreSamples /\ CostIsWhatWasCalled /\ CallsWithinPlan
  BY WithinPlan DEF EvalInv, SuiteInv
<1> QED BY <1>1, EvalInvariant, PTL

\* A dry run over the paid transport refuses exactly the plans the real run refuses: preflight has
\* asked what the admission of runSuite asks.
THEOREM PaidPlansArePredicted == CommandSpec => []PaidDryRunPredicts
<1>1. EvalInv => PaidDryRunPredicts
  <2> SUFFICES ASSUME CommandInv, ended.of.transport = "live", WasPredicted
               PROVE  predicted.exit = 2 <=> ended.exit = 2
    BY DEF EvalInv, PaidDryRunPredicts, DryRunPredicts
  <2>1. ended.of \in Invocations /\ predicted.of = AsDry(ended.of)
    BY DEF CommandInv, WasPredicted
  <2>2. predicted.exit = CodeOf(predicted.of)
    BY DEF CommandInv, WasPredicted
  <2> QED BY <2>1, <2>2, DryRefusesTheSame DEF CommandInv
<1> QED BY <1>1, EvalInvariant, PTL

-----------------------------------------------------------------------------
(* HostedHealth: how old an answer can be.                                 *)

Statuses == Pending \cup {"none", "unconfigured", "healthy", "unavailable", "probed"}
Entries == [status : Statuses, at : Nat, seen : Nat]
Questions == [waits : BOOLEAN, started : Nat, got : [HostedProviders -> Entries]]

\* An entry was concluded at most a time-out after what it says was so.
EntryRecent(e) == e.status \notin Pending /\ e.at - e.seen <= HealthTimeout

\* What a question holds of a provider was so less than an entry's life and a time-out before it
\* was asked; what its own probe saw, since then.
HeldRecent(e, started) ==
  /\ started - e.seen < HealthCache + HealthTimeout
  /\ e.status \in Pending => started <= e.seen

QuestionRecent(q) ==
  q.waits =>
    /\ q.started <= time /\ time - q.started <= HealthTimeout
    /\ \A p \in HostedProviders : HeldRecent(q.got[p], q.started)

HealthInv ==
  /\ time \in Nat
  /\ healthCache \in [HostedProviders -> Entries]
  /\ \A p \in HostedProviders : EntryRecent(healthCache[p])
  /\ asking \in [Askers -> Questions]
  /\ \A a \in Askers : QuestionRecent(asking[a])
  /\ HealthIsRecent

HealthSpec == HealthInit /\ [][HealthNext]_healthVars

LEMMA Numbers == HealthCache \in Nat \ {0} /\ HealthTimeout \in Nat /\ Target \in HostedProviders
BY HostedHealthAssumption

\* What is held of a provider when the question is asked: a young entry, or one of this moment.
LEMMA ConsultedIs ==
  ASSUME HealthInv, NEW p \in HostedProviders
  PROVE  /\ Consulted(p) \in Entries /\ HeldRecent(Consulted(p), time)
         /\ p \notin Configured => EntryRecent(Consulted(p))
<1> DEFINE e == healthCache[p]
<1>1. e \in Entries /\ EntryRecent(e) /\ time \in Nat
  BY DEF HealthInv
<1>2. CASE Young(e)
  <2>1. Consulted(p) = e
    BY <1>2 DEF Consulted
  <2>2. time - e.at < HealthCache
    BY <1>2 DEF Young
  <2>3. HeldRecent(e, time)
    BY <1>1, <2>2, Numbers DEF HeldRecent, EntryRecent, Entries
  <2> QED BY <1>1, <2>1, <2>3
<1>3. CASE ~Young(e)
  <2>1. Consulted(p) = [status |-> IF p \in Configured THEN Probing ELSE "unconfigured",
                        at |-> time, seen |-> time]
    BY <1>3 DEF Consulted
  <2>2. Consulted(p).at = time /\ Consulted(p).seen = time /\ Consulted(p) \in Entries
    <3>1. (IF p \in Configured THEN Probing ELSE "unconfigured") \in Statuses
      BY DEF Statuses, Pending
    <3> QED BY <1>1, <2>1, <3>1 DEF Entries
  <2>3. p \notin Configured => Consulted(p).status \notin Pending
    BY <2>1 DEF Pending, Probing
  <2>4. time - time = 0 /\ time <= time
    BY <1>1
  <2> QED BY <1>1, <2>2, <2>3, <2>4, Numbers DEF HeldRecent, EntryRecent
<1> QED BY <1>2, <1>3

\* A question replaced by another one.
LEMMA AskingReplaced ==
  ASSUME asking \in [Askers -> Questions], NEW a \in Askers, NEW q \in Questions,
         asking' = [asking EXCEPT ![a] = q], time' = time,
         \A b \in Askers : QuestionRecent(asking[b]), QuestionRecent(q)
  PROVE  asking' \in [Askers -> Questions] /\ \A b \in Askers : QuestionRecent(asking[b])'
<1>1. \A b \in Askers : asking'[b] = IF b = a THEN q ELSE asking[b]
  OBVIOUS
<1> QED BY <1>1 DEF QuestionRecent

\* An entry of a question replaced by another one.
LEMMA GotReplaced ==
  ASSUME NEW q \in Questions, q.waits, QuestionRecent(q), NEW p \in HostedProviders,
         NEW e \in Entries, HeldRecent(e, q.started), NEW r,
         r = [q EXCEPT !.got[p] = e]
  PROVE  r \in Questions /\ QuestionRecent(r)
<1>1. r \in Questions
  BY DEF Questions
<1>2. r.waits = q.waits /\ r.started = q.started
  BY DEF Questions
<1>3. \A o \in HostedProviders : r.got[o] = IF o = p THEN e ELSE q.got[o]
  BY DEF Questions
<1> QED BY <1>1, <1>2, <1>3 DEF QuestionRecent

LEMMA AskKeeps ==
  ASSUME HealthInv, NEW a \in Askers, Ask(a)
  PROVE  HealthInv'
<1> DEFINE got == [p \in HostedProviders |-> Consulted(p)]
           q == [waits |-> TRUE, started |-> time, got |-> got]
<1>1. /\ time \in Nat /\ time' = time /\ answer' = answer
      /\ asking' = [asking EXCEPT ![a] = q]
  BY DEF HealthInv, Ask
<1>2. got \in [HostedProviders -> Entries]
  BY ConsultedIs
<1>3. q \in Questions
  BY <1>1, <1>2 DEF Questions
<1>4. QuestionRecent(q)
  BY <1>1, Numbers, ConsultedIs DEF QuestionRecent
<1>5. asking' \in [Askers -> Questions] /\ \A b \in Askers : QuestionRecent(asking[b])'
  <2> HIDE DEF q
  <2> QED BY <1>1, <1>3, <1>4, AskingReplaced DEF HealthInv
<1>6. /\ healthCache' \in [HostedProviders -> Entries]
      /\ \A p \in HostedProviders : EntryRecent(healthCache'[p])
  BY ConsultedIs DEF HealthInv, Ask
<1> QED BY <1>1, <1>5, <1>6 DEF HealthInv, HealthIsRecent

LEMMA LookKeeps ==
  ASSUME HealthInv, NEW a \in Askers, Look(a)
  PROVE  HealthInv'
<1> DEFINE q == asking[a]
           e == [q.got[Target] EXCEPT !.status = IF up THEN "looked up" ELSE "looked down",
                                      !.seen = time]
           r == [q EXCEPT !.got[Target] = e]
<1>1. /\ q \in Questions /\ q.waits /\ QuestionRecent(q) /\ q.got[Target].status = Probing
      /\ time \in Nat /\ time' = time /\ healthCache' = healthCache /\ answer' = answer
  BY DEF HealthInv, Look
<1>2. q.got[Target] \in Entries /\ q.started \in Nat
  BY <1>1, Numbers DEF Questions
<1>3. e \in Entries /\ e.seen = time
  <2>1. (IF up THEN "looked up" ELSE "looked down") \in Statuses
    BY DEF Statuses, Pending
  <2> QED BY <1>1, <1>2, <2>1 DEF Entries
<1>4. HeldRecent(e, q.started)
  <2>1. q.started <= time
    BY <1>1 DEF QuestionRecent
  <2> HIDE DEF q, e
  <2> QED BY <1>1, <1>2, <1>3, <2>1, Numbers DEF HeldRecent
<1>5. asking' = [asking EXCEPT ![a] = r]
  BY DEF Look
<1>6. r \in Questions /\ QuestionRecent(r)
  <2> HIDE DEF e, q
  <2> QED BY <1>1, <1>3, <1>4, Numbers, GotReplaced
<1>7. asking' \in [Askers -> Questions] /\ \A b \in Askers : QuestionRecent(asking[b])'
  <2> HIDE DEF r
  <2> QED BY <1>1, <1>5, <1>6, AskingReplaced DEF HealthInv
<1> QED BY <1>1, <1>7 DEF HealthInv, HealthIsRecent

\* An entry that is concluded on a probe that saw what it says while the question waited.
LEMMA ConcludeKeeps ==
  ASSUME HealthInv, NEW a \in Askers, NEW p \in HostedProviders, asking[a].waits,
         NEW status \in Statuses \ Pending, NEW seen \in Nat, asking[a].started <= seen,
         Conclude(a, p, status, seen)
  PROVE  HealthInv'
<1> DEFINE q == asking[a]
           e == [status |-> status, at |-> time, seen |-> seen]
           r == [q EXCEPT !.got[p] = e]
<1>1. /\ q \in Questions /\ q.waits /\ QuestionRecent(q) /\ q.started \in Nat
      /\ time \in Nat /\ time' = time /\ answer' = answer
      /\ healthCache' = [healthCache EXCEPT ![p] = e]
      /\ asking' = [asking EXCEPT ![a] = r]
  BY DEF HealthInv, Conclude, Questions
<1>2. e \in Entries /\ e.status \notin Pending /\ e.at = time /\ e.seen = seen
  BY <1>1 DEF Entries
<1>3. HeldRecent(e, q.started)
  BY <1>1, <1>2, Numbers DEF HeldRecent
<1>4. EntryRecent(e)
  <2>1. time - q.started <= HealthTimeout
    BY <1>1 DEF QuestionRecent
  <2> QED BY <1>1, <1>2, <2>1, Numbers DEF EntryRecent
<1>5. r \in Questions /\ QuestionRecent(r)
  <2> HIDE DEF e, q
  <2> QED BY <1>1, <1>2, <1>3, GotReplaced
<1>6. asking' \in [Askers -> Questions] /\ \A b \in Askers : QuestionRecent(asking[b])'
  <2> HIDE DEF r
  <2> QED BY <1>1, <1>5, AskingReplaced DEF HealthInv
<1>7. /\ healthCache' \in [HostedProviders -> Entries]
      /\ \A o \in HostedProviders : EntryRecent(healthCache'[o])
  <2> HIDE DEF e
  <2> QED BY <1>1, <1>2, <1>4 DEF HealthInv
<1> QED BY <1>1, <1>6, <1>7 DEF HealthInv, HealthIsRecent

LEMMA ArriveKeeps ==
  ASSUME HealthInv, NEW a \in Askers, NEW p \in HostedProviders, Arrive(a, p)
  PROVE  HealthInv'
<1> DEFINE e == asking[a].got[p]
<1>1. /\ asking[a].waits /\ asking[a] \in Questions /\ QuestionRecent(asking[a]) /\ time \in Nat
  BY DEF HealthInv, Arrive
<1>2. e \in Entries /\ HeldRecent(e, asking[a].started) /\ asking[a].started <= time
  BY <1>1 DEF Questions, QuestionRecent
<1>3. {"healthy", "unavailable", "probed"} \subseteq Statuses \ Pending
  BY DEF Statuses, Pending, Probing
<1>4. \/ e.status = "looked up" /\ Conclude(a, p, "healthy", e.seen)
      \/ e.status = "looked down" /\ Conclude(a, p, "unavailable", e.seen)
      \/ Conclude(a, p, "probed", time)
      \/ Conclude(a, p, "unavailable", time)
  BY DEF Arrive
<1>5. e.status \in {"looked up", "looked down"} => asking[a].started <= e.seen
  BY <1>2 DEF HeldRecent, Pending
<1>6. e.seen \in Nat
  BY <1>2 DEF Entries
<1> HIDE DEF e
<1> QED BY <1>1, <1>2, <1>3, <1>4, <1>5, <1>6, ConcludeKeeps

LEMMA AnswerKeeps ==
  ASSUME HealthInv, NEW a \in Askers, Answer(a)
  PROVE  HealthInv'
<1> DEFINE e == asking[a].got[Target]
<1>1. /\ asking[a] \in Questions /\ asking[a].waits /\ QuestionRecent(asking[a]) /\ time \in Nat
      /\ asking' = [asking EXCEPT ![a] = Resting] /\ time' = time /\ healthCache' = healthCache
      /\ answer' = [ok |-> e.status = "healthy", seen |-> e.seen, told |-> time]
  BY DEF HealthInv, Answer
<1>2. e \in Entries /\ HeldRecent(e, asking[a].started) /\ asking[a].started \in Nat
  BY <1>1, Numbers DEF Questions, QuestionRecent
<1>3. time - e.seen < HealthCache + 2 * HealthTimeout
  <2>1. time - asking[a].started <= HealthTimeout
    BY <1>1 DEF QuestionRecent
  <2>2. asking[a].started - e.seen < HealthCache + HealthTimeout
    BY <1>2 DEF HeldRecent
  <2>3. e.seen \in Nat
    BY <1>2 DEF Entries
  <2> HIDE DEF e
  <2> QED BY <1>1, <1>2, <2>1, <2>2, <2>3, Numbers
<1>4. HealthIsRecent'
  BY <1>1, <1>3 DEF HealthIsRecent
<1>5. Resting \in Questions /\ QuestionRecent(Resting)
  <2>1. NotAsked \in Entries
    BY DEF NotAsked, Entries, Statuses
  <2> QED BY <2>1 DEF Resting, Questions, QuestionRecent
<1>6. asking' \in [Askers -> Questions] /\ \A b \in Askers : QuestionRecent(asking[b])'
  BY <1>1, <1>5, AskingReplaced DEF HealthInv
<1> QED BY <1>1, <1>4, <1>6 DEF HealthInv

LEMMA HealthTickKeeps ==
  ASSUME HealthInv, HealthTick
  PROVE  HealthInv'
<1>1. /\ time \in Nat /\ time' = time + 1 /\ UNCHANGED <<healthCache, asking, answer>>
      /\ asking \in [Askers -> Questions]
  BY DEF HealthInv, HealthTick
<1>2. ASSUME NEW a \in Askers PROVE QuestionRecent(asking[a])'
  <2>1. asking[a].started \in Nat /\ asking'[a] = asking[a] /\ QuestionRecent(asking[a])
    BY <1>1 DEF Questions, HealthInv
  <2>2. asking[a].waits => time - asking[a].started < HealthTimeout
    BY DEF HealthTick
  <2> QED BY <1>1, <2>1, <2>2, Numbers DEF QuestionRecent
<1> QED BY <1>1, <1>2 DEF HealthInv, HealthIsRecent

LEMMA HealthInitHolds == HealthInit => HealthInv
<1> SUFFICES ASSUME HealthInit PROVE HealthInv
  OBVIOUS
<1>1. NotAsked \in Entries /\ EntryRecent(NotAsked)
  BY Numbers DEF NotAsked, Entries, Statuses, EntryRecent, Pending, Probing
<1>2. Resting \in Questions /\ QuestionRecent(Resting)
  BY <1>1 DEF Resting, Questions, QuestionRecent
<1> QED BY <1>1, <1>2 DEF HealthInit, HealthInv, HealthIsRecent

\* An answer about the health of a provider is younger than an entry's life and two time-outs, in
\* any overlap of questions (provider-hosted-server, health).
THEOREM HealthAnswersAreRecent == HealthSpec => []HealthIsRecent
<1>1. HealthInv /\ [HealthNext]_healthVars => HealthInv'
  <2> SUFFICES ASSUME HealthInv, [HealthNext]_healthVars PROVE HealthInv'
    OBVIOUS
  <2>1. ASSUME NEW a \in Askers,
               Ask(a) \/ Look(a) \/ Answer(a) \/ \E p \in HostedProviders : Arrive(a, p)
        PROVE  HealthInv'
    BY <2>1, AskKeeps, LookKeeps, AnswerKeeps, ArriveKeeps
  <2>2. CASE HealthTick
    BY <2>2, HealthTickKeeps
  <2>3. CASE Swing \/ UNCHANGED healthVars
    BY <2>3 DEF Swing, healthVars, HealthInv, QuestionRecent, HealthIsRecent
  <2> QED BY <2>1, <2>2, <2>3 DEF HealthNext
<1>2. HealthInv => HealthIsRecent
  BY DEF HealthInv
<1> QED BY <1>1, <1>2, HealthInitHolds, PTL DEF HealthSpec
=============================================================================
