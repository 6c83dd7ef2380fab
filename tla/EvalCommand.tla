------------------------------ MODULE EvalCommand ------------------------------
(***************************************************************************)
(* The eval command (scripts/run-eval.ts) with its preflight: invocations  *)
(* one after another, each a process of its own with a cache of its own,   *)
(* that refuse, print a plan (--dry-run), or run the suite and, with       *)
(* --compare, its two arms.                                                *)
(*                                                                         *)
(* An invocation is its flags and what it finds: whether a transport is    *)
(* ready (for live a plausible key, for local the name of a model),        *)
(* whether argv and the suite file are in order, and whether every         *)
(* detector has a probe. The loader has refused a suite with missing cases.*)
(***************************************************************************)
EXTENDS Suite

CONSTANT PinnedOnly    \* the cases that assert a gate fires, on what the stub plants

ASSUME EvalCommandAssumption == PinnedOnly \subseteq Written

VARIABLES
  command,     \* the invocation that is running, or none
  arm,         \* which of its runs: "suite", or of --compare "baseline", "candidate"
  ended,       \* the last invocation that ended, and its exit code
  predicted    \* history: the same of the last dry run, until another plan is run

commandVars == <<command, arm, ended, predicted>>

Invocations ==
  [transport : {"stub", "local", "live", "both"}, dry : BOOLEAN, compare : BOOLEAN,
   cap : Caps \cup {NoCap}, ready : BOOLEAN, inOrder : BOOLEAN, probed : BOOLEAN]

None == [transport |-> "none"]
Ended(f, code) == [of |-> f, exit |-> code]
NothingEnded == Ended(None, 0)

CommandInit ==
  /\ command = None
  /\ arm = "suite"
  /\ ended = NothingEnded
  /\ predicted = NothingEnded

Real(f) == f.transport # "stub"

\* partitionByTransport.
Runnable(f) == IF Real(f) THEN Written \ PinnedOnly ELSE Written

RunOf(f, cases, trials) ==
  [stochastic |-> TRUE, cached |-> Real(f), cap |-> f.cap, cases |-> cases, trials |-> trials]

\* The suite as the file lists it.
FullSuite(f) == Written

\* runnableSuite: the case_ids narrowed to what this transport can score.
RunnableSuite(f) == Runnable(f)

\* preflight: what must hold before a run over a real transport may start.
Preflight(f) ==
  /\ f.transport = "local" => f.ready
  /\ f.transport = "live" =>
       f.ready /\ f.cap # NoCap /\ Admitted(RunOf(f, Runnable(f), Trials))

Proceeds == -1

\* The process is gone, its cache with it.
ProcessGone ==
  /\ phase' = "idle"
  /\ config' = NoRun
  /\ at' = Earliest(Slots)
  /\ attempt' = 1
  /\ cache' = NothingCached
  /\ calls' = 0
  /\ cost' = NoCost
  /\ lost' = NoLoss
  /\ taken' = NothingTaken
  /\ answers' = 0
  /\ UNCHANGED runs

\* The early returns of main(), in their order.
CodeOf(f) ==
  IF ~f.inOrder \/ (f.compare /\ Real(f)) THEN 2
  ELSE IF ~f.probed THEN 3
  ELSE IF f.transport = "both" \/ (f.dry /\ ~Real(f)) \/ ~Preflight(f) THEN 2
  ELSE IF f.dry THEN 0
  ELSE Proceeds

AsDry(f) == [f EXCEPT !.dry = TRUE]

\* What a dry run said of this plan is remembered.
Recalled(f) == IF predicted.of = AsDry(f) THEN predicted ELSE NothingEnded

Exits(f, code) ==
  /\ ProcessGone
  /\ command' = None
  /\ arm' = "suite"
  /\ ended' = Ended(f, code)
  /\ predicted' = IF f.dry THEN Ended(f, code) ELSE Recalled(f)

Returns(f) ==
  /\ command = None
  /\ CodeOf(f) # Proceeds
  /\ Exits(f, CodeOf(f))

\* runSuite, in a new process: its own admission may still refuse.
RunsSuite(f) ==
  LET run == RunOf(f, RunnableSuite(f), Trials) IN
  /\ command = None
  /\ CodeOf(f) = Proceeds
  /\ \/ /\ Start(run)
        /\ command' = f
        /\ arm' = "suite"
        /\ ended' = NothingEnded
        /\ predicted' = Recalled(f)
        /\ UNCHANGED <<cache, answers, runs>>
     \/ /\ ~Admitted(run)
        /\ Exits(f, 2)

RunIsOver == command # None /\ phase = "idle"

\* compareRuns: both arms, on the stub, whatever --trials says.
RunsArm(next) ==
  /\ RunIsOver
  /\ command.compare
  /\ Start(RunOf(command, Written, 1))
  /\ arm' = next
  /\ UNCHANGED <<command, ended, predicted, cache, answers, runs>>

\* A detector whose probes caught nothing fails the run, whatever it scored.
RunScored ==
  /\ RunIsOver
  /\ arm = "suite"
  /\ \/ Exits(command, 3)
     \/ ~command.compare /\ Exits(command, 0)
     \/ ~command.compare /\ config.cases # {} /\ Exits(command, 1)
     \/ RunsArm("baseline")

BaselineScored == arm = "baseline" /\ RunsArm("candidate")

\* Exit 0 is the verdict the command exists to show: a regression.
ArmsCompared ==
  /\ RunIsOver
  /\ arm = "candidate"
  /\ \E code \in {0, 4} : Exits(command, code)

CommandNext ==
  \/ \E f \in Invocations : Returns(f) \/ RunsSuite(f)
  \/ Request /\ UNCHANGED commandVars
  \/ RunScored
  \/ BaselineScored
  \/ ArmsCompared

-----------------------------------------------------------------------------
(* Properties.                                                             *)

\* An invocation ended, and a dry run had been made of it.
WasPredicted == ended.of # None /\ ended.of # predicted.of /\ predicted.of # None

\* preflight.ts: "a dry run that approves a plan the real run then refuses is worse than no dry
\* run at all": the two refuse the same invocations.
DryRunPredicts == WasPredicted => (predicted.exit = 2 <=> ended.exit = 2)

\* The same of the transport that costs money.
PaidDryRunPredicts == ended.of.transport = "live" => DryRunPredicts

\* load-eval-suite.ts: "A suite that scores nothing must not pass."
NothingScoredNeverPasses ==
  ended.exit = 0 /\ ended.of # None /\ ~ended.of.dry => RunnableSuite(ended.of) # {}
=============================================================================
