----------------------------- MODULE MCProvider -----------------------------
(* The programs that call a provider through the Application layer: the API *)
(* shell, callers that run suites over one cache, the eval command, and the *)
(* questions about the health of a hosted provider. They share nothing, and *)
(* run one or the other.                                                    *)
EXTENDS Gateway, EvalCommand, HostedHealth

evalVars == <<suiteVars, commandVars>>
besideVars == <<evalVars, healthVars>>

NoRequest == clock = Window /\ window = Opened(0) /\ job = [h \in Handlers |-> NoJob]

NoInvocation == command = None /\ ended = NothingEnded

NoSuite == runs = 0 /\ NoInvocation
NoQuestion == time = 0 /\ swings = 0 /\ asking = [a \in Askers |-> Resting] /\ answer = NotTold
                /\ healthCache = [p \in HostedProviders |-> NotAsked]

MCInit == Init /\ SuiteInit /\ CommandInit /\ HealthInit

MCNext ==
  \/ NoSuite /\ NoQuestion /\ Next /\ UNCHANGED besideVars
  \/ NoRequest /\ NoInvocation /\ NoQuestion /\ SuiteNext
       /\ UNCHANGED <<vars, commandVars, healthVars>>
  \/ NoRequest /\ runs = 0 /\ NoQuestion /\ CommandNext /\ UNCHANGED <<vars, healthVars>>
  \/ NoRequest /\ NoSuite /\ HealthNext /\ UNCHANGED <<vars, evalVars>>

MCFairness == \A h \in Handlers : WF_<<vars, besideVars>>(Serve(h) /\ UNCHANGED besideVars)

MCSpec == MCInit /\ [][MCNext]_<<vars, besideVars>> /\ MCFairness
=============================================================================
