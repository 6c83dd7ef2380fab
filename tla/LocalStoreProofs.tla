---------------------------- MODULE LocalStoreProofs ----------------------------
(***************************************************************************)
(* Theorems about LocalStore, for every number of runs, clients and        *)
(* crashes.                                                                *)
(*                                                                         *)
(* A manifest is never replaced, in any number of processes. With one      *)
(* process, and markStale never overlapping another call, the chain of     *)
(* `serialise` keeps one mode per run and loses no revision: InOneProcess  *)
(* is the inductive invariant, and its parts say why. Between a call's     *)
(* check and its write nobody else is at work (OneAtATime, StaleIsAlone),  *)
(* so what it checked and read still holds when it writes (Checked).       *)
(* Under the same hypotheses an append returns within the bound, and       *)
(* without crashes no reader finds a torn file and the files implement     *)
(* RevisionStore: StoreInv is the invariant of that refinement.            *)
(***************************************************************************)
EXTENDS LocalStore, RevisionsProofs

Bundles == Seq(Entries(Ids0, Stamps))

\* The steps of a call that runs at the head of the chain, and those of markStale.
Active == {"read", "write", "scan", "remove", "link"}

StalePc == {"staleRead", "staleOpen", "staleWrite"}

\* A call that still has its write to do carries exactly one revision.
CallsCarryOne ==
  \A c \in Clients : pc[c] \in {"queued", "read", "write"} => Len(call[c].revs) = 1

OneProcess == \A c, d \in Clients : ProcOf[c] = ProcOf[d]

-----------------------------------------------------------------------------
(* Types.                                                                  *)

LEMMA NoCallType == NoCall \in Calls
<1>1. (CHOOSE r \in Runs : TRUE) \in Runs
  BY LocalAssumption
<1> QED BY <1>1 DEF NoCall, Calls, Ids0

LEMMA OldBundleType == OldBundle \in Bundles
<1>1. OldBundle[1] \in Entries(Ids0, Stamps)
  BY LocalAssumption DEF OldBundle, Entries, Ids0
<1> QED BY <1>1 DEF OldBundle, Bundles

LEMMA FreshEntriesType ==
  ASSUME TypeOK, NEW r \in Runs, NEW e \in FreshEntries(r)
  PROVE  e \in Entries(Ids0, Stamps) /\ e.id \in RevIds
<1>1. NextIds \subseteq RevIds
  BY DEF NextIds
<1>2. Ids(legacy[r]) \subseteq Ids0
  BY IdsInType DEF TypeOK
<1> QED BY <1>1, <1>2 DEF FreshEntries, Entries, Ids0

LEMMA LastOfType ==
  ASSUME NEW b \in Bundles
  PROVE  LastOf(b) \in Stamps \cup {0}
<1>1. CASE b = <<>>
  BY <1>1 DEF LastOf
<1>2. CASE b # <<>>
  <2>1. Len(b) \in 1 .. Len(b)
    BY <1>2, EmptySeq DEF Bundles
  <2>2. b[Len(b)] \in Entries(Ids0, Stamps)
    BY <2>1, ElementOfSeq DEF Bundles
  <2> QED BY <1>2, <2>2 DEF LastOf, Entries
<1> QED BY <1>1, <1>2

LEMMA LastStampType ==
  ASSUME TypeOK, NEW r \in Runs
  PROVE  LastStamp[r] \in Stamps \cup {0}
<1>1. legacy[r] \in Bundles /\ manifest[r] \in Bundles
  BY DEF TypeOK, Bundles
<1>2. LastOf(legacy[r]) \in Stamps \cup {0} /\ LastOf(manifest[r]) \in Stamps \cup {0}
  BY <1>1, LastOfType
<1> QED BY <1>2 DEF LastStamp, LaterOf

LEMMA SettleType ==
  ASSUME TypeOK, NEW c \in Clients, Settle(c)
  PROVE  /\ pc' \in [Clients -> PcValues]
         /\ call' \in [Clients -> Calls]
         /\ buf' \in [Clients -> Bundles]
         /\ doomed' \in [Clients -> SUBSET DoomedRecords]
         /\ queue' \in [Procs -> Seq(Clients)]
<1>1. call' \in [Clients -> Calls]
  BY NoCallType DEF Settle, TypeOK
<1>2. pc' \in [Clients -> PcValues]
  BY DEF Settle, TypeOK, PcValues
<1>3. buf' \in [Clients -> Bundles] /\ doomed' \in [Clients -> SUBSET DoomedRecords]
  BY DEF Settle, TypeOK, Bundles
<1>4. queue' \in [Procs -> Seq(Clients)]
  <2>1. queue[ProcOf[c]] \in Seq(Clients)
    BY LocalAssumption DEF TypeOK
  <2>2. Running(c) => Tail(queue[ProcOf[c]]) \in Seq(Clients)
    BY <2>1, HeadTailProperties DEF Running
  <2> QED BY <2>1, <2>2 DEF Settle, TypeOK
<1> QED BY <1>1, <1>2, <1>3, <1>4

LEMMA InitType == Init => TypeOK
<1> SUFFICES ASSUME Init PROVE TypeOK
  OBVIOUS
<1>1. legacy \in [Runs -> Bundles]
  BY OldBundleType DEF Init, Bundles
<1>2. stored \in [Runs -> SUBSET Ids0]
  BY <1>1, IdsInType DEF Init, Bundles
<1>3. call \in [Clients -> Calls]
  BY NoCallType DEF Init
<1> QED BY <1>1, <1>2, <1>3, LocalAssumption DEF Init, TypeOK, PcValues, Bundles

LEMMA CallChainedType ==
  ASSUME TypeOK, NEW c \in Clients, NEW kind \in {"append", "commit"}, CallChained(c, kind)
  PROVE  TypeOK'
<1>0. PICK r \in Runs : \E e \in FreshEntries(r) :
        /\ call' = [call EXCEPT ![c] = [kind |-> kind, run |-> r, revs |-> <<e>>, from |-> 0]]
        /\ issued' = issued \cup {e.id}
  BY DEF CallChained
<1>1. PICK e \in FreshEntries(r) :
        /\ call' = [call EXCEPT ![c] = [kind |-> kind, run |-> r, revs |-> <<e>>, from |-> 0]]
        /\ issued' = issued \cup {e.id}
  BY <1>0
<1>2. e \in Entries(Ids0, Stamps) /\ e.id \in RevIds
  BY FreshEntriesType DEF CallChained
<1>3. [kind |-> kind, run |-> r, revs |-> <<e>>, from |-> 0] \in Calls
  BY <1>2 DEF Calls, Ids0
<1>4. call' \in [Clients -> Calls] /\ issued' \subseteq RevIds
  BY <1>1, <1>2, <1>3 DEF TypeOK
<1>5. pc' \in [Clients -> PcValues]
  BY DEF CallChained, TypeOK, PcValues
<1>6. queue' \in [Procs -> Seq(Clients)]
  <2>1. queue[ProcOf[c]] \in Seq(Clients)
    BY LocalAssumption DEF TypeOK
  <2>2. Append(queue[ProcOf[c]], c) \in Seq(Clients)
    BY <2>1
  <2> QED BY <2>2 DEF CallChained, TypeOK
<1> QED BY <1>4, <1>5, <1>6 DEF CallChained, TypeOK, files

LEMMA CallStaleType ==
  ASSUME TypeOK, NEW c \in Clients, CallStale(c)
  PROVE  TypeOK'
<1>1. PICK r \in Runs, i \in issued \cup {0} :
        call' = [call EXCEPT ![c] = [kind |-> "stale", run |-> r, revs |-> <<>>, from |-> i]]
  BY DEF CallStale
<1>2. [kind |-> "stale", run |-> r, revs |-> <<>>, from |-> i] \in Calls
  BY DEF Calls, Ids0, TypeOK
<1>3. call' \in [Clients -> Calls]
  BY <1>1, <1>2 DEF TypeOK
<1> QED BY <1>3 DEF CallStale, TypeOK, files, PcValues

\* Steps that leave the files alone and end the call or move it on.
LEMMA OpenType ==
  ASSUME TypeOK, NEW c \in Clients,
         AppendOpen(c) \/ AppendRead(c) \/ CommitOpen(c) \/ WriteFails(c) \/ StaleRead(c)
  PROVE  TypeOK'
<1>1. /\ legacy' = legacy /\ manifest' = manifest /\ torn' = torn /\ handles' = handles
      /\ written' = written /\ issued' = issued /\ stored' = stored /\ crashes' = crashes
  BY DEF AppendOpen, AppendRead, CommitOpen, WriteFails, StaleRead, files
<1>2. \/ Settle(c)
      \/ /\ UNCHANGED <<queue, call, doomed>>
         /\ buf' = buf \/ buf' = [buf EXCEPT ![c] = legacy[call[c].run]]
         /\ \E p \in PcValues : pc' = [pc EXCEPT ![c] = p]
  BY DEF AppendOpen, AppendRead, CommitOpen, WriteFails, StaleRead, Throw, PcValues
<1>3. CASE Settle(c)
  BY <1>1, <1>3, SettleType DEF TypeOK, Bundles
<1>4. CASE ~Settle(c)
  <2>1. call[c].run \in Runs
    BY DEF TypeOK, Calls
  <2> QED BY <1>1, <1>2, <1>4, <2>1 DEF TypeOK
<1> QED BY <1>3, <1>4

LEMMA AppendWriteType ==
  ASSUME TypeOK, CallsCarryOne, NEW c \in Clients, AppendWrite(c)
  PROVE  TypeOK'
<1> DEFINE r == call[c].run  revs == call[c].revs
<1>1. r \in Runs /\ revs \in Bundles /\ buf[c] \in Bundles
  BY DEF TypeOK, Calls, Bundles
<1>2. revs[1] \in Entries(Ids0, Stamps)
  <2>1. 1 \in 1 .. Len(revs)
    BY DEF AppendWrite, CallsCarryOne
  <2> QED BY <1>1, <2>1, ElementOfSeq DEF Bundles
<1>3. Append(buf[c], revs[1]) \in Bundles
  BY <1>1, <1>2, AppendHolds DEF Bundles
<1>4. legacy' \in [Runs -> Bundles] /\ torn' \subseteq Runs /\ handles' \in [Runs -> SUBSET Clients]
  BY <1>1, <1>3 DEF AppendWrite, SetLegacy, TypeOK, Bundles
<1>5. written' \in [Procs -> SUBSET Runs]
  BY <1>1, LocalAssumption DEF AppendWrite, TypeOK
<1>6. stored' \in [Runs -> SUBSET Ids0]
  BY <1>1, IdsInType DEF AppendWrite, TypeOK, Bundles
<1>7. pc' \in [Clients -> PcValues] /\ buf' \in [Clients -> Bundles]
  BY DEF AppendWrite, TypeOK, PcValues, Bundles
<1> QED BY <1>4, <1>5, <1>6, <1>7 DEF AppendWrite, TypeOK, Bundles

LEMMA EvictScanType ==
  ASSUME TypeOK, NEW c \in Clients, EvictScan(c)
  PROVE  TypeOK'
<1>1. /\ legacy' = legacy /\ manifest' = manifest /\ torn' = torn /\ handles' = handles
      /\ written' = written /\ issued' = issued /\ stored' = stored /\ crashes' = crashes
  BY DEF EvictScan, files
<1>2. CASE Settle(c)
  BY <1>1, <1>2, SettleType DEF TypeOK, Bundles
<1>3. CASE ~Settle(c)
  <2>1. PICK D \in DoomedSets(Held, LastStamp, MaxBundles) :
          /\ doomed' = [doomed EXCEPT ![c] =
               {[run |-> r, mode |-> Mode(r), stamp |-> LastStamp[r]] : r \in D}]
          /\ pc' = [pc EXCEPT ![c] = "remove"]
          /\ UNCHANGED <<queue, call, buf>>
    BY <1>3 DEF EvictScan, Throw
  <2>2. D \subseteq Runs
    BY DoomedAreHeld DEF Held
  <2>3. \A r \in D : [run |-> r, mode |-> Mode(r), stamp |-> LastStamp[r]] \in DoomedRecords
    BY <2>2, LastStampType DEF DoomedRecords, Mode
  <2>4. doomed' \in [Clients -> SUBSET DoomedRecords] /\ pc' \in [Clients -> PcValues]
    BY <2>1, <2>3 DEF TypeOK, PcValues
  <2> QED BY <1>1, <2>1, <2>4 DEF TypeOK
<1> QED BY <1>2, <1>3

LEMMA EvictRemoveType ==
  ASSUME TypeOK, NEW c \in Clients, EvictRemove(c)
  PROVE  TypeOK'
<1>1. PICK x \in doomed[c] :
       /\ IF x.mode = "semantic" THEN UNCHANGED <<legacy, torn, handles, stored>>
          ELSE /\ SetLegacy(x.run, <<>>)
               /\ stored' = [stored EXCEPT ![x.run] = {}]
       /\ manifest' = IF x.mode = "legacy" THEN manifest
                      ELSE [manifest EXCEPT ![x.run] = <<>>]
       /\ IF doomed[c] = {x} THEN Settle(c)
          ELSE /\ doomed' = [doomed EXCEPT ![c] = @ \ {x}]
               /\ UNCHANGED <<pc, call, buf, queue>>
  BY DEF EvictRemove
<1>2. x.run \in Runs
  BY DEF TypeOK, DoomedRecords
<1>3. <<>> \in Bundles
  BY DEF Bundles
<1>4. /\ legacy' \in [Runs -> Bundles] /\ torn' \subseteq Runs
      /\ handles' \in [Runs -> SUBSET Clients] /\ stored' \in [Runs -> SUBSET Ids0]
  <2>1. CASE x.mode = "semantic"
    BY <1>1, <2>1 DEF TypeOK, Bundles
  <2>2. CASE x.mode # "semantic"
    <3>1. /\ legacy' = [legacy EXCEPT ![x.run] = <<>>] /\ torn' = torn \ {x.run}
          /\ handles' = [handles EXCEPT ![x.run] = {}]
          /\ stored' = [stored EXCEPT ![x.run] = {}]
      BY <1>1, <2>2 DEF SetLegacy
    <3>2. legacy \in [Runs -> Bundles] /\ handles \in [Runs -> SUBSET Clients]
          /\ torn \subseteq Runs /\ stored \in [Runs -> SUBSET Ids0]
      BY DEF TypeOK, Bundles
    <3> HIDE DEF Bundles
    <3> QED BY <1>2, <1>3, <3>1, <3>2
  <2> QED BY <2>1, <2>2
<1>5. manifest' \in [Runs -> Bundles]
  BY <1>1, <1>2, <1>3 DEF TypeOK, Bundles
<1>6. /\ pc' \in [Clients -> PcValues] /\ call' \in [Clients -> Calls]
      /\ buf' \in [Clients -> Bundles] /\ queue' \in [Procs -> Seq(Clients)]
      /\ doomed' \in [Clients -> SUBSET DoomedRecords]
  <2>1. CASE doomed[c] = {x}
    BY <1>1, <2>1, SettleType
  <2>2. CASE doomed[c] # {x}
    <3>1. doomed' = [doomed EXCEPT ![c] = @ \ {x}] /\ UNCHANGED <<pc, call, buf, queue>>
      BY <1>1, <2>2
    <3> QED BY <3>1 DEF TypeOK, Bundles
  <2> QED BY <2>1, <2>2
<1> QED BY <1>4, <1>5, <1>6 DEF EvictRemove, TypeOK, Bundles

LEMMA CommitLinkType ==
  ASSUME TypeOK, NEW c \in Clients, CommitLink(c)
  PROVE  TypeOK'
<1>1. manifest' \in [Runs -> Bundles]
  BY DEF CommitLink, TypeOK, Calls, Bundles
<1> QED BY <1>1, SettleType DEF CommitLink, TypeOK, Bundles

LEMMA StaleOpenType ==
  ASSUME TypeOK, NEW c \in Clients, StaleOpen(c)
  PROVE  TypeOK'
<1>1. call[c].run \in Runs /\ <<>> \in Bundles
  BY DEF TypeOK, Calls, Bundles
<1> QED BY <1>1 DEF StaleOpen, TypeOK, PcValues, Bundles

LEMMA StaleWriteType ==
  ASSUME TypeOK, NEW c \in Clients, StaleWrite(c)
  PROVE  TypeOK'
<1> DEFINE staled == StaleIn(buf[c], Cascade(buf[c], call[c].from))
<1>1. call[c].run \in Runs /\ staled \in Bundles
  BY StaleInKeeps DEF TypeOK, Calls, Bundles
<1>2. /\ legacy' \in [Runs -> Bundles] /\ torn' \subseteq Runs
      /\ handles' \in [Runs -> SUBSET Clients]
  <2>1. legacy \in [Runs -> Bundles] /\ torn \subseteq Runs /\ handles \in [Runs -> SUBSET Clients]
    BY DEF TypeOK, Bundles
  <2>2. \/ UNCHANGED <<legacy, torn, handles>>
        \/ /\ legacy' = [legacy EXCEPT ![call[c].run] = staled]
           /\ torn' = torn \ {call[c].run}
           /\ handles' = [handles EXCEPT ![call[c].run] = @ \ {c}]
    BY DEF StaleWrite
  <2> HIDE DEF staled
  <2> QED BY <1>1, <2>1, <2>2
<1> QED BY <1>2, SettleType DEF StaleWrite, TypeOK, Bundles

LEMMA CrashType ==
  ASSUME TypeOK, NEW p \in Procs, Crash(p)
  PROVE  TypeOK'
<1>1. pc' \in [Clients -> PcValues] /\ call' \in [Clients -> Calls]
  BY NoCallType DEF Crash, TypeOK, PcValues
<1>2. buf' \in [Clients -> Bundles] /\ doomed' \in [Clients -> SUBSET DoomedRecords]
  BY DEF Crash, TypeOK, Bundles
<1>3. crashes' \in 0 .. MaxCrashes
  BY LocalAssumption DEF Crash, TypeOK
<1>4. handles' \in [Runs -> SUBSET Clients]
  BY DEF Crash, TypeOK
<1> QED BY <1>1, <1>2, <1>3, <1>4 DEF Crash, TypeOK, Bundles

LEMMA RestartType ==
  ASSUME TypeOK, NEW p \in Procs, Restart(p)
  PROVE  TypeOK'
BY DEF Restart, TypeOK, PcValues, files

\* Every step keeps the types, and what the calls carry.
LEMMA StepCarriesOne ==
  ASSUME TypeOK, CallsCarryOne, Next
  PROVE  CallsCarryOne'
<1> DEFINE Waiting == {"queued", "read", "write"}
           Keeps(d) == pc'[d] \in Waiting => pc[d] \in Waiting /\ call'[d] = call[d]
<1>1. ASSUME \A d \in Clients : Keeps(d)
      PROVE  CallsCarryOne'
  BY <1>1 DEF CallsCarryOne
<1>2. ASSUME NEW c \in Clients, NEW kind \in {"append", "commit"}, CallChained(c, kind)
      PROVE  CallsCarryOne'
  <2>1. PICK rec : /\ Len(rec.revs) = 1
                   /\ call' = [call EXCEPT ![c] = rec]
                   /\ pc' = [pc EXCEPT ![c] = "queued"]
    <3>1. \E r \in Runs : \E e \in FreshEntries(r) :
             call' = [call EXCEPT ![c] = [kind |-> kind, run |-> r, revs |-> <<e>>, from |-> 0]]
      BY <1>2 DEF CallChained
    <3>2. \A r, e : Len([kind |-> kind, run |-> r, revs |-> <<e>>, from |-> 0].revs) = 1
      OBVIOUS
    <3> QED BY <1>2, <3>1, <3>2 DEF CallChained
  <2> QED BY <2>1 DEF CallsCarryOne, TypeOK
<1>3. ASSUME NEW c \in Clients, CallStale(c)
      PROVE  CallsCarryOne'
  <2>1. \A d \in Clients : Keeps(d)
    BY <1>3 DEF CallStale, TypeOK
  <2> QED BY <2>1, <1>1
<1>4. ASSUME NEW c \in Clients, Settle(c)
      PROVE  CallsCarryOne'
  <2>1. \A d \in Clients : Keeps(d)
    BY <1>4 DEF Settle, TypeOK
  <2> QED BY <2>1, <1>1
<1>5. ASSUME NEW c \in Clients, Step(c), ~Settle(c)
      PROVE  CallsCarryOne'
  <2>1. call' = call /\ \A d \in Clients \ {c} : pc'[d] = pc[d]
    BY <1>5 DEF Step, AppendOpen, AppendRead, AppendWrite, EvictScan, EvictRemove, CommitOpen,
                CommitLink, WriteFails, StaleRead, StaleOpen, StaleWrite, Throw, TypeOK
  <2>2. pc'[c] \in Waiting => pc[c] \in Waiting
    BY <1>5 DEF Step, AppendOpen, AppendRead, AppendWrite, EvictScan, EvictRemove, CommitOpen,
                CommitLink, WriteFails, StaleRead, StaleOpen, StaleWrite, Throw, TypeOK
  <2> QED BY <2>1, <2>2, <1>1
<1>6. ASSUME NEW p \in Procs, Crash(p) \/ Restart(p)
      PROVE  CallsCarryOne'
  <2>1. \A d \in Clients : Keeps(d)
    BY <1>6 DEF Crash, Restart, TypeOK
  <2> QED BY <2>1, <1>1
<1> QED BY <1>2, <1>3, <1>4, <1>5, <1>6 DEF Next, CallAppend, CallCommit

TypeInv == TypeOK /\ CallsCarryOne

LEMMA TypeInvNext == TypeInv /\ [Next]_vars => TypeInv'
<1> SUFFICES ASSUME TypeInv, [Next]_vars PROVE TypeInv'
  OBVIOUS
<1> USE DEF TypeInv
<1>1. CASE UNCHANGED vars
  <2>1. TypeOK'
    BY <1>1 DEF vars, TypeOK
  <2>2. CallsCarryOne'
    BY <1>1 DEF vars, CallsCarryOne
  <2> QED BY <2>1, <2>2
<1>2. CASE Next
  <2>1. ASSUME NEW c \in Clients, CallAppend(c) \/ CallCommit(c) PROVE TypeOK'
    BY <2>1, CallChainedType DEF CallAppend, CallCommit
  <2>2. ASSUME NEW c \in Clients, CallStale(c) PROVE TypeOK'
    BY <2>2, CallStaleType
  <2>3. ASSUME NEW c \in Clients, Step(c) PROVE TypeOK'
    BY <2>3, OpenType, AppendWriteType, EvictScanType, EvictRemoveType, CommitLinkType,
       StaleOpenType, StaleWriteType DEF Step
  <2>4. ASSUME NEW p \in Procs, Crash(p) \/ Restart(p) PROVE TypeOK'
    BY <2>4, CrashType, RestartType
  <2>5. TypeOK'
    BY <1>2, <2>1, <2>2, <2>3, <2>4 DEF Next
  <2> QED BY <1>2, <2>5, StepCarriesOne
<1> QED BY <1>1, <1>2

LEMMA TypeInvSpec == Spec => []TypeInv
<1>1. Init => TypeInv
  BY InitType DEF TypeInv, Init, CallsCarryOne
<1> QED BY <1>1, TypeInvNext, PTL DEF Spec

\* Every variable keeps its type, in any number of processes.
THEOREM TypeCorrect == Spec => []TypeOK
<1>1. TypeInv => TypeOK
  BY DEF TypeInv
<1> QED BY <1>1, TypeInvSpec, PTL

-----------------------------------------------------------------------------
(* Manifests.                                                              *)

\* link(2) is what publishes a manifest and rm all that ever touches it again: in any
\* number of processes, whatever they interleave, a published manifest is never replaced.
THEOREM ManifestsNeverReplaced == Spec => ManifestImmutable
<1> DEFINE Kept(r) == HasManifest(r) => manifest'[r] \in {manifest[r], <<>>}
<1>1. TypeInv /\ [Next]_vars => [\A r \in Runs : Kept(r)]_vars
  <2> SUFFICES ASSUME TypeInv, Next, NEW r \in Runs PROVE Kept(r)
    OBVIOUS
  <2> USE DEF TypeInv
  <2>1. ASSUME NEW c \in Clients, CallAppend(c) \/ CallCommit(c) \/ CallStale(c)
        PROVE  Kept(r)
    BY <2>1 DEF CallAppend, CallCommit, CallChained, CallStale, files
  <2>2. ASSUME NEW c \in Clients, EvictRemove(c) PROVE Kept(r)
    BY <2>2 DEF EvictRemove, TypeOK
  <2>3. ASSUME NEW c \in Clients, CommitLink(c) PROVE Kept(r)
    BY <2>3 DEF CommitLink, LinkFree, TypeOK
  <2>4. ASSUME NEW c \in Clients, Step(c), ~EvictRemove(c), ~CommitLink(c) PROVE Kept(r)
    BY <2>4 DEF Step, AppendOpen, AppendRead, AppendWrite, EvictScan, CommitOpen, WriteFails,
                StaleRead, StaleOpen, StaleWrite, files
  <2>5. ASSUME NEW p \in Procs, Crash(p) \/ Restart(p) PROVE Kept(r)
    BY <2>5 DEF Crash, Restart, files
  <2> QED BY <2>1, <2>2, <2>3, <2>4, <2>5 DEF Next
<1> QED BY <1>1, TypeInvSpec, PTL DEF Spec, ManifestImmutable

-----------------------------------------------------------------------------
(* One process, markStale alone.                                           *)

\* The chain: only the call at its head is at work.
OneAtATime == \A c \in Clients : pc[c] \in Active => Running(c)

\* markStale overlaps no other call.
StaleIsAlone ==
  \A c \in Clients : pc[c] \in StalePc =>
    /\ call[c].kind = "stale"
    /\ \A d \in Clients \ {c} : pc[d] \in {"idle", "down"}

\* The clients of a process stop together.
DownTogether == \A c, d \in Clients : pc[c] = "down" => pc[d] = "down"

\* What a call found out about its run still holds when it acts on it.
CheckedOf(c) ==
  LET r == call[c].run
  IN /\ pc[c] \in {"read", "write"} \cup StalePc => ~HasManifest(r)
     /\ pc[c] = "link" => ~HasLegacy(r)
     /\ pc[c] \in {"idle", "down", "queued", "read"} => buf[c] = <<>>
     /\ pc[c] \in {"write", "staleOpen"} => r \notin torn /\ buf[c] = legacy[r]
     /\ pc[c] = "staleWrite" => Ids(buf[c]) = stored[r]

Checked == \A c \in Clients : CheckedOf(c)

\* A file that exists truncated has no content; the next reader throws.
TornIsEmpty == \A r \in torn : legacy[r] = <<>>

\* The part of the invariant about the calls, and the part about the files.
CallsInv == OneAtATime /\ StaleIsAlone /\ DownTogether /\ Checked

FilesInv == TornIsEmpty /\ OneModePerRun /\ NoRevisionLost

InOneProcess == TypeInv /\ CallsInv /\ FilesInv

\* While a call takes a step inside the chain, or a markStale takes one, every other
\* client is waiting.
LEMMA WorkingAlone ==
  ASSUME OneProcess, TypeOK, OneAtATime, StaleIsAlone, NEW c \in Clients, Step(c)
  PROVE  /\ \A d \in Clients \ {c} : pc[d] \in {"idle", "down", "queued"}
         /\ pc[c] \in StalePc \/ Running(c)
         /\ pc[c] \notin {"idle", "down"}
<1>1. pc[c] \in StalePc \/ Running(c)
  BY DEF Step, AppendOpen, AppendRead, AppendWrite, EvictScan, EvictRemove, CommitOpen,
         CommitLink, WriteFails, StaleRead, StaleOpen, StaleWrite, OneAtATime, Active, StalePc
<1>2. pc[c] \in Active \cup StalePc \cup {"queued"}
  BY DEF Step, AppendOpen, AppendRead, AppendWrite, EvictScan, EvictRemove, CommitOpen,
         CommitLink, WriteFails, StaleRead, StaleOpen, StaleWrite, Active, StalePc
<1>3. ASSUME NEW d \in Clients \ {c}
      PROVE  pc[d] \in {"idle", "down", "queued"}
  <2>1. CASE pc[c] \in StalePc
    BY <2>1 DEF StaleIsAlone
  <2>2. CASE pc[c] \notin StalePc
    <3>1. pc[d] \notin StalePc
      BY <1>2, <2>2 DEF StaleIsAlone, Active, StalePc
    <3>2. pc[d] \notin Active
      <4>1. SUFFICES ASSUME Running(d) PROVE FALSE
        BY DEF OneAtATime
      <4>2. ProcOf[c] = ProcOf[d]
        BY DEF OneProcess
      <4> QED BY <1>1, <2>2, <4>1, <4>2 DEF Running
    <3> QED BY <3>1, <3>2 DEF TypeOK, PcValues, Active, StalePc
  <2> QED BY <2>1, <2>2
<1> QED BY <1>1, <1>2, <1>3 DEF Active, StalePc

\* A step of a call touches no other call, and the call stays at work only where it was.
LEMMA StepFrame ==
  ASSUME TypeOK, NEW c \in Clients, Step(c)
  PROVE  /\ \A d \in Clients \ {c} : /\ pc'[d] = pc[d]
                                      /\ call'[d] = call[d]
                                      /\ buf'[d] = buf[d]
         /\ pc'[c] # "down"
         /\ \/ pc'[c] = "idle" /\ buf'[c] = <<>>
            \/ /\ UNCHANGED <<call, queue>>
               /\ pc[c] \in StalePc <=> pc'[c] \in StalePc
               /\ pc'[c] # "queued"
<1>1. CASE Settle(c)
  BY <1>1 DEF Settle, TypeOK
<1>2. CASE ~Settle(c)
  <2>1. /\ UNCHANGED <<call, queue>>
        /\ \A d \in Clients \ {c} : pc'[d] = pc[d] /\ buf'[d] = buf[d]
    BY <1>2 DEF Step, AppendOpen, AppendRead, AppendWrite, EvictScan, EvictRemove, CommitOpen,
                CommitLink, WriteFails, StaleRead, StaleOpen, StaleWrite, Throw, TypeOK
  <2>2. /\ pc'[c] \notin {"down", "queued"}
        /\ pc[c] \in StalePc <=> pc'[c] \in StalePc
    BY <1>2 DEF Step, AppendOpen, AppendRead, AppendWrite, EvictScan, EvictRemove, CommitOpen,
                CommitLink, WriteFails, StaleRead, StaleOpen, StaleWrite, Throw, TypeOK, StalePc
  <2> QED BY <2>1, <2>2
<1> QED BY <1>1, <1>2

\* So a step keeps CallsInv if it keeps what its own call has checked.
LEMMA StepCallsInv ==
  ASSUME OneProcess, TypeOK, CallsInv, NEW c \in Clients, Step(c), CheckedOf(c)'
  PROVE  CallsInv'
<1> USE DEF CallsInv
<1>1. /\ \A d \in Clients \ {c} : pc[d] \in {"idle", "down", "queued"}
      /\ pc[c] \in StalePc \/ Running(c)
      /\ pc[c] \notin {"idle", "down"}
  BY WorkingAlone
<1>2. \A d \in Clients \ {c} : pc'[d] = pc[d] /\ call'[d] = call[d] /\ buf'[d] = buf[d]
  BY StepFrame
<1>3. pc'[c] # "down"
  BY StepFrame
<1>4. \/ pc'[c] = "idle"
      \/ /\ UNCHANGED <<call, queue>>
         /\ pc[c] \in StalePc <=> pc'[c] \in StalePc
  BY StepFrame
<1>5. OneAtATime'
  <2>1. SUFFICES ASSUME pc'[c] \in Active PROVE Running(c)'
    BY <1>1, <1>2 DEF OneAtATime, Active
  <2>2. UNCHANGED queue /\ pc[c] \notin StalePc
    BY <1>4, <2>1 DEF Active, StalePc
  <2> QED BY <1>1, <2>2 DEF Running
<1>6. StaleIsAlone'
  <2>1. SUFFICES ASSUME pc'[c] \in StalePc
                 PROVE  /\ call'[c].kind = "stale"
                        /\ \A d \in Clients \ {c} : pc'[d] \in {"idle", "down"}
    BY <1>1, <1>2 DEF StaleIsAlone, StalePc
  <2>2. call' = call /\ pc[c] \in StalePc
    BY <1>4, <2>1 DEF StalePc
  <2> QED BY <1>2, <2>2 DEF StaleIsAlone
<1>7. DownTogether'
  BY <1>1, <1>2, <1>3 DEF DownTogether
<1>8. ASSUME NEW d \in Clients \ {c}
      PROVE  CheckedOf(d)'
  BY <1>1, <1>2 DEF Checked, CheckedOf, StalePc
<1> QED BY <1>5, <1>6, <1>7, <1>8 DEF Checked

\* A call that has settled has nothing checked left to keep.
LEMMA SettledChecked ==
  ASSUME TypeOK, NEW c \in Clients, Settle(c)
  PROVE  CheckedOf(c)'
BY DEF Settle, CheckedOf, StalePc, TypeOK

LEMMA QuietFiles ==
  ASSUME FilesInv, UNCHANGED <<files, stored>>
  PROVE  FilesInv'
BY DEF FilesInv, TornIsEmpty, OneModePerRun, NoRevisionLost, HasLegacy, HasManifest, files

\* The steps that only look at the files: what they check is what they saw.
LEMMA LookChecked ==
  ASSUME TypeOK, Checked, TornIsEmpty, NEW c \in Clients,
         AppendOpen(c) \/ AppendRead(c) \/ EvictScan(c) \/ CommitOpen(c) \/ WriteFails(c) \/ StaleRead(c)
  PROVE  CheckedOf(c)' /\ UNCHANGED <<files, stored>>
<1>0. UNCHANGED <<files, stored>>
  BY DEF AppendOpen, AppendRead, EvictScan, CommitOpen, WriteFails, StaleRead
<1>1. CASE Settle(c)
  BY <1>0, <1>1, SettledChecked
<1>2. CASE AppendOpen(c) /\ ~Settle(c)
  <2>1. /\ pc' = [pc EXCEPT ![c] = IF HasLegacy(call[c].run) THEN "read" ELSE "write"]
        /\ ~HasManifest(call[c].run)
        /\ call' = call /\ buf' = buf /\ buf[c] = <<>>
    BY <1>2 DEF AppendOpen, AppendRefuse, Refusable, Throw, Checked, CheckedOf
  <2> QED BY <1>0, <2>1 DEF CheckedOf, StalePc, HasManifest, HasLegacy, files, TypeOK
<1>3. CASE AppendRead(c) /\ ~Settle(c)
  <2>1. /\ pc' = [pc EXCEPT ![c] = "write"] /\ call' = call
        /\ buf' = [buf EXCEPT ![c] = legacy[call[c].run]]
        /\ legacy[call[c].run] # <<>>
        /\ ~HasManifest(call[c].run)
    BY <1>3 DEF AppendRead, Throw, Checked, CheckedOf
  <2>2. call[c].run \notin torn
    BY <2>1 DEF TornIsEmpty
  <2> QED BY <1>0, <2>1, <2>2 DEF CheckedOf, StalePc, HasManifest, files, TypeOK
<1>4. CASE EvictScan(c) /\ ~Settle(c)
  <2>1. pc' = [pc EXCEPT ![c] = "remove"]
    BY <1>4 DEF EvictScan, Throw
  <2> QED BY <1>0, <2>1 DEF CheckedOf, StalePc, TypeOK
<1>5. CASE CommitOpen(c) /\ ~Settle(c)
  <2>1. pc' = [pc EXCEPT ![c] = "link"] /\ call' = call /\ ~HasLegacy(call[c].run)
    BY <1>5 DEF CommitOpen, Throw
  <2> QED BY <1>0, <2>1 DEF CheckedOf, StalePc, HasLegacy, files, TypeOK
<1>6. CASE StaleRead(c) /\ ~Settle(c)
  <2>1. /\ pc' = [pc EXCEPT ![c] = "staleOpen"] /\ call' = call
        /\ buf' = [buf EXCEPT ![c] = legacy[call[c].run]]
        /\ call[c].from \in Ids(legacy[call[c].run])
        /\ ~HasManifest(call[c].run)
    BY <1>6 DEF StaleRead, Throw, Checked, CheckedOf, StalePc, CanCascade
  <2>2. legacy[call[c].run] # <<>>
    BY <2>1 DEF Ids
  <2>3. call[c].run \notin torn
    BY <2>2 DEF TornIsEmpty
  <2> QED BY <1>0, <2>1, <2>3 DEF CheckedOf, StalePc, HasManifest, files, TypeOK
<1> QED BY <1>1, <1>2, <1>3, <1>4, <1>5, <1>6 DEF WriteFails, Throw

\* append's write adds one revision to the bundle it read, which is still the one on disk.
LEMMA AppendWriteFiles ==
  ASSUME TypeInv, Checked, FilesInv, NEW c \in Clients, AppendWrite(c)
  PROVE  CheckedOf(c)' /\ FilesInv'
<1> USE DEF TypeInv
<1>1. PICK r \in Runs : r = call[c].run
  BY DEF TypeOK, Calls
<1>2. PICK e : e = call[c].revs[1]
  OBVIOUS
<1>3. e \in Entries(Ids0, Stamps) /\ Ids(call[c].revs) = {e.id}
  <2>1. call[c].revs \in Bundles /\ Len(call[c].revs) = 1
    BY DEF TypeOK, Calls, Bundles, AppendWrite, CallsCarryOne
  <2>2. DOMAIN call[c].revs = {1}
    BY <2>1, LenProperties DEF Bundles
  <2> QED BY <1>2, <2>1, <2>2, ElementOfSeq DEF Bundles, Ids
<1>4. ~HasManifest(r) /\ r \notin torn /\ buf[c] = legacy[r]
  BY <1>1 DEF AppendWrite, Checked, CheckedOf
<1>5. legacy \in [Runs -> Bundles] /\ buf[c] \in Bundles
  BY DEF TypeOK, Bundles
<1>6. PICK b : b = Append(buf[c], e)
  OBVIOUS
<1>7. Ids(b) = stored[r] \cup {e.id}
  <2>1. Ids(buf[c]) = stored[r]
    BY <1>4 DEF FilesInv, NoRevisionLost
  <2> QED BY <1>3, <1>5, <1>6, <2>1, AppendIds DEF Bundles
<1>8. /\ legacy' = [legacy EXCEPT ![r] = b]
      /\ torn' = torn \ {r}
      /\ stored' = [stored EXCEPT ![r] = @ \cup {e.id}]
      /\ manifest' = manifest
      /\ pc' = [pc EXCEPT ![c] = "scan"]
  BY <1>1, <1>2, <1>3, <1>6 DEF AppendWrite, SetLegacy
<1>9. CheckedOf(c)'
  BY <1>8 DEF CheckedOf, StalePc, TypeOK
<1>10. TornIsEmpty'
  BY <1>5, <1>8 DEF FilesInv, TornIsEmpty, TypeOK
<1>11. OneModePerRun'
  BY <1>4, <1>5, <1>8 DEF FilesInv, OneModePerRun, HasLegacy, HasManifest
<1>12. NoRevisionLost'
  BY <1>5, <1>7, <1>8 DEF FilesInv, NoRevisionLost, TypeOK
<1> QED BY <1>9, <1>10, <1>11, <1>12 DEF FilesInv

\* Eviction deletes the whole run, its history included, and never makes a file.
LEMMA EvictRemoveFiles ==
  ASSUME TypeOK, FilesInv, NEW c \in Clients, EvictRemove(c)
  PROVE  CheckedOf(c)' /\ FilesInv'
<1>1. PICK x \in doomed[c] :
       /\ IF x.mode = "semantic" THEN UNCHANGED <<legacy, torn, handles, stored>>
          ELSE /\ SetLegacy(x.run, <<>>)
               /\ stored' = [stored EXCEPT ![x.run] = {}]
       /\ manifest' = IF x.mode = "legacy" THEN manifest
                      ELSE [manifest EXCEPT ![x.run] = <<>>]
       /\ IF doomed[c] = {x} THEN Settle(c)
          ELSE /\ doomed' = [doomed EXCEPT ![c] = @ \ {x}]
               /\ UNCHANGED <<pc, call, buf, queue>>
  BY DEF EvictRemove
<1>2. CheckedOf(c)'
  <2>1. CASE doomed[c] = {x}
    BY <1>1, <2>1, SettledChecked
  <2>2. CASE doomed[c] # {x}
    BY <1>1, <2>2 DEF CheckedOf, EvictRemove, StalePc
  <2> QED BY <2>1, <2>2
<1>3. PICK k \in Runs : k = x.run
  BY DEF TypeOK, DoomedRecords
<1>4. \/ UNCHANGED <<legacy, torn, stored>>
      \/ /\ legacy' = [legacy EXCEPT ![k] = <<>>]
         /\ torn' = torn \ {k}
         /\ stored' = [stored EXCEPT ![k] = {}]
  BY <1>1, <1>3 DEF SetLegacy
<1>5. manifest' = manifest \/ manifest' = [manifest EXCEPT ![k] = <<>>]
  BY <1>1, <1>3
<1>6. Ids(<<>>) = {}
  BY DEF Ids
<1>7. TornIsEmpty'
  BY <1>4 DEF FilesInv, TornIsEmpty, TypeOK
<1>8. OneModePerRun'
  BY <1>4, <1>5 DEF FilesInv, OneModePerRun, HasLegacy, HasManifest, TypeOK
<1>9. NoRevisionLost'
  BY <1>4, <1>6 DEF FilesInv, NoRevisionLost, TypeOK
<1> QED BY <1>2, <1>7, <1>8, <1>9 DEF FilesInv

\* A manifest is linked only where the call found no bundle, and there is still none.
LEMMA CommitLinkFiles ==
  ASSUME TypeOK, Checked, FilesInv, NEW c \in Clients, CommitLink(c)
  PROVE  CheckedOf(c)' /\ FilesInv'
<1>1. CheckedOf(c)'
  BY SettledChecked DEF CommitLink
<1>2. PICK r \in Runs : r = call[c].run
  BY DEF TypeOK, Calls
<1>3. ~HasLegacy(r)
  BY <1>2 DEF CommitLink, Checked, CheckedOf
<1>4. UNCHANGED <<legacy, torn, stored>> /\ \A k \in Runs \ {r} : manifest'[k] = manifest[k]
  BY <1>2 DEF CommitLink, TypeOK
<1>5. OneModePerRun'
  BY <1>3, <1>4 DEF FilesInv, OneModePerRun, HasLegacy, HasManifest
<1> QED BY <1>1, <1>4, <1>5 DEF FilesInv, TornIsEmpty, NoRevisionLost

\* markStale truncates a file that is the bundle it read.
LEMMA StaleOpenFiles ==
  ASSUME TypeOK, Checked, FilesInv, NEW c \in Clients, StaleOpen(c)
  PROVE  CheckedOf(c)' /\ FilesInv'
<1>1. PICK r \in Runs : r = call[c].run
  BY DEF TypeOK, Calls
<1>2. ~HasManifest(r) /\ r \notin torn /\ buf[c] = legacy[r]
  BY <1>1 DEF StaleOpen, Checked, CheckedOf, StalePc
<1>3. /\ legacy' = [legacy EXCEPT ![r] = <<>>] /\ torn' = torn \cup {r}
      /\ pc' = [pc EXCEPT ![c] = "staleWrite"]
      /\ UNCHANGED <<manifest, call, buf, stored>>
  BY <1>1 DEF StaleOpen
<1>4. Ids(buf[c]) = stored[r]
  BY <1>2 DEF FilesInv, NoRevisionLost
<1>5. CheckedOf(c)'
  BY <1>1, <1>2, <1>3, <1>4 DEF CheckedOf, StalePc, HasManifest, TypeOK
<1>6. TornIsEmpty'
  BY <1>3 DEF FilesInv, TornIsEmpty, TypeOK
<1>7. OneModePerRun'
  BY <1>2, <1>3 DEF FilesInv, OneModePerRun, HasLegacy, HasManifest, TypeOK
<1>8. NoRevisionLost'
  BY <1>3 DEF FilesInv, NoRevisionLost, TypeOK
<1> QED BY <1>5, <1>6, <1>7, <1>8 DEF FilesInv

\* ... and fills it with the same revisions, some of them staled.
LEMMA StaleWriteFiles ==
  ASSUME TypeOK, Checked, FilesInv, NEW c \in Clients, StaleWrite(c)
  PROVE  CheckedOf(c)' /\ FilesInv'
<1>1. PICK r \in Runs : r = call[c].run
  BY DEF TypeOK, Calls
<1>2. PICK b : b = StaleIn(buf[c], Cascade(buf[c], call[c].from))
  OBVIOUS
<1>3. ~HasManifest(r) /\ Ids(buf[c]) = stored[r]
  BY <1>1 DEF StaleWrite, Checked, CheckedOf, StalePc
<1>4. Ids(b) = stored[r]
  BY <1>2, <1>3, StaleInKeepsIds DEF TypeOK
<1>5. /\ UNCHANGED <<manifest, stored>>
      /\ \/ UNCHANGED <<legacy, torn>>
         \/ legacy' = [legacy EXCEPT ![r] = b] /\ torn' = torn \ {r}
  BY <1>1, <1>2 DEF StaleWrite
<1>6. CheckedOf(c)'
  BY SettledChecked DEF StaleWrite
<1>7. TornIsEmpty'
  BY <1>5 DEF FilesInv, TornIsEmpty, TypeOK
<1>8. OneModePerRun'
  BY <1>3, <1>5 DEF FilesInv, OneModePerRun, HasLegacy, HasManifest, TypeOK
<1>9. NoRevisionLost'
  BY <1>4, <1>5 DEF FilesInv, NoRevisionLost, TypeOK
<1> QED BY <1>6, <1>7, <1>8, <1>9 DEF FilesInv

LEMMA StepInv ==
  ASSUME OneProcess, InOneProcess, NEW c \in Clients, Step(c)
  PROVE  CallsInv' /\ FilesInv'
<1> USE DEF InOneProcess, TypeInv
<1>1. CheckedOf(c)' /\ FilesInv'
  <2>1. CASE \/ AppendOpen(c) \/ AppendRead(c) \/ EvictScan(c)
             \/ CommitOpen(c) \/ WriteFails(c) \/ StaleRead(c)
    BY <2>1, LookChecked, QuietFiles DEF CallsInv, FilesInv
  <2>2. CASE AppendWrite(c)
    BY <2>2, AppendWriteFiles DEF CallsInv
  <2>3. CASE EvictRemove(c)
    BY <2>3, EvictRemoveFiles
  <2>4. CASE CommitLink(c)
    BY <2>4, CommitLinkFiles DEF CallsInv
  <2>5. CASE StaleOpen(c)
    BY <2>5, StaleOpenFiles DEF CallsInv
  <2>6. CASE StaleWrite(c)
    BY <2>6, StaleWriteFiles DEF CallsInv
  <2> QED BY <2>1, <2>2, <2>3, <2>4, <2>5, <2>6 DEF Step
<1> QED BY <1>1, StepCallsInv

\* A call that joins the chain finds no markStale at work, and runs when it is its turn.
LEMMA CallChainedInv ==
  ASSUME StaleAlone, InOneProcess, NEW c \in Clients, NEW kind \in {"append", "commit"},
         CallChained(c, kind)
  PROVE  CallsInv' /\ FilesInv'
<1> USE DEF InOneProcess, TypeInv, CallsInv
<1>1. FilesInv'
  BY QuietFiles DEF CallChained
<1>2. /\ pc' = [pc EXCEPT ![c] = "queued"] /\ pc[c] = "idle"
      /\ UNCHANGED <<legacy, manifest, torn, stored, buf>>
      /\ queue' = [queue EXCEPT ![ProcOf[c]] = Append(@, c)]
      /\ \A d \in Clients \ {c} : call'[d] = call[d]
  BY DEF CallChained, files, TypeOK
<1>3. \A d \in Clients : pc[d] \notin StalePc
  BY DEF CallChained, MayOverlap, StaleIsAlone
<1>4. ASSUME NEW d \in Clients, pc'[d] \in Active PROVE Running(d)'
  <2>1. Running(d)
    BY <1>2, <1>4 DEF OneAtATime, Active, TypeOK
  <2>2. queue[ProcOf[d]] \in Seq(Clients) /\ queue[ProcOf[c]] \in Seq(Clients)
    BY LocalAssumption DEF TypeOK
  <2>3. CASE ProcOf[d] = ProcOf[c]
    <3>1. queue'[ProcOf[d]] = Append(queue[ProcOf[d]], c)
      BY <1>2, <2>3, LocalAssumption DEF TypeOK
    <3>2. Len(queue[ProcOf[d]]) \in Nat \ {0}
      BY <2>1, <2>2, EmptySeq DEF Running
    <3>3. Append(queue[ProcOf[d]], c) # <<>> /\ Head(Append(queue[ProcOf[d]], c)) = Head(queue[ProcOf[d]])
      BY <2>2, <3>2, AppendHolds
    <3> QED BY <2>1, <3>1, <3>3 DEF Running
  <2>4. CASE ProcOf[d] # ProcOf[c]
    BY <1>2, <2>1, <2>4, LocalAssumption DEF Running, TypeOK
  <2> QED BY <2>3, <2>4
<1>5. StaleIsAlone'
  BY <1>2, <1>3 DEF StaleIsAlone, StalePc, TypeOK
<1>6. DownTogether'
  BY <1>2 DEF DownTogether, TypeOK
<1>7. Checked'
  BY <1>2 DEF Checked, CheckedOf, HasManifest, HasLegacy, StalePc, TypeOK
<1> QED BY <1>1, <1>4, <1>5, <1>6, <1>7 DEF OneAtATime

\* A markStale that starts finds every other client waiting for nothing.
LEMMA CallStaleInv ==
  ASSUME StaleAlone, InOneProcess, NEW c \in Clients, CallStale(c)
  PROVE  CallsInv' /\ FilesInv'
<1> USE DEF InOneProcess, TypeInv, CallsInv
<1>1. FilesInv'
  BY QuietFiles DEF CallStale
<1>2. /\ pc' = [pc EXCEPT ![c] = "staleRead"] /\ pc[c] = "idle"
      /\ UNCHANGED <<legacy, manifest, torn, stored, buf, queue>>
      /\ \A d \in Clients \ {c} : call'[d] = call[d]
      /\ \A d \in Clients : pc[d] \in {"idle", "down"}
  BY DEF CallStale, files, TypeOK, MayOverlap
<1>3. call'[c].kind = "stale" /\ ~HasManifest(call'[c].run)
  <2>1. PICK r \in Runs : \E i \in issued \cup {0} :
          /\ ~HasManifest(r)
          /\ call' = [call EXCEPT ![c] = [kind |-> "stale", run |-> r, revs |-> <<>>, from |-> i]]
    BY DEF CallStale
  <2> QED BY <2>1 DEF TypeOK
<1>4. OneAtATime'
  BY <1>2 DEF OneAtATime, Active, TypeOK
<1>5. StaleIsAlone'
  BY <1>2, <1>3 DEF StaleIsAlone, StalePc, TypeOK
<1>6. DownTogether'
  BY <1>2 DEF DownTogether, TypeOK
<1>7. ASSUME NEW d \in Clients \ {c} PROVE CheckedOf(d)'
  BY <1>2 DEF Checked, CheckedOf, StalePc, TypeOK
<1>8. CheckedOf(c)'
  BY <1>2, <1>3 DEF CheckedOf, HasManifest, StalePc, TypeOK
<1> QED BY <1>1, <1>4, <1>5, <1>6, <1>7, <1>8 DEF Checked

\* Everything stops at once, and starts again with nothing in progress.
LEMMA CrashRestartInv ==
  ASSUME OneProcess, InOneProcess, NEW p \in Procs, Crash(p) \/ Restart(p)
  PROVE  CallsInv' /\ FilesInv'
<1> USE DEF InOneProcess, TypeInv, CallsInv
<1>1. \A c \in Clients : ProcOf[c] = p
  BY DEF Crash, Restart, OneProcess
<1>2. FilesInv'
  BY DEF Crash, Restart, files, FilesInv, TornIsEmpty, OneModePerRun, NoRevisionLost,
         HasLegacy, HasManifest
<1>3. CASE Crash(p)
  <2>1. \A c \in Clients : pc'[c] = "down" /\ buf'[c] = <<>>
    BY <1>1, <1>3 DEF Crash
  <2> QED BY <1>2, <2>1 DEF OneAtATime, StaleIsAlone, DownTogether, Checked, CheckedOf, Active, StalePc
<1>4. CASE Restart(p)
  <2>1. \A c \in Clients : pc[c] = "down"
    BY <1>4 DEF Restart, DownTogether
  <2>2. \A c \in Clients : pc'[c] = "idle" /\ buf'[c] = <<>>
    BY <1>1, <1>4, <2>1 DEF Restart, Checked, CheckedOf
  <2> QED BY <1>2, <2>2 DEF OneAtATime, StaleIsAlone, DownTogether, Checked, CheckedOf, Active, StalePc
<1> QED BY <1>3, <1>4

LEMMA InOneProcessNext ==
  OneProcess /\ StaleAlone /\ InOneProcess /\ [Next]_vars => InOneProcess'
<1> SUFFICES ASSUME OneProcess, StaleAlone, InOneProcess, [Next]_vars PROVE InOneProcess'
  OBVIOUS
<1>1. TypeInv'
  BY TypeInvNext DEF InOneProcess
<1>2. CASE UNCHANGED vars
  <2>1. CallsInv'
    BY <1>2 DEF vars, InOneProcess, CallsInv, OneAtATime, Running, StaleIsAlone, DownTogether,
                Checked, CheckedOf, HasManifest, HasLegacy
  <2>2. FilesInv'
    BY <1>2, QuietFiles DEF vars, files, InOneProcess
  <2> QED BY <1>1, <2>1, <2>2 DEF InOneProcess
<1>3. CASE Next
  <2>1. CallsInv' /\ FilesInv'
    BY <1>3, StepInv, CallChainedInv, CallStaleInv, CrashRestartInv DEF Next, CallAppend, CallCommit
  <2> QED BY <1>1, <2>1 DEF InOneProcess
<1> QED BY <1>2, <1>3

LEMMA InOneProcessInit == Init => InOneProcess
<1> SUFFICES ASSUME Init PROVE InOneProcess
  OBVIOUS
<1>1. TypeInv
  BY InitType DEF TypeInv, Init, CallsCarryOne
<1>2. CallsInv
  BY DEF Init, CallsInv, OneAtATime, StaleIsAlone, DownTogether, Checked, CheckedOf, Active, StalePc
<1>3. FilesInv
  BY DEF Init, FilesInv, TornIsEmpty, OneModePerRun, NoRevisionLost, HasManifest
<1> QED BY <1>1, <1>2, <1>3 DEF InOneProcess

\* In one process whose callers keep markStale to itself, no run is ever held in both
\* formats: append's check for a manifest and commitManifest's for a bundle both still
\* hold when the write happens, because `serialise` lets nothing in between.
THEOREM OneModeInOneProcess ==
  ASSUME OneProcess, StaleAlone
  PROVE  Spec => []OneModePerRun
<1>1. InOneProcess => OneModePerRun
  BY DEF InOneProcess, FilesInv
<1>2. InOneProcess /\ [Next]_vars => InOneProcess'
  BY InOneProcessNext
<1> QED BY <1>1, <1>2, InOneProcessInit, PTL DEF Spec

\* Under the same conditions no acknowledged revision is ever lost, whatever crashes:
\* what is read in the chain is still on disk when it is written back.
THEOREM NothingLostInOneProcess ==
  ASSUME OneProcess, StaleAlone
  PROVE  Spec => []NoRevisionLost
<1>1. InOneProcess => NoRevisionLost
  BY DEF InOneProcess, FilesInv
<1>2. InOneProcess /\ [Next]_vars => InOneProcess'
  BY InOneProcessNext
<1> QED BY <1>1, <1>2, InOneProcessInit, PTL DEF Spec

-----------------------------------------------------------------------------
(* What a reader finds. A file is torn only while the markStale that       *)
(* truncated it has still to fill it, and then nobody else is at work: as  *)
(* long as no crash leaves one behind.                                     *)

TornIsHeld ==
  \A r \in torn : \E c \in Clients : pc[c] = "staleWrite" /\ call[c].run = r /\ c \in handles[r]

LEMMA TornIsHeldInit == Init => TornIsHeld
BY DEF Init, TornIsHeld

LEMMA TornIsHeldNext ==
  OneProcess /\ StaleAlone /\ MaxCrashes = 0 /\ InOneProcess /\ TornIsHeld /\ [Next]_vars
    => TornIsHeld'
<1> SUFFICES ASSUME OneProcess, StaleAlone, MaxCrashes = 0, InOneProcess, TornIsHeld, [Next]_vars
             PROVE  TornIsHeld'
  OBVIOUS
<1> USE DEF InOneProcess, TypeInv, CallsInv
<1>1. ASSUME UNCHANGED files, \A c \in Clients : pc[c] = "staleWrite" =>
                                pc'[c] = "staleWrite" /\ call'[c] = call[c]
      PROVE  TornIsHeld'
  BY <1>1 DEF TornIsHeld, files
<1>2. CASE UNCHANGED vars
  BY <1>1, <1>2 DEF vars, files
<1>3. ASSUME NEW c \in Clients, CallAppend(c) \/ CallCommit(c) \/ CallStale(c)
      PROVE  TornIsHeld'
  <2>1. /\ UNCHANGED files /\ pc[c] = "idle"
        /\ \A d \in Clients \ {c} : pc'[d] = pc[d] /\ call'[d] = call[d]
    BY <1>3 DEF CallAppend, CallCommit, CallChained, CallStale, TypeOK
  <2> QED BY <1>1, <2>1
<1>4. ASSUME NEW p \in Procs, Crash(p) \/ Restart(p)
      PROVE  TornIsHeld'
  <2>1. ~Crash(p)
    BY DEF Crash, TypeOK
  <2>2. UNCHANGED files /\ call' = call /\ \A c \in Clients : pc[c] = "down"
    BY <1>4, <2>1 DEF Restart, DownTogether
  <2> QED BY <1>1, <2>2
<1>5. ASSUME NEW c \in Clients, Step(c)
      PROVE  TornIsHeld'
  <2>1. \A d \in Clients \ {c} : pc[d] # "staleWrite"
    BY <1>5, WorkingAlone
  <2>2. CASE StaleWrite(c)
    <3>1. \A r \in torn : r = call[c].run /\ c \in handles[r]
      BY <2>1 DEF TornIsHeld
    <3>2. torn' = {}
      <4>1. CASE c \in handles[call[c].run]
        BY <2>2, <3>1, <4>1 DEF StaleWrite
      <4>2. CASE c \notin handles[call[c].run]
        BY <2>2, <3>1, <4>2 DEF StaleWrite
      <4> QED BY <4>1, <4>2
    <3> QED BY <3>2 DEF TornIsHeld
  <2>3. CASE ~StaleWrite(c)
    <3>1. pc[c] # "staleWrite"
      BY <1>5, <2>3 DEF Step, AppendOpen, AppendRead, AppendWrite, EvictScan, EvictRemove,
                        CommitOpen, CommitLink, WriteFails, StaleRead, StaleOpen
    <3>2. torn = {}
      BY <2>1, <3>1 DEF TornIsHeld
    <3>3. CASE StaleOpen(c)
      <4>1. /\ torn' = {call[c].run} /\ call' = call
            /\ pc' = [pc EXCEPT ![c] = "staleWrite"]
            /\ handles' = [handles EXCEPT ![call[c].run] = @ \cup {c}]
            /\ call[c].run \in Runs
        BY <3>2, <3>3 DEF StaleOpen, TypeOK, Calls
      <4>2. pc'[c] = "staleWrite" /\ c \in handles'[call[c].run]
        BY <4>1 DEF TypeOK
      <4> QED BY <4>1, <4>2 DEF TornIsHeld
    <3>4. CASE ~StaleOpen(c)
      <4>1. torn' = {}
        BY <1>5, <2>3, <3>2, <3>4
           DEF Step, AppendOpen, AppendRead, AppendWrite, EvictScan, EvictRemove, CommitOpen,
               CommitLink, WriteFails, StaleRead, SetLegacy, files
      <4> QED BY <4>1 DEF TornIsHeld
    <3> QED BY <3>3, <3>4
  <2> QED BY <2>2, <2>3
<1> QED BY <1>2, <1>3, <1>4, <1>5 DEF Next

\* In one process that does not crash, with markStale kept to itself, a call about to read
\* bundles finds each of them whole: a plain writeFile is then as good as writeAtomic's rename.
THEOREM NoReaderFindsATornFile ==
  ASSUME OneProcess, StaleAlone, MaxCrashes = 0
  PROVE  Spec => []ReadersSeeWholeFiles
<1>1. InOneProcess /\ TornIsHeld => ReadersSeeWholeFiles
  <2> SUFFICES ASSUME InOneProcess, TornIsHeld, NEW c \in Clients,
                      pc[c] \in {"scan", "read", "staleRead"}, NEW r \in torn
               PROVE  FALSE
    BY DEF ReadersSeeWholeFiles
  <2>1. PICK d \in Clients : pc[d] = "staleWrite"
    BY DEF TornIsHeld
  <2> QED BY <2>1 DEF InOneProcess, CallsInv, StaleIsAlone, StalePc
<1>2. InOneProcess /\ [Next]_vars => InOneProcess'
  BY InOneProcessNext
<1>3. InOneProcess /\ TornIsHeld /\ [Next]_vars => TornIsHeld'
  BY TornIsHeldNext
<1> QED BY <1>1, <1>2, <1>3, InOneProcessInit, TornIsHeldInit, PTL DEF Spec

-----------------------------------------------------------------------------
(* The bound. What an eviction pass has chosen is all that has to go, and  *)
(* nothing is added before it has: the manifests that came without a pass  *)
(* were there for it to count.                                             *)

\* The runs an eviction pass has still to delete.
RunsOf(D) == {x.run : x \in D}

PassLeaves(c) ==
  pc[c] = "remove" =>
    /\ Cardinality(Held \ RunsOf(doomed[c])) <= MaxBundles
    /\ \A x \in doomed[c] : /\ x.mode = "legacy" => ~HasManifest(x.run)
                            /\ x.mode = "semantic" => ~HasLegacy(x.run)

PassesLeave == \A c \in Clients : PassLeaves(c)

LEMMA HeldFinite == IsFiniteSet(Held) /\ \A D : IsFiniteSet(Held \ D)
<1>1. Held \subseteq Runs
  BY DEF Held
<1> QED BY <1>1, FS_Subset, LocalAssumption

\* An eviction pass that still has a run to delete deletes it, or it is gone.
LEMMA RemovedIsGone ==
  ASSUME TypeOK, NEW c \in Clients, PassLeaves(c), pc[c] = "remove", NEW x \in doomed[c],
         /\ IF x.mode = "semantic" THEN UNCHANGED <<legacy, torn, handles, stored>>
            ELSE /\ SetLegacy(x.run, <<>>)
                 /\ stored' = [stored EXCEPT ![x.run] = {}]
         /\ manifest' = IF x.mode = "legacy" THEN manifest
                        ELSE [manifest EXCEPT ![x.run] = <<>>]
  PROVE  /\ Held' = Held \ {x.run}
         /\ \A r \in Runs : /\ HasLegacy(r)' => HasLegacy(r)
                            /\ HasManifest(r)' => HasManifest(r)
<1>1. PICK k \in Runs : k = x.run
  BY DEF TypeOK, DoomedRecords
<1>2. x.mode \in {"legacy", "semantic", "mixed"}
  BY DEF TypeOK, DoomedRecords
<1>3. /\ x.mode = "legacy" => ~HasManifest(k)
      /\ x.mode = "semantic" => ~HasLegacy(k)
  BY <1>1 DEF PassLeaves
<1>4. CASE x.mode = "semantic"
  <2>1. UNCHANGED <<legacy, torn>> /\ manifest' = [manifest EXCEPT ![k] = <<>>]
    BY <1>1, <1>4
  <2> QED BY <1>1, <1>3, <1>4, <2>1 DEF Held, HasLegacy, HasManifest, TypeOK
<1>5. CASE x.mode = "legacy"
  <2>1. legacy' = [legacy EXCEPT ![k] = <<>>] /\ torn' = torn \ {k} /\ manifest' = manifest
    BY <1>1, <1>5 DEF SetLegacy
  <2> QED BY <1>1, <1>3, <1>5, <2>1 DEF Held, HasLegacy, HasManifest, TypeOK
<1>6. CASE x.mode = "mixed"
  <2>1. /\ legacy' = [legacy EXCEPT ![k] = <<>>] /\ torn' = torn \ {k}
        /\ manifest' = [manifest EXCEPT ![k] = <<>>]
    BY <1>1, <1>6 DEF SetLegacy
  <2> QED BY <1>1, <2>1 DEF Held, HasLegacy, HasManifest, TypeOK
<1> QED BY <1>2, <1>4, <1>5, <1>6

LEMMA PassesLeaveInit == Init => PassesLeave
BY DEF Init, PassesLeave, PassLeaves

LEMMA ScanLeaves ==
  ASSUME TypeOK, NEW c \in Clients, EvictScan(c)
  PROVE  /\ PassLeaves(c)'
         /\ pc'[c] = "idle" /\ torn = {} => Cardinality(Held') <= MaxBundles
<1>0. /\ UNCHANGED files /\ Held' = Held /\ MaxBundles \in Nat
      /\ \A r : (HasLegacy(r)' <=> HasLegacy(r)) /\ (HasManifest(r)' <=> HasManifest(r))
  BY LocalAssumption DEF EvictScan, files, Held, HasLegacy, HasManifest
<1>1. CASE torn # {}
  <2>1. pc'[c] = "idle"
    BY <1>1 DEF EvictScan, Throw, Settle, TypeOK
  <2> QED BY <1>1, <2>1 DEF PassLeaves
<1>2. CASE torn = {}
  <2>1. PICK D \in DoomedSets(Held, LastStamp, MaxBundles) :
          IF D = {} THEN Settle(c)
          ELSE /\ doomed' = [doomed EXCEPT ![c] =
                    {[run |-> r, mode |-> Mode(r), stamp |-> LastStamp[r]] : r \in D}]
               /\ pc' = [pc EXCEPT ![c] = "remove"]
    BY <1>2 DEF EvictScan
  <2>2. Cardinality(Held \ D) <= MaxBundles
    BY <1>0, HeldFinite, DoomedLeavesBound
  <2>3. CASE D = {}
    <3>1. pc'[c] = "idle" /\ Held \ D = Held
      BY <2>1, <2>3 DEF Settle, TypeOK
    <3> QED BY <1>0, <2>2, <3>1 DEF PassLeaves
  <2>4. CASE D # {}
    <3>1. /\ doomed'[c] = {[run |-> r, mode |-> Mode(r), stamp |-> LastStamp[r]] : r \in D}
          /\ pc'[c] = "remove"
      BY <2>1, <2>4 DEF TypeOK
    <3>2. RunsOf(doomed'[c]) = D
      <4>1. \A x \in doomed'[c] : x.run \in D
        BY <3>1
      <4>2. ASSUME NEW r \in D PROVE \E x \in doomed'[c] : x.run = r
        <5>1. [run |-> r, mode |-> Mode(r), stamp |-> LastStamp[r]] \in doomed'[c]
          BY <3>1
        <5> QED BY <5>1
      <4> QED BY <4>1, <4>2 DEF RunsOf
    <3>3. ASSUME NEW x \in doomed'[c]
          PROVE  /\ x.mode = "legacy" => ~HasManifest(x.run)
                 /\ x.mode = "semantic" => ~HasLegacy(x.run)
      BY <3>1 DEF Mode
    <3> QED BY <1>0, <2>2, <3>1, <3>2, <3>3 DEF PassLeaves
  <2> QED BY <2>3, <2>4
<1> QED BY <1>1, <1>2

LEMMA RemoveLeaves ==
  ASSUME TypeOK, NEW c \in Clients, EvictRemove(c), PassLeaves(c)
  PROVE  /\ PassLeaves(c)'
         /\ pc'[c] = "idle" => Cardinality(Held') <= MaxBundles
<1>1. PICK x \in doomed[c] :
       /\ IF x.mode = "semantic" THEN UNCHANGED <<legacy, torn, handles, stored>>
          ELSE /\ SetLegacy(x.run, <<>>)
               /\ stored' = [stored EXCEPT ![x.run] = {}]
       /\ manifest' = IF x.mode = "legacy" THEN manifest
                      ELSE [manifest EXCEPT ![x.run] = <<>>]
       /\ IF doomed[c] = {x} THEN Settle(c)
          ELSE /\ doomed' = [doomed EXCEPT ![c] = @ \ {x}]
               /\ UNCHANGED <<pc, call, buf, queue>>
  BY DEF EvictRemove
<1>2. pc[c] = "remove" /\ MaxBundles \in Nat
  BY LocalAssumption DEF EvictRemove
<1>3. /\ Held' = Held \ {x.run}
      /\ \A r \in Runs : /\ HasLegacy(r)' => HasLegacy(r)
                         /\ HasManifest(r)' => HasManifest(r)
  BY <1>1, <1>2, RemovedIsGone
<1>4. Cardinality(Held \ RunsOf(doomed[c])) <= MaxBundles
  BY <1>2 DEF PassLeaves
<1>5. CASE doomed[c] = {x}
  <2>1. pc'[c] = "idle" /\ Held \ RunsOf(doomed[c]) = Held \ {x.run}
    BY <1>1, <1>5 DEF Settle, TypeOK, RunsOf
  <2> QED BY <1>3, <1>4, <2>1 DEF PassLeaves
<1>6. CASE doomed[c] # {x}
  <2>1. pc' = pc /\ doomed'[c] = doomed[c] \ {x}
    BY <1>1, <1>6 DEF TypeOK
  <2>2. Held' \ RunsOf(doomed'[c]) \in SUBSET (Held \ RunsOf(doomed[c]))
    BY <1>3, <2>1 DEF RunsOf
  <2>3. Cardinality(Held' \ RunsOf(doomed'[c])) <= MaxBundles
    <3> DEFINE S == Held' \ RunsOf(doomed'[c])
               T == Held \ RunsOf(doomed[c])
    <3>1. IsFiniteSet(T) /\ S \in SUBSET T
      BY <2>2, HeldFinite
    <3>2. IsFiniteSet(S) /\ Cardinality(S) <= Cardinality(T)
      <4> HIDE DEF S, T
      <4> QED BY <3>1, FS_Subset
    <3>3. Cardinality(S) \in Nat /\ Cardinality(T) \in Nat
      <4> HIDE DEF S, T
      <4> QED BY <3>1, <3>2, FS_CardinalityType
    <3> QED BY <1>2, <1>4, <3>2, <3>3
  <2>4. ASSUME NEW y \in doomed'[c]
        PROVE  /\ y.mode = "legacy" => ~HasManifest(y.run)'
               /\ y.mode = "semantic" => ~HasLegacy(y.run)'
    <3>1. y \in doomed[c] /\ y.run \in Runs
      BY <2>1 DEF TypeOK, DoomedRecords
    <3> QED BY <1>2, <1>3, <3>1 DEF PassLeaves
  <2> QED BY <1>2, <2>1, <2>3, <2>4 DEF PassLeaves
<1> QED BY <1>5, <1>6

LEMMA PassesLeaveNext ==
  OneProcess /\ InOneProcess /\ PassesLeave /\ [Next]_vars => PassesLeave'
<1> SUFFICES ASSUME OneProcess, InOneProcess, PassesLeave, [Next]_vars PROVE PassesLeave'
  OBVIOUS
<1> USE DEF InOneProcess, TypeInv, CallsInv
<1>1. ASSUME UNCHANGED files, \A c \in Clients : pc'[c] = "remove" =>
                                pc[c] = "remove" /\ doomed'[c] = doomed[c]
      PROVE  PassesLeave'
  BY <1>1 DEF PassesLeave, PassLeaves, files, Held, HasLegacy, HasManifest
<1>2. CASE UNCHANGED vars
  BY <1>1, <1>2 DEF vars, files
<1>3. ASSUME NEW c \in Clients, CallAppend(c) \/ CallCommit(c) \/ CallStale(c)
      PROVE  PassesLeave'
  <2>1. UNCHANGED files /\ doomed' = doomed /\ \A d \in Clients : pc'[d] = "remove" => pc[d] = "remove"
    BY <1>3 DEF CallAppend, CallCommit, CallChained, CallStale, TypeOK
  <2> QED BY <1>1, <2>1
<1>4. ASSUME NEW p \in Procs, Crash(p) \/ Restart(p)
      PROVE  PassesLeave'
  <2>1. \A d \in Clients : pc'[d] # "remove"
    <3>1. CASE Crash(p)
      BY <3>1 DEF Crash, OneProcess
    <3>2. CASE Restart(p)
      <4>1. \A d \in Clients : pc[d] = "down"
        BY <3>2 DEF Restart, DownTogether
      <4> QED BY <3>2, <4>1 DEF Restart
    <3> QED BY <1>4, <3>1, <3>2
  <2> QED BY <2>1 DEF PassesLeave, PassLeaves
<1>5. ASSUME NEW c \in Clients, Step(c)
      PROVE  PassesLeave'
  <2>1. \A d \in Clients \ {c} : pc'[d] # "remove"
    BY <1>5, WorkingAlone, StepFrame
  <2>2. PassLeaves(c)'
    <3>1. CASE EvictScan(c)
      BY <3>1, ScanLeaves
    <3>2. CASE EvictRemove(c)
      BY <3>2, RemoveLeaves DEF PassesLeave
    <3>3. CASE ~EvictScan(c) /\ ~EvictRemove(c)
      <4>1. pc'[c] # "remove"
        BY <1>5, <3>3 DEF Step, AppendOpen, AppendRead, AppendWrite, CommitOpen, CommitLink,
                          WriteFails, StaleRead, StaleOpen, StaleWrite, Throw, Settle, TypeOK
      <4> QED BY <4>1 DEF PassLeaves
    <3> QED BY <3>1, <3>2, <3>3
  <2> QED BY <2>1, <2>2 DEF PassesLeave, PassLeaves
<1> QED BY <1>2, <1>3, <1>4, <1>5 DEF Next

\* When an append returns, after its eviction pass, the store is within its bound, the
\* manifests published without a pass included, in one process, whatever crashed before.
THEOREM ReturnsWithinBound ==
  ASSUME OneProcess, StaleAlone
  PROVE  Spec => BoundAfterAppend
<1> DEFINE Bounded ==
      \A c \in Clients : pc[c] \in {"scan", "remove"} /\ pc'[c] = "idle" /\ torn = {} =>
        Cardinality(Held') <= MaxBundles
<1>1. InOneProcess /\ PassesLeave /\ [Next]_vars => [Bounded]_vars
  <2> SUFFICES ASSUME InOneProcess, PassesLeave, Next, NEW c \in Clients,
                      pc[c] \in {"scan", "remove"}, pc'[c] = "idle", torn = {}
               PROVE  Cardinality(Held') <= MaxBundles
    OBVIOUS
  <2> USE DEF InOneProcess, TypeInv
  <2>1. PICK d \in Clients : Step(d)
    <3>1. ASSUME NEW d \in Clients, CallAppend(d) \/ CallCommit(d) \/ CallStale(d) PROVE FALSE
      BY <3>1 DEF CallAppend, CallCommit, CallChained, CallStale, TypeOK
    <3>2. ASSUME NEW p \in Procs, Crash(p) \/ Restart(p) PROVE FALSE
      BY <3>2 DEF Crash, Restart, OneProcess, DownTogether, CallsInv, TypeOK
    <3> QED BY <3>1, <3>2 DEF Next
  <2>2. d = c
    BY <2>1, StepFrame
  <2>3. EvictScan(c) \/ EvictRemove(c)
    BY <2>1, <2>2 DEF Step, AppendOpen, AppendRead, AppendWrite, CommitOpen, CommitLink,
                      WriteFails, StaleRead, StaleOpen, StaleWrite
  <2> QED BY <2>3, ScanLeaves, RemoveLeaves DEF PassesLeave
<1>2. InOneProcess /\ [Next]_vars => InOneProcess'
  BY InOneProcessNext
<1>3. InOneProcess /\ PassesLeave /\ [Next]_vars => PassesLeave'
  BY PassesLeaveNext
<1> QED BY <1>1, <1>2, <1>3, InOneProcessInit, PassesLeaveInit, PTL DEF Spec, BoundAfterAppend

-----------------------------------------------------------------------------
(* storage-local implements RevisionStore. In one process that does not    *)
(* crash, with markStale kept to itself, the pending change the mapping    *)
(* takes back is always that of the one call at work, and the invariant    *)
(* says what the abstract action needs of it: the ids a queued call        *)
(* carries are in no file (CarriedIsNew), its stamps are no earlier than   *)
(* those ahead of it in the chain (ChainInOrder) or in the file            *)
(* (CarriedIsLast), so bundles stay in timestamp order and the last entry  *)
(* is the latest.                                                          *)

\* The calls that carry a revision not yet written.
Carrying == {"queued", "read", "write", "link"}

Carried(c) == call[c].revs[1]

\* The chain of a process holds its calls, each once, until they settle.
Chained ==
  /\ \A p \in Procs : \A j \in DOMAIN queue[p] :
       /\ ProcOf[queue[p][j]] = p
       /\ pc[queue[p][j]] \in Active \cup {"queued"}
       /\ \A k \in DOMAIN queue[p] : queue[p][j] = queue[p][k] => j = k
  /\ \A c \in Clients : pc[c] \in Active \cup {"queued"} =>
       \E j \in DOMAIN queue[ProcOf[c]] : queue[ProcOf[c]][j] = c

NotAfter(S, T) == \A x \in S, y \in T : x.stamp <= y.stamp

ChainInOrder ==
  \A p \in Procs : \A j, k \in DOMAIN queue[p] :
    j < k /\ call[queue[p][j]].run = call[queue[p][k]].run =>
      NotAfter(ToSet(call[queue[p][j]].revs), ToSet(call[queue[p][k]].revs))

CallsNew ==
  \A c \in Clients : pc[c] \in Carrying \cup {"scan"} =>
    \E e \in NewEntries(RevIds, Stamps) : call[c].revs = <<e>> /\ e.id \in issued

IdsIssued == \A r \in Runs : stored[r] \subseteq issued \cup {0} /\ Ids(manifest[r]) \subseteq issued

CarriedIsNew ==
  \A c \in Clients : pc[c] \in Carrying =>
    /\ \A r \in Runs : Carried(c).id \notin stored[r] \cup Ids(manifest[r])
    /\ \A d \in Clients \ {c} : pc[d] \in Carrying => Carried(c).id # Carried(d).id

DoomedAtRemove == \A c \in Clients : doomed[c] # {} => pc[c] = "remove"

HandleIsOpen ==
  \A r \in Runs : \A c \in handles[r] : pc[c] = "staleWrite" /\ call[c].run = r

InOrder(b) == \A j, k \in DOMAIN b : j <= k => b[j].stamp <= b[k].stamp

FilesInOrder ==
  /\ \A r \in Runs : InOrder(legacy[r]) /\ Len(manifest[r]) <= 1
  /\ \A c \in Clients : InOrder(buf[c])

CarriedIsLast ==
  \A c \in Clients : pc[c] \in Carrying =>
    NotAfter(ToSet(legacy[call[c].run]), {Carried(c)})

\* What an append about to evict has just written.
Scanning(c) ==
  pc[c] = "scan" =>
    LET r == call[c].run
    IN /\ r \notin torn /\ ~HasManifest(r)
       /\ \E b \in Bundles : legacy[r] = Append(b, Carried(c)) /\ Carried(c).id \notin Ids(b)
       /\ \A k \in Runs : /\ k # r => Carried(c).id \notin stored[k]
                          /\ Carried(c).id \notin Ids(manifest[k])

Cascadable(c) == pc[c] \in {"staleOpen", "staleWrite"} => CanCascade(buf[c], call[c].from)

\* The part about the chain, the part about the files, and the part about each call.
ChainInv == Chained /\ ChainInOrder

WritesInv == CallsNew /\ IdsIssued /\ CarriedIsNew /\ FilesInOrder /\ CarriedIsLast

ActsInv ==
  /\ DoomedAtRemove
  /\ HandleIsOpen
  /\ \A c \in Clients : Scanning(c) /\ Cascadable(c)

-----------------------------------------------------------------------------
(* Bundles in timestamp order.                                             *)

LEMMA FrontAppend ==
  ASSUME NEW E, NEW b \in Seq(E), NEW e \in E
  PROVE  Front(Append(b, e)) = b
<1>1. Len(b) \in Nat /\ Len(Append(b, e)) = Len(b) + 1
  OBVIOUS
<1>2. Front(Append(b, e)) = SubSeq(Append(b, e), 1, Len(b))
  BY <1>1 DEF Front
<1> QED BY <1>1, <1>2

LEMMA AppendToSet ==
  ASSUME NEW E, NEW b \in Seq(E), NEW e \in E
  PROVE  ToSet(Append(b, e)) = ToSet(b) \cup {e}
<1>1. /\ Len(b) \in Nat /\ DOMAIN b = 1 .. Len(b)
      /\ DOMAIN Append(b, e) = 1 .. Len(b) + 1
      /\ Append(b, e)[Len(b) + 1] = e
      /\ \A k \in 1 .. Len(b) : Append(b, e)[k] = b[k]
  OBVIOUS
<1>2. 1 .. Len(b) + 1 = (1 .. Len(b)) \cup {Len(b) + 1}
  BY <1>1
<1> QED BY <1>1, <1>2 DEF ToSet

LEMMA AppendInOrder ==
  ASSUME NEW b \in Bundles, NEW e \in Entries(Ids0, Stamps), InOrder(b), NotAfter(ToSet(b), {e})
  PROVE  InOrder(Append(b, e))
<1> DEFINE n == Len(b)
           a == Append(b, e)
<1>1. /\ n \in Nat /\ DOMAIN b = 1 .. n /\ DOMAIN a = 1 .. n + 1 /\ a[n + 1] = e
      /\ \A k \in 1 .. n : a[k] = b[k]
  BY DEF Bundles
<1>2. e.stamp \in Nat
  BY LocalAssumption DEF Entries
<1>3. SUFFICES ASSUME NEW j \in DOMAIN a, NEW k \in DOMAIN a, j <= k
               PROVE  a[j].stamp <= a[k].stamp
  BY DEF InOrder
<1> HIDE DEF n, a
<1>4. CASE k \in 1 .. n
  BY <1>1, <1>3, <1>4 DEF InOrder
<1>5. CASE k = n + 1 /\ j \in 1 .. n
  <2>1. b[j] \in ToSet(b)
    BY <1>1, <1>5 DEF ToSet
  <2> QED BY <1>1, <1>5, <2>1 DEF NotAfter
<1>6. CASE k = n + 1 /\ j = n + 1
  BY <1>1, <1>2, <1>6
<1> QED BY <1>1, <1>3, <1>4, <1>5, <1>6

LEMMA StaleInOrder ==
  ASSUME NEW b \in Bundles, InOrder(b), NEW S
  PROVE  InOrder(StaleIn(b, S))
<1>1. DOMAIN StaleIn(b, S) = DOMAIN b /\ \A k \in DOMAIN b : StaleIn(b, S)[k].stamp = b[k].stamp
  BY StaleInKeeps DEF Bundles
<1> QED BY <1>1 DEF InOrder

\* The latest timestamp of a bundle in order is that of its last entry.
LEMMA LatestIsLast ==
  ASSUME NEW b \in Bundles, b # <<>>, InOrder(b)
  PROVE  (CHOOSE t \in {e.stamp : e \in ToSet(b)} : \A e \in ToSet(b) : e.stamp <= t) = LastOf(b)
<1> DEFINE S == {e.stamp : e \in ToSet(b)}
           m == b[Len(b)].stamp
<1>1. Len(b) \in DOMAIN b /\ DOMAIN b = 1 .. Len(b)
  BY EmptySeq DEF Bundles
<1>2. b[Len(b)] \in ToSet(b)
  BY <1>1 DEF ToSet
<1>3. \A e \in ToSet(b) : e.stamp <= m
  <2>1. \A k \in DOMAIN b : k <= Len(b)
    BY <1>1 DEF Bundles
  <2> QED BY <1>1, <2>1 DEF ToSet, InOrder
<1>4. \A e \in ToSet(b) : e.stamp \in Nat
  <2>1. \A k \in DOMAIN b : b[k] \in Entries(Ids0, Stamps)
    BY ElementOfSeq DEF Bundles
  <2> QED BY <2>1, LocalAssumption DEF ToSet, Entries
<1>5. m \in S /\ \A e \in ToSet(b) : e.stamp <= m
  BY <1>2, <1>3
<1>6. ASSUME NEW t \in S, \A e \in ToSet(b) : e.stamp <= t PROVE t = m
  BY <1>2, <1>3, <1>4, <1>6
<1>7. LastOf(b) = m
  BY DEF LastOf
<1> HIDE DEF m
<1>8. (CHOOSE t \in S : \A e \in ToSet(b) : e.stamp <= t) = m
  BY <1>5, <1>6
<1> QED BY <1>7, <1>8

-----------------------------------------------------------------------------
(* The chain.                                                              *)

\* A step of a call ends it or moves it on.
LEMMA StepShape ==
  ASSUME TypeOK, NEW c \in Clients, Step(c)
  PROVE  /\ pc[c] \in Active \cup StalePc \cup {"queued"}
         /\ Settle(c) \/ (/\ UNCHANGED <<call, queue>>
                          /\ pc'[c] \in Active \cup StalePc
                          /\ pc[c] \in StalePc <=> pc'[c] \in StalePc)
<1>1. pc[c] \in Active \cup StalePc \cup {"queued"}
  BY DEF Step, AppendOpen, AppendRead, AppendWrite, EvictScan, EvictRemove, CommitOpen,
         CommitLink, WriteFails, StaleRead, StaleOpen, StaleWrite, Active, StalePc
<1>2. CASE ~Settle(c)
  <2>1. UNCHANGED <<call, queue>> /\ pc'[c] \in Active \cup StalePc
    BY <1>2 DEF Step, AppendOpen, AppendRead, AppendWrite, EvictScan, EvictRemove, CommitOpen,
                CommitLink, WriteFails, StaleRead, StaleOpen, StaleWrite, Throw, TypeOK, Active,
                StalePc
  <2>2. pc[c] \in StalePc <=> pc'[c] \in StalePc
    BY <2>1, StepFrame DEF Active, StalePc
  <2> QED BY <1>1, <2>1, <2>2
<1> QED BY <1>1, <1>2

\* The chain without its head.
LEMMA TailOf ==
  ASSUME NEW q \in Seq(Clients), q # <<>>
  PROVE  /\ Len(q) \in Nat /\ DOMAIN q = 1 .. Len(q) /\ Len(q) >= 1 /\ Head(q) = q[1]
         /\ Tail(q) \in Seq(Clients) /\ DOMAIN Tail(q) = 1 .. Len(q) - 1
         /\ \A j \in 1 .. Len(q) - 1 : Tail(q)[j] = q[j + 1]
<1>1. Len(q) \in Nat /\ DOMAIN q = 1 .. Len(q) /\ Len(q) # 0
  BY EmptySeq
<1> QED BY <1>1

LEMMA AppendOf ==
  ASSUME NEW q \in Seq(Clients), NEW c \in Clients
  PROVE  /\ Len(q) \in Nat /\ DOMAIN q = 1 .. Len(q)
         /\ DOMAIN Append(q, c) = 1 .. Len(q) + 1 /\ Append(q, c)[Len(q) + 1] = c
         /\ \A j \in 1 .. Len(q) : Append(q, c)[j] = q[j]
OBVIOUS

\* A call that settles takes itself, and nobody else, out of the chain.
LEMMA SettleChain ==
  ASSUME TypeOK, ChainInv, NEW c \in Clients, Settle(c), pc[c] \in StalePc \/ Running(c)
  PROVE  ChainInv'
<1> DEFINE q == queue[ProcOf[c]]
<1>1. /\ pc'[c] = "idle" /\ call'[c] = NoCall
      /\ \A d \in Clients \ {c} : pc'[d] = pc[d] /\ call'[d] = call[d]
  BY DEF Settle, TypeOK
<1>2. CASE ~Running(c)
  <2>1. queue' = queue
    <3>1. queue' = [queue EXCEPT ![ProcOf[c]] = queue[ProcOf[c]]]
      BY <1>2 DEF Settle
    <3> QED BY <3>1 DEF TypeOK
  <2>2. \A p \in Procs : \A j \in DOMAIN queue[p] : queue[p][j] \in Clients \ {c}
    <3> SUFFICES ASSUME NEW p \in Procs, NEW j \in DOMAIN queue[p]
                 PROVE  queue[p][j] \in Clients \ {c}
      OBVIOUS
    <3>1. queue[p][j] \in Clients
      BY DEF TypeOK
    <3>2. pc[queue[p][j]] \in Active \cup {"queued"}
      BY DEF ChainInv, Chained
    <3>3. pc[c] \notin Active \cup {"queued"}
      BY <1>2 DEF Active, StalePc
    <3> QED BY <3>1, <3>2, <3>3
  <2>3. Chained'
    BY <1>1, <2>1, <2>2 DEF ChainInv, Chained, Active
  <2>4. ChainInOrder'
    BY <1>1, <2>1, <2>2 DEF ChainInv, ChainInOrder
  <2> QED BY <2>3, <2>4 DEF ChainInv
<1>3. CASE Running(c)
  <2>1. q \in Seq(Clients) /\ q # <<>> /\ q[1] = c /\ ProcOf[c] \in Procs
    <3>1. ProcOf[c] \in Procs
      BY LocalAssumption
    <3>2. q \in Seq(Clients)
      BY <3>1 DEF TypeOK
    <3>3. q # <<>> /\ Head(q) = c
      BY <1>3 DEF Running
    <3> HIDE DEF q
    <3> QED BY <3>1, <3>2, <3>3, TailOf
  <2>2. /\ \A p \in Procs \ {ProcOf[c]} : queue'[p] = queue[p]
        /\ queue'[ProcOf[c]] = Tail(q)
    BY <1>3, <2>1 DEF Settle, TypeOK
  <2>3. /\ Len(q) \in Nat /\ DOMAIN q = 1 .. Len(q) /\ DOMAIN Tail(q) = 1 .. Len(q) - 1
        /\ \A j \in 1 .. Len(q) - 1 : Tail(q)[j] = q[j + 1] /\ j + 1 \in DOMAIN q
    <3> HIDE DEF q
    <3> QED BY <2>1, TailOf
  <2>4. \A p \in Procs : \A j \in DOMAIN queue'[p] :
          \E k \in DOMAIN queue[p] :
            /\ k = IF p = ProcOf[c] THEN j + 1 ELSE j
            /\ queue'[p][j] = queue[p][k] /\ queue[p][k] \in Clients \ {c}
    <3> SUFFICES ASSUME NEW p \in Procs, NEW j \in DOMAIN queue'[p]
                 PROVE  \E k \in DOMAIN queue[p] :
                          /\ k = IF p = ProcOf[c] THEN j + 1 ELSE j
                          /\ queue'[p][j] = queue[p][k] /\ queue[p][k] \in Clients \ {c}
      OBVIOUS
    <3>1. CASE p = ProcOf[c]
      <4>1. j \in 1 .. Len(q) - 1 /\ j + 1 \in DOMAIN q /\ queue'[p][j] = q[j + 1]
        BY <2>2, <2>3, <3>1
      <4>2. q[j + 1] \in Clients /\ 1 \in DOMAIN q /\ j + 1 # 1
        <5>1. j + 1 # 1 /\ 1 \in DOMAIN q
          BY <2>3, <4>1
        <5> HIDE DEF q
        <5> QED BY <2>1, <4>1, <5>1, ElementOfSeq
      <4>3. q[j + 1] # c
        BY <2>1, <4>1, <4>2 DEF ChainInv, Chained
      <4> QED BY <3>1, <4>1, <4>2, <4>3
    <3>2. CASE p # ProcOf[c]
      <4>1. queue'[p] = queue[p]
        BY <2>2, <3>2
      <4>2. queue[p][j] \in Clients /\ queue[p][j] # c
        BY <3>2, <4>1 DEF ChainInv, Chained, TypeOK
      <4> QED BY <3>2, <4>1, <4>2
    <3> QED BY <3>1, <3>2
  <2>5. ASSUME NEW p \in Procs, NEW j \in DOMAIN queue'[p]
        PROVE  /\ ProcOf[queue'[p][j]] = p
               /\ pc'[queue'[p][j]] \in Active \cup {"queued"}
               /\ \A k \in DOMAIN queue'[p] : queue'[p][j] = queue'[p][k] => j = k
    <3>1. PICK m \in DOMAIN queue[p] :
            /\ m = IF p = ProcOf[c] THEN j + 1 ELSE j
            /\ queue'[p][j] = queue[p][m] /\ queue[p][m] \in Clients \ {c}
      BY <2>4
    <3>2. ProcOf[queue'[p][j]] = p /\ pc'[queue'[p][j]] \in Active \cup {"queued"}
      BY <1>1, <3>1 DEF ChainInv, Chained
    <3>3. ASSUME NEW k \in DOMAIN queue'[p], queue'[p][j] = queue'[p][k] PROVE j = k
      <4>1. PICK n \in DOMAIN queue[p] :
              /\ n = IF p = ProcOf[c] THEN k + 1 ELSE k
              /\ queue'[p][k] = queue[p][n]
        BY <2>4
      <4>a. queue[p][m] = queue[p][n]
        BY <3>1, <3>3, <4>1
      <4>2. m = n
        BY <4>a DEF ChainInv, Chained
      <4>3. CASE p = ProcOf[c]
        <5>1. j \in Int /\ k \in Int
          <6>1. DOMAIN queue'[p] = 1 .. Len(q) - 1
            BY <2>2, <2>3, <4>3
          <6> QED BY <6>1
        <5> QED BY <3>1, <4>1, <4>2, <4>3, <5>1
      <4> QED BY <3>1, <4>1, <4>2, <4>3
    <3> QED BY <3>2, <3>3
  <2>6. ASSUME NEW d \in Clients, pc'[d] \in Active \cup {"queued"}
        PROVE  \E j \in DOMAIN queue'[ProcOf[d]] : queue'[ProcOf[d]][j] = d
    <3>1. d # c /\ pc[d] \in Active \cup {"queued"} /\ ProcOf[d] \in Procs
      BY <1>1, <2>6, LocalAssumption DEF Active
    <3>2. PICK k \in DOMAIN queue[ProcOf[d]] : queue[ProcOf[d]][k] = d
      BY <3>1 DEF ChainInv, Chained
    <3>3. CASE ProcOf[d] = ProcOf[c]
      <4>1. k \in 1 .. Len(q) /\ k # 1
        BY <2>1, <2>3, <3>1, <3>2, <3>3
      <4>2. k - 1 \in 1 .. Len(q) - 1 /\ (k - 1) + 1 = k
        BY <2>3, <4>1
      <4>3. Tail(q)[k - 1] = d
        BY <2>3, <3>2, <3>3, <4>2
      <4> QED BY <2>2, <2>3, <3>3, <4>2, <4>3
    <3>4. CASE ProcOf[d] # ProcOf[c]
      BY <2>2, <3>1, <3>2, <3>4
    <3> QED BY <3>3, <3>4
  <2>7. ChainInOrder'
    <3> SUFFICES ASSUME NEW p \in Procs, NEW j \in DOMAIN queue'[p], NEW k \in DOMAIN queue'[p],
                        j < k, call'[queue'[p][j]].run = call'[queue'[p][k]].run
                 PROVE  NotAfter(ToSet(call'[queue'[p][j]].revs), ToSet(call'[queue'[p][k]].revs))
      BY DEF ChainInOrder
    <3>1. PICK m \in DOMAIN queue[p] :
            /\ m = IF p = ProcOf[c] THEN j + 1 ELSE j
            /\ queue'[p][j] = queue[p][m] /\ queue[p][m] \in Clients \ {c}
      BY <2>4
    <3>2. PICK n \in DOMAIN queue[p] :
            /\ n = IF p = ProcOf[c] THEN k + 1 ELSE k
            /\ queue'[p][k] = queue[p][n] /\ queue[p][n] \in Clients \ {c}
      BY <2>4
    <3>3. m < n
      <4>1. CASE p = ProcOf[c]
        <5>1. j \in Int /\ k \in Int
          <6>1. DOMAIN queue'[p] = 1 .. Len(q) - 1
            BY <2>2, <2>3, <4>1
          <6> QED BY <6>1
        <5> QED BY <3>1, <3>2, <4>1, <5>1
      <4> QED BY <3>1, <3>2, <4>1
    <3> QED BY <1>1, <3>1, <3>2, <3>3 DEF ChainInv, ChainInOrder
  <2> QED BY <2>5, <2>6, <2>7 DEF ChainInv, Chained
<1> QED BY <1>2, <1>3

LEMMA StepChain ==
  ASSUME OneProcess, InOneProcess, ChainInv, NEW c \in Clients, Step(c)
  PROVE  ChainInv'
<1> USE DEF InOneProcess, TypeInv, CallsInv
<1>1. pc[c] \in StalePc \/ Running(c)
  BY WorkingAlone
<1>2. CASE Settle(c)
  BY <1>1, <1>2, SettleChain
<1>3. CASE ~Settle(c)
  <2>1. /\ UNCHANGED <<call, queue>>
        /\ pc[c] \in Active \cup StalePc \cup {"queued"} /\ pc'[c] \in Active \cup StalePc
        /\ pc[c] \in StalePc <=> pc'[c] \in StalePc
    BY <1>3, StepShape
  <2>2. \A d \in Clients \ {c} : pc'[d] = pc[d]
    BY StepFrame
  <2>3. \A d \in Clients : pc[d] \in Active \cup {"queued"} <=> pc'[d] \in Active \cup {"queued"}
    BY <2>1, <2>2 DEF Active, StalePc
  <2>4. \A p \in Procs : \A j \in DOMAIN queue[p] : queue[p][j] \in Clients
    BY DEF TypeOK
  <2>5. Chained'
    BY <2>1, <2>3, <2>4 DEF ChainInv, Chained
  <2>6. ChainInOrder'
    BY <2>1 DEF ChainInv, ChainInOrder
  <2> QED BY <2>5, <2>6 DEF ChainInv
<1> QED BY <1>2, <1>3

\* A call joins the chain behind all others; its timestamp is not before theirs.
LEMMA CallChain ==
  ASSUME InOneProcess, ChainInv, NEW c \in Clients, NEW kind \in {"append", "commit"},
         CallChained(c, kind)
  PROVE  ChainInv'
<1> USE DEF InOneProcess, TypeInv, CallsInv
<1> DEFINE q == queue[ProcOf[c]]
<1>1. PICK r \in Runs : \E e \in FreshEntries(r) :
        call' = [call EXCEPT ![c] = [kind |-> kind, run |-> r, revs |-> <<e>>, from |-> 0]]
  BY DEF CallChained
<1>2. PICK e \in FreshEntries(r) :
        call' = [call EXCEPT ![c] = [kind |-> kind, run |-> r, revs |-> <<e>>, from |-> 0]]
  BY <1>1
<1>3. /\ pc[c] = "idle" /\ pc' = [pc EXCEPT ![c] = "queued"]
      /\ queue' = [queue EXCEPT ![ProcOf[c]] = Append(q, c)]
      /\ ProcOf[c] \in Procs /\ q \in Seq(Clients)
  BY LocalAssumption DEF CallChained, TypeOK
<1>4. /\ call'[c].run = r /\ call'[c].revs = <<e>>
      /\ \A d \in Clients \ {c} : call'[d] = call[d] /\ pc'[d] = pc[d]
  BY <1>2, <1>3 DEF TypeOK
<1>5. /\ Len(q) \in Nat /\ DOMAIN q = 1 .. Len(q)
      /\ DOMAIN Append(q, c) = 1 .. Len(q) + 1 /\ Append(q, c)[Len(q) + 1] = c
      /\ \A j \in 1 .. Len(q) : Append(q, c)[j] = q[j]
  <2> HIDE DEF q
  <2> QED BY <1>3, AppendOf
<1>6. \A p \in Procs : \A j \in DOMAIN queue[p] : queue[p][j] \in Clients \ {c}
  <2> SUFFICES ASSUME NEW p \in Procs, NEW j \in DOMAIN queue[p]
               PROVE  queue[p][j] \in Clients \ {c}
    OBVIOUS
  <2>1. queue[p][j] \in Clients
    BY DEF TypeOK
  <2>2. pc[queue[p][j]] \in Active \cup {"queued"}
    BY DEF ChainInv, Chained
  <2>3. pc[c] \notin Active \cup {"queued"}
    BY <1>3 DEF Active
  <2> QED BY <2>1, <2>2, <2>3
<1>7. \A p \in Procs : p # ProcOf[c] => queue'[p] = queue[p]
  BY <1>3 DEF TypeOK
<1>8. queue'[ProcOf[c]] = Append(q, c)
  BY <1>3 DEF TypeOK
<1>9. ASSUME NEW p \in Procs, NEW j \in DOMAIN queue'[p]
      PROVE  \/ j \in DOMAIN queue[p] /\ queue'[p][j] = queue[p][j]
             \/ p = ProcOf[c] /\ j = Len(q) + 1 /\ queue'[p][j] = c
  <2>1. CASE p = ProcOf[c]
    <3>1. j \in 1 .. Len(q) \/ j = Len(q) + 1
      BY <1>5, <1>8, <2>1
    <3> QED BY <1>5, <1>8, <2>1, <3>1
  <2>2. CASE p # ProcOf[c]
    BY <1>7, <2>2
  <2> QED BY <2>1, <2>2
<1>10. Chained'
  <2>1. ASSUME NEW p \in Procs, NEW j \in DOMAIN queue'[p]
        PROVE  /\ ProcOf[queue'[p][j]] = p
               /\ pc'[queue'[p][j]] \in Active \cup {"queued"}
               /\ \A k \in DOMAIN queue'[p] : queue'[p][j] = queue'[p][k] => j = k
    <3>1. CASE j \in DOMAIN queue[p] /\ queue'[p][j] = queue[p][j]
      <4>1. ProcOf[queue'[p][j]] = p /\ pc'[queue'[p][j]] \in Active \cup {"queued"}
        BY <1>4, <1>6, <3>1 DEF ChainInv, Chained
      <4>2. \A k \in DOMAIN queue'[p] : queue'[p][j] = queue'[p][k] => j = k
        BY <1>6, <1>9, <3>1 DEF ChainInv, Chained
      <4> QED BY <4>1, <4>2
    <3>2. CASE p = ProcOf[c] /\ j = Len(q) + 1 /\ queue'[p][j] = c
      <4>1. pc'[c] = "queued"
        BY <1>3 DEF TypeOK
      <4>2. ASSUME NEW k \in DOMAIN queue'[p], queue'[p][j] = queue'[p][k] PROVE j = k
        <5>1. ~(k \in DOMAIN queue[p] /\ queue'[p][k] = queue[p][k])
          BY <1>6, <3>2, <4>2
        <5>2. k = Len(q) + 1
          BY <1>9, <5>1
        <5> QED BY <3>2, <5>2
      <4> QED BY <3>2, <4>1, <4>2
    <3> QED BY <1>9, <3>1, <3>2
  <2>2. ASSUME NEW d \in Clients, pc'[d] \in Active \cup {"queued"}
        PROVE  \E j \in DOMAIN queue'[ProcOf[d]] : queue'[ProcOf[d]][j] = d
    <3>1. CASE d = c
      <4>1. Len(q) + 1 \in DOMAIN queue'[ProcOf[c]] /\ queue'[ProcOf[c]][Len(q) + 1] = c
        BY <1>5, <1>8
      <4> QED BY <3>1, <4>1
    <3>2. CASE d # c
      <4>1. PICK k \in DOMAIN queue[ProcOf[d]] : queue[ProcOf[d]][k] = d
        BY <1>4, <2>2, <3>2 DEF ChainInv, Chained
      <4>2. CASE ProcOf[d] = ProcOf[c]
        <5>1. k \in 1 .. Len(q) /\ q[k] = d
          BY <1>5, <4>1, <4>2
        <5>2. k \in 1 .. Len(q) + 1
          BY <1>5, <5>1
        <5> QED BY <1>5, <1>8, <4>2, <5>1, <5>2
      <4>3. CASE ProcOf[d] # ProcOf[c]
        <5>1. ProcOf[d] \in Procs
          BY LocalAssumption
        <5> QED BY <1>7, <4>1, <4>3, <5>1
      <4> QED BY <4>2, <4>3
    <3> QED BY <3>1, <3>2
  <2> QED BY <2>1, <2>2 DEF Chained
<1>11. ChainInOrder'
  <2> SUFFICES ASSUME NEW p \in Procs, NEW j \in DOMAIN queue'[p], NEW k \in DOMAIN queue'[p],
                      j < k, call'[queue'[p][j]].run = call'[queue'[p][k]].run
               PROVE  NotAfter(ToSet(call'[queue'[p][j]].revs), ToSet(call'[queue'[p][k]].revs))
    BY DEF ChainInOrder
  <2>1. CASE k \in DOMAIN queue[p] /\ queue'[p][k] = queue[p][k]
    <3>1. j \in DOMAIN queue[p] /\ queue'[p][j] = queue[p][j]
      <4>1. CASE p = ProcOf[c] /\ j = Len(q) + 1
        <5>1. k \in 1 .. Len(q)
          BY <1>5, <2>1, <4>1
        <5> QED BY <1>5, <4>1, <5>1
      <4> QED BY <1>9, <4>1
    <3> QED BY <1>4, <1>6, <2>1, <3>1 DEF ChainInv, ChainInOrder
  <2>2. CASE p = ProcOf[c] /\ k = Len(q) + 1 /\ queue'[p][k] = c
    <3>1. j \in DOMAIN queue[p] /\ queue'[p][j] = queue[p][j]
      <4>1. j # Len(q) + 1
        BY <1>5, <2>2
      <4> QED BY <1>9, <4>1
    <3>2. PICK d \in Clients \ {c} : d = queue[p][j]
      BY <1>6, <3>1
    <3>3. call'[d] = call[d] /\ call[d].run = r
      BY <1>4, <2>2, <3>1, <3>2
    <3>4. ToSet(<<e>>) = {e}
      BY DEF ToSet
    <3>5. \A x \in ToSet(call[d].revs) : x.stamp <= e.stamp
      <4>1. \A s \in StampsOf(r) : s <= e.stamp
        BY DEF FreshEntries
      <4>2. ASSUME NEW x \in ToSet(call[d].revs) PROVE x.stamp \in StampsOf(r)
        <5>1. ToSet(call[d].revs) \in {ToSet(call[b].revs) : b \in {a \in Clients : call[a].run = r}}
          BY <3>3
        <5>2. x \in UNION {ToSet(call[b].revs) : b \in {a \in Clients : call[a].run = r}}
          BY <4>2, <5>1
        <5> QED BY <5>2 DEF StampsOf
      <4> QED BY <4>1, <4>2
    <3> QED BY <1>4, <2>2, <3>1, <3>2, <3>3, <3>4, <3>5 DEF NotAfter
  <2> QED BY <1>9, <2>1, <2>2
<1> QED BY <1>10, <1>11 DEF ChainInv

LEMMA ChainInvNext ==
  ASSUME OneProcess, MaxCrashes = 0, InOneProcess, ChainInv, [Next]_vars
  PROVE  ChainInv'
<1> USE DEF InOneProcess, TypeInv, CallsInv
<1>1. CASE UNCHANGED vars
  BY <1>1 DEF vars, ChainInv, Chained, ChainInOrder
<1>2. ASSUME NEW c \in Clients, CallAppend(c) \/ CallCommit(c)
      PROVE  ChainInv'
  BY <1>2, CallChain DEF CallAppend, CallCommit
<1>3. ASSUME NEW c \in Clients, CallStale(c)
      PROVE  ChainInv'
  <2>1. /\ pc[c] = "idle" /\ pc'[c] = "staleRead" /\ queue' = queue
        /\ \A d \in Clients \ {c} : pc'[d] = pc[d] /\ call'[d] = call[d]
    BY <1>3 DEF CallStale, TypeOK
  <2>2. \A p \in Procs : \A j \in DOMAIN queue[p] : queue[p][j] \in Clients \ {c}
    <3> SUFFICES ASSUME NEW p \in Procs, NEW j \in DOMAIN queue[p]
                 PROVE  queue[p][j] \in Clients \ {c}
      OBVIOUS
    <3>1. queue[p][j] \in Clients
      BY DEF TypeOK
    <3>2. pc[queue[p][j]] \in Active \cup {"queued"}
      BY DEF ChainInv, Chained
    <3>3. pc[c] \notin Active \cup {"queued"}
      BY <2>1 DEF Active
    <3> QED BY <3>1, <3>2, <3>3
  <2>3. Chained'
    BY <2>1, <2>2 DEF ChainInv, Chained, Active
  <2>4. ChainInOrder'
    BY <2>1, <2>2 DEF ChainInv, ChainInOrder
  <2> QED BY <2>3, <2>4 DEF ChainInv
<1>4. ASSUME NEW c \in Clients, Step(c)
      PROVE  ChainInv'
  BY <1>4, StepChain
<1>5. ASSUME NEW p \in Procs, Crash(p) \/ Restart(p)
      PROVE  ChainInv'
  <2>1. ~Crash(p)
    BY DEF Crash, TypeOK
  <2>2. /\ UNCHANGED <<queue, call>> /\ \A c \in Clients : pc[c] = "down"
        /\ \A c \in Clients : pc'[c] \in {"idle", "down"}
    BY <1>5, <2>1 DEF Restart, DownTogether
  <2>3. \A s \in Procs : DOMAIN queue[s] = {}
    <3> SUFFICES ASSUME NEW s \in Procs, NEW j \in DOMAIN queue[s] PROVE FALSE
      OBVIOUS
    <3>1. queue[s][j] \in Clients
      BY DEF TypeOK
    <3>2. pc[queue[s][j]] \in Active \cup {"queued"}
      BY DEF ChainInv, Chained
    <3> QED BY <2>2, <3>1, <3>2 DEF Active
  <2>4. Chained'
    BY <2>2, <2>3 DEF Chained, Active
  <2>5. ChainInOrder'
    BY <2>2, <2>3 DEF ChainInOrder
  <2> QED BY <2>4, <2>5 DEF ChainInv
<1> QED BY <1>1, <1>2, <1>3, <1>4, <1>5 DEF Next

-----------------------------------------------------------------------------
(* What is written.                                                        *)

LEMMA EmptyBundle ==
  /\ Ids(<<>>) = {} /\ ToSet(<<>>) = {} /\ InOrder(<<>>) /\ Len(<<>>) = 0 /\ <<>> \in Bundles
BY DEF Ids, ToSet, InOrder, Bundles

LEMMA OneEntry ==
  ASSUME NEW e
  PROVE  /\ Ids(<<e>>) = {e.id} /\ ToSet(<<e>>) = {e} /\ Len(<<e>>) = 1 /\ <<e>>[1] = e
         /\ <<e>> # <<>>
BY DEF Ids, ToSet

LEMMA NewIsEntry ==
  ASSUME NEW e \in NewEntries(RevIds, Stamps)
  PROVE  e \in Entries(Ids0, Stamps) /\ e.id \in RevIds /\ e.id \in Nat \ {0} /\ e.stamp \in Nat
BY LocalAssumption DEF NewEntries, Entries, Ids0

\* What a call carries.
LEMMA CarriedType ==
  ASSUME CallsNew, NEW c \in Clients, pc[c] \in Carrying \cup {"scan"}
  PROVE  /\ call[c].revs = <<Carried(c)>>
         /\ Carried(c) \in NewEntries(RevIds, Stamps) /\ Carried(c).id \in issued
<1>1. PICK e \in NewEntries(RevIds, Stamps) : call[c].revs = <<e>> /\ e.id \in issued
  BY DEF CallsNew
<1>2. Carried(c) = e
  BY <1>1, OneEntry DEF Carried
<1> QED BY <1>1, <1>2

\* Steps that write no revision: files may go, and calls move on or end.
LEMMA NoWrite ==
  ASSUME WritesInv, issued' = issued,
         \A r \in Runs : /\ legacy'[r] \in {legacy[r], <<>>}
                         /\ manifest'[r] \in {manifest[r], <<>>}
                         /\ stored'[r] \subseteq stored[r],
         \A c \in Clients : /\ pc'[c] \in Carrying => pc[c] \in Carrying /\ call'[c] = call[c]
                            /\ pc'[c] = "scan" => pc[c] = "scan" /\ call'[c] = call[c]
                            /\ InOrder(buf'[c]),
         \A c \in Clients : call[c].run \in Runs
  PROVE  WritesInv'
<1> USE DEF WritesInv
<1>1. ASSUME NEW r \in Runs
      PROVE  /\ Ids(manifest'[r]) \subseteq Ids(manifest[r])
             /\ Len(manifest'[r]) <= 1 /\ InOrder(legacy'[r])
             /\ ToSet(legacy'[r]) \subseteq ToSet(legacy[r])
  <2>1. legacy'[r] = legacy[r] \/ legacy'[r] = <<>>
    OBVIOUS
  <2>2. manifest'[r] = manifest[r] \/ manifest'[r] = <<>>
    OBVIOUS
  <2>3. Len(manifest'[r]) <= 1
    BY <2>2, EmptyBundle DEF FilesInOrder
  <2>4. Ids(manifest'[r]) \subseteq Ids(manifest[r])
    BY <2>2, EmptyBundle
  <2>5. InOrder(legacy'[r]) /\ ToSet(legacy'[r]) \subseteq ToSet(legacy[r])
    BY <2>1, EmptyBundle DEF FilesInOrder
  <2> QED BY <2>3, <2>4, <2>5
<1>2. CallsNew'
  BY DEF CallsNew
<1>3. IdsIssued'
  <2> SUFFICES ASSUME NEW r \in Runs
               PROVE  stored'[r] \subseteq issued \cup {0} /\ Ids(manifest'[r]) \subseteq issued
    BY DEF IdsIssued
  <2> QED BY <1>1 DEF IdsIssued
<1>4. CarriedIsNew'
  <2> SUFFICES ASSUME NEW c \in Clients, pc'[c] \in Carrying
               PROVE  /\ \A r \in Runs : Carried(c)'.id \notin stored'[r] \cup Ids(manifest'[r])
                      /\ \A d \in Clients \ {c} : pc'[d] \in Carrying =>
                           Carried(c)'.id # Carried(d)'.id
    BY DEF CarriedIsNew
  <2>1. \A d \in Clients : pc'[d] \in Carrying => pc[d] \in Carrying /\ Carried(d)' = Carried(d)
    BY DEF Carried
  <2>2. \A r \in Runs : Carried(c).id \notin stored[r] \cup Ids(manifest[r])
    BY <2>1 DEF CarriedIsNew
  <2>3. \A r \in Runs : Carried(c)'.id \notin stored'[r] \cup Ids(manifest'[r])
    BY <1>1, <2>1, <2>2
  <2> QED BY <2>1, <2>3 DEF CarriedIsNew
<1>5. FilesInOrder'
  BY <1>1 DEF FilesInOrder
<1>6. CarriedIsLast'
  BY <1>1 DEF CarriedIsLast, NotAfter, Carried
<1> QED BY <1>2, <1>3, <1>4, <1>5, <1>6

\* A new call carries a new id, and a timestamp that is not before those in the file.
LEMMA CallWrites ==
  ASSUME InOneProcess, WritesInv, NEW c \in Clients, NEW kind \in {"append", "commit"},
         CallChained(c, kind)
  PROVE  WritesInv'
<1> USE DEF InOneProcess, TypeInv, WritesInv
<1>1. PICK r \in Runs : \E e \in FreshEntries(r) :
        /\ call' = [call EXCEPT ![c] = [kind |-> kind, run |-> r, revs |-> <<e>>, from |-> 0]]
        /\ issued' = issued \cup {e.id}
  BY DEF CallChained
<1>2. PICK e \in FreshEntries(r) :
        /\ call' = [call EXCEPT ![c] = [kind |-> kind, run |-> r, revs |-> <<e>>, from |-> 0]]
        /\ issued' = issued \cup {e.id}
  BY <1>1
<1>3. /\ pc' = [pc EXCEPT ![c] = "queued"]
      /\ UNCHANGED <<legacy, manifest, stored, buf>>
  BY DEF CallChained, files
<1>4. /\ call'[c].run = r /\ call'[c].revs = <<e>> /\ pc'[c] = "queued"
      /\ \A d \in Clients \ {c} : call'[d] = call[d] /\ pc'[d] = pc[d]
  BY <1>2, <1>3 DEF TypeOK
<1>5. e \in NewEntries(RevIds, Stamps) /\ e.id \notin issued
  <2>1. Ids(legacy[r]) \subseteq Ids0
    BY IdsInType DEF TypeOK
  <2>2. NextIds \subseteq RevIds \ issued
    BY DEF NextIds
  <2> QED BY <2>1, <2>2 DEF FreshEntries, NewEntries, Ids0
<1>6. Carried(c)' = e /\ \A d \in Clients \ {c} : Carried(d)' = Carried(d)
  BY <1>4, OneEntry DEF Carried
<1>7. CallsNew'
  <2> SUFFICES ASSUME NEW d \in Clients, pc'[d] \in Carrying \cup {"scan"}
               PROVE  \E x \in NewEntries(RevIds, Stamps) :
                        call'[d].revs = <<x>> /\ x.id \in issued'
    BY DEF CallsNew
  <2>1. CASE d = c
    BY <1>2, <1>4, <1>5, <2>1
  <2>2. CASE d # c
    BY <1>2, <1>4, <2>2 DEF CallsNew
  <2> QED BY <2>1, <2>2
<1>8. IdsIssued'
  BY <1>2, <1>3 DEF IdsIssued
<1>9. CarriedIsNew'
  <2>1. \A d \in Clients \ {c} : pc'[d] \in Carrying => pc[d] \in Carrying /\ Carried(d).id \in issued
    BY <1>4, CarriedType
  <2>2. \A k \in Runs : e.id \notin stored[k] \cup Ids(manifest[k])
    BY <1>5, NewIsEntry DEF IdsIssued
  <2>3. \A d \in Clients \ {c} : pc'[d] \in Carrying => Carried(d).id # e.id
    BY <1>5, <2>1
  <2> SUFFICES ASSUME NEW d \in Clients, pc'[d] \in Carrying
               PROVE  /\ \A k \in Runs : Carried(d)'.id \notin stored'[k] \cup Ids(manifest'[k])
                      /\ \A b \in Clients \ {d} : pc'[b] \in Carrying =>
                           Carried(d)'.id # Carried(b)'.id
    BY DEF CarriedIsNew
  <2>4. CASE d = c
    BY <1>3, <1>6, <2>2, <2>3, <2>4
  <2>5. CASE d # c
    <3>1. pc[d] \in Carrying /\ Carried(d)' = Carried(d)
      BY <1>6, <2>1, <2>5
    <3>2. \A k \in Runs : Carried(d)'.id \notin stored'[k] \cup Ids(manifest'[k])
      BY <1>3, <3>1 DEF CarriedIsNew
    <3>3. ASSUME NEW b \in Clients \ {d}, pc'[b] \in Carrying PROVE Carried(d)'.id # Carried(b)'.id
      <4>1. CASE b = c
        BY <1>6, <2>3, <2>5, <3>1, <4>1
      <4>2. CASE b # c
        BY <1>4, <1>6, <3>1, <3>3, <4>2 DEF CarriedIsNew
      <4> QED BY <4>1, <4>2
    <3> QED BY <3>2, <3>3
  <2> QED BY <2>4, <2>5
<1>10. FilesInOrder'
  BY <1>3 DEF FilesInOrder
<1>11. CarriedIsLast'
  <2> SUFFICES ASSUME NEW d \in Clients, pc'[d] \in Carrying
               PROVE  NotAfter(ToSet(legacy'[call'[d].run]), {Carried(d)'})
    BY DEF CarriedIsLast
  <2>1. CASE d = c
    <3>1. \A s \in StampsOf(r) : s <= e.stamp
      BY DEF FreshEntries
    <3>2. \A x \in ToSet(legacy[r]) : x.stamp \in StampsOf(r)
      BY DEF StampsOf
    <3> QED BY <1>3, <1>4, <1>6, <2>1, <3>1, <3>2 DEF NotAfter
  <2>2. CASE d # c
    BY <1>3, <1>4, <1>6, <2>2 DEF CarriedIsLast
  <2> QED BY <2>1, <2>2
<1> QED BY <1>7, <1>8, <1>9, <1>10, <1>11

\* append adds what it carries to the bundle it read, which is still the one in the file.
LEMMA AppendWrites ==
  ASSUME OneProcess, InOneProcess, ChainInv, WritesInv, NEW c \in Clients, AppendWrite(c)
  PROVE  WritesInv' /\ Scanning(c)'
<1> USE DEF InOneProcess, TypeInv, CallsInv, WritesInv
<1>1. PICK r \in Runs : r = call[c].run
  BY DEF TypeOK, Calls
<1>2. PICK e \in NewEntries(RevIds, Stamps) :
        e = Carried(c) /\ call[c].revs = <<e>> /\ e.id \in issued
  BY CarriedType DEF AppendWrite, Carrying
<1>3. e \in Entries(Ids0, Stamps)
  BY NewIsEntry
<1>4. pc[c] = "write" /\ ~HasManifest(r) /\ r \notin torn /\ buf[c] = legacy[r]
  BY <1>1 DEF AppendWrite, Checked, CheckedOf
<1>5. legacy[r] \in Bundles /\ Ids(legacy[r]) = stored[r]
  BY <1>4 DEF TypeOK, Bundles, FilesInv, NoRevisionLost
<1>6. PICK b : b = Append(legacy[r], e)
  OBVIOUS
<1>7. /\ legacy' = [legacy EXCEPT ![r] = b] /\ torn' = torn \ {r} /\ manifest' = manifest
      /\ stored' = [stored EXCEPT ![r] = @ \cup {e.id}]
      /\ pc' = [pc EXCEPT ![c] = "scan"] /\ buf' = [buf EXCEPT ![c] = <<>>]
      /\ call' = call /\ issued' = issued
  BY <1>1, <1>2, <1>4, <1>6, OneEntry DEF AppendWrite, SetLegacy, Carried
<1>8. InOrder(b) /\ ToSet(b) = ToSet(legacy[r]) \cup {e}
  <2>1. InOrder(legacy[r]) /\ NotAfter(ToSet(legacy[r]), {e})
    BY <1>1, <1>2, <1>4 DEF FilesInOrder, CarriedIsLast, Carrying
  <2> QED BY <1>3, <1>5, <1>6, <2>1, AppendInOrder, AppendToSet DEF Bundles
<1>9. \A d \in Clients \ {c} : pc'[d] = pc[d] /\ pc[d] \in {"idle", "down", "queued"}
  BY <1>7, WorkingAlone DEF TypeOK, Step
<1>10. /\ legacy'[r] = b /\ \A k \in Runs \ {r} : legacy'[k] = legacy[k]
       /\ stored'[r] = stored[r] \cup {e.id} /\ \A k \in Runs \ {r} : stored'[k] = stored[k]
       /\ pc'[c] = "scan" /\ buf'[c] = <<>> /\ \A d \in Clients \ {c} : buf'[d] = buf[d]
  BY <1>7 DEF TypeOK
<1>11. \A d \in Clients : Carried(d)' = Carried(d)
  BY <1>7 DEF Carried
<1>12. CallsNew'
  BY <1>2, <1>7, <1>9, <1>10 DEF CallsNew, Carrying
<1>13. IdsIssued'
  BY <1>2, <1>7, <1>10 DEF IdsIssued
<1>14. CarriedIsNew'
  <2> SUFFICES ASSUME NEW d \in Clients, pc'[d] \in Carrying
               PROVE  /\ \A k \in Runs : Carried(d)'.id \notin stored'[k] \cup Ids(manifest'[k])
                      /\ \A a \in Clients \ {d} : pc'[a] \in Carrying =>
                           Carried(d)'.id # Carried(a)'.id
    BY DEF CarriedIsNew
  <2>1. d # c /\ pc[d] \in Carrying
    BY <1>9, <1>10 DEF Carrying
  <2>2. Carried(d).id # e.id
    BY <1>2, <1>4, <2>1 DEF CarriedIsNew, Carrying
  <2>3. \A k \in Runs : Carried(d).id \notin stored[k] \cup Ids(manifest[k])
    BY <2>1 DEF CarriedIsNew
  <2>4. \A k \in Runs : Carried(d).id \notin stored'[k] \cup Ids(manifest'[k])
    BY <1>7, <1>10, <2>2, <2>3
  <2>5. \A a \in Clients \ {d} : pc'[a] \in Carrying => pc[a] \in Carrying
    BY <1>9, <1>10 DEF Carrying
  <2> QED BY <1>11, <2>1, <2>4, <2>5 DEF CarriedIsNew
<1>15. FilesInOrder'
  BY <1>7, <1>8, <1>10, EmptyBundle DEF FilesInOrder
<1>16. CarriedIsLast'
  <2> SUFFICES ASSUME NEW d \in Clients, pc'[d] \in Carrying
               PROVE  NotAfter(ToSet(legacy'[call'[d].run]), {Carried(d)'})
    BY DEF CarriedIsLast
  <2>1. d # c /\ pc[d] \in Carrying /\ pc[d] = "queued" /\ call[d].run \in Runs
    BY <1>9, <1>10 DEF Carrying, TypeOK, Calls
  <2>2. NotAfter(ToSet(legacy[call[d].run]), {Carried(d)})
    BY <2>1 DEF CarriedIsLast
  <2>3. CASE call[d].run # r
    BY <1>7, <1>10, <1>11, <2>1, <2>2, <2>3
  <2>4. CASE call[d].run = r
    <3>1. e.stamp <= Carried(d).stamp
      <4> DEFINE q == queue[ProcOf[c]]
      <4>1. Running(c) /\ ProcOf[c] \in Procs /\ ProcOf[d] = ProcOf[c]
        BY <1>4, LocalAssumption DEF OneAtATime, Active, OneProcess
      <4>2. q \in Seq(Clients) /\ q # <<>> /\ Head(q) = c
        BY <4>1 DEF Running, TypeOK
      <4>3. 1 \in DOMAIN q /\ q[1] = c /\ DOMAIN q \subseteq Nat \ {0}
        <5> HIDE DEF q
        <5> QED BY <4>2, TailOf
      <4>4. PICK k \in DOMAIN q : q[k] = d
        BY <2>1, <4>1 DEF ChainInv, Chained
      <4>5. 1 < k
        BY <2>1, <4>3, <4>4
      <4>6. NotAfter(ToSet(call[c].revs), ToSet(call[d].revs))
        BY <1>1, <2>4, <4>1, <4>3, <4>4, <4>5 DEF ChainInv, ChainInOrder
      <4>7. call[d].revs = <<Carried(d)>>
        BY <2>1, CarriedType
      <4> QED BY <1>2, <4>6, <4>7, OneEntry DEF NotAfter
    <3> QED BY <1>7, <1>8, <1>10, <1>11, <2>2, <2>4, <3>1 DEF NotAfter
  <2> QED BY <2>3, <2>4
<1>17. Scanning(c)'
  <2>1. Carried(c)' = e /\ call'[c].run = r
    BY <1>1, <1>2, <1>7, <1>11
  <2>2. r \notin torn' /\ ~HasManifest(r)'
    BY <1>4, <1>7 DEF HasManifest
  <2>3. \A k \in Runs : e.id \notin stored[k] \cup Ids(manifest[k])
    BY <1>2, <1>4 DEF CarriedIsNew, Carrying
  <2>4. legacy'[r] = Append(legacy[r], e) /\ e.id \notin Ids(legacy[r]) /\ legacy[r] \in Bundles
    BY <1>5, <1>6, <1>10, <2>3
  <2>5. \A k \in Runs : /\ k # r => e.id \notin stored'[k]
                        /\ e.id \notin Ids(manifest'[k])
    BY <1>7, <1>10, <2>3
  <2> QED BY <2>1, <2>2, <2>4, <2>5 DEF Scanning
<1> QED BY <1>12, <1>13, <1>14, <1>15, <1>16, <1>17

\* commitManifest writes what it carries where there was nothing.
LEMMA CommitWrites ==
  ASSUME OneProcess, InOneProcess, WritesInv, NEW c \in Clients, CommitLink(c)
  PROVE  WritesInv'
<1> USE DEF InOneProcess, TypeInv, CallsInv, WritesInv
<1>1. PICK r \in Runs : r = call[c].run
  BY DEF TypeOK, Calls
<1>2. PICK e \in NewEntries(RevIds, Stamps) :
        e = Carried(c) /\ call[c].revs = <<e>> /\ e.id \in issued
  BY CarriedType DEF CommitLink, Carrying
<1>3. /\ UNCHANGED <<legacy, stored, issued>> /\ pc[c] = "link"
      /\ pc'[c] = "idle" /\ buf'[c] = <<>>
      /\ \A d \in Clients \ {c} : pc'[d] = pc[d] /\ call'[d] = call[d] /\ buf'[d] = buf[d]
  BY DEF CommitLink, Settle, TypeOK
<1>4. /\ \A k \in Runs \ {r} : manifest'[k] = manifest[k]
      /\ manifest'[r] = manifest[r] \/ manifest'[r] = <<e>>
  BY <1>1, <1>2 DEF CommitLink, TypeOK
<1>5. \A d \in Clients \ {c} : pc[d] \in {"idle", "down", "queued"}
  BY WorkingAlone DEF Step
<1>6. \A d \in Clients \ {c} : Carried(d)' = Carried(d)
  BY <1>3 DEF Carried
<1>7. \A k \in Runs : Ids(manifest'[k]) \subseteq Ids(manifest[k]) \cup {e.id}
  BY <1>4, OneEntry
<1>8. CallsNew'
  BY <1>3 DEF CallsNew, Carrying
<1>9. IdsIssued'
  BY <1>2, <1>3, <1>7 DEF IdsIssued
<1>10. CarriedIsNew'
  <2> SUFFICES ASSUME NEW d \in Clients, pc'[d] \in Carrying
               PROVE  /\ \A k \in Runs : Carried(d)'.id \notin stored'[k] \cup Ids(manifest'[k])
                      /\ \A a \in Clients \ {d} : pc'[a] \in Carrying =>
                           Carried(d)'.id # Carried(a)'.id
    BY DEF CarriedIsNew
  <2>1. d # c /\ pc[d] \in Carrying /\ Carried(d)' = Carried(d)
    BY <1>3, <1>6 DEF Carrying
  <2>2. Carried(d).id # e.id
    BY <1>2, <1>3, <2>1 DEF CarriedIsNew, Carrying
  <2>3. \A k \in Runs : Carried(d).id \notin stored[k] \cup Ids(manifest[k])
    BY <2>1 DEF CarriedIsNew
  <2>4. \A k \in Runs : Carried(d).id \notin stored'[k] \cup Ids(manifest'[k])
    BY <1>3, <1>7, <2>2, <2>3
  <2>5. \A a \in Clients \ {d} : pc'[a] \in Carrying => pc[a] \in Carrying /\ Carried(a)' = Carried(a)
    BY <1>3, <1>6 DEF Carrying
  <2> QED BY <2>1, <2>4, <2>5 DEF CarriedIsNew
<1>11. FilesInOrder'
  <2>1. ASSUME NEW k \in Runs PROVE Len(manifest'[k]) <= 1
    <3>1. CASE manifest'[k] = manifest[k]
      BY <3>1 DEF FilesInOrder
    <3>2. CASE manifest'[k] = <<e>>
      BY <3>2, OneEntry
    <3> QED BY <1>4, <3>1, <3>2
  <2> QED BY <1>3, <2>1, EmptyBundle DEF FilesInOrder
<1>12. CarriedIsLast'
  BY <1>3, <1>6 DEF CarriedIsLast, Carrying
<1> QED BY <1>8, <1>9, <1>10, <1>11, <1>12

\* markStale changes no id and no timestamp, and nobody waits while it does.
LEMMA StaleWrites ==
  ASSUME OneProcess, InOneProcess, WritesInv, NEW c \in Clients, StaleWrite(c)
  PROVE  WritesInv'
<1> USE DEF InOneProcess, TypeInv, CallsInv, WritesInv
<1>1. PICK r \in Runs : r = call[c].run
  BY DEF TypeOK, Calls
<1>2. PICK b : b = StaleIn(buf[c], Cascade(buf[c], call[c].from))
  OBVIOUS
<1>3. /\ UNCHANGED <<manifest, stored, issued>>
      /\ pc'[c] = "idle" /\ buf'[c] = <<>>
      /\ \A d \in Clients \ {c} : pc'[d] = pc[d] /\ buf'[d] = buf[d]
  BY DEF StaleWrite, Settle, TypeOK
<1>4. \A d \in Clients \ {c} : pc[d] \in {"idle", "down"}
  BY DEF StaleWrite, StaleIsAlone, StalePc
<1>5. \A d \in Clients : pc'[d] \notin Carrying \cup {"scan"}
  BY <1>3, <1>4 DEF Carrying
<1>6. \A k \in Runs : legacy'[k] = legacy[k] \/ legacy'[k] = b
  BY <1>1, <1>2 DEF StaleWrite, TypeOK
<1>7. InOrder(b)
  BY <1>2, StaleInOrder DEF FilesInOrder, TypeOK, Bundles
<1>8. FilesInOrder'
  BY <1>3, <1>6, <1>7, EmptyBundle DEF FilesInOrder
<1>9. IdsIssued'
  BY <1>3 DEF IdsIssued
<1> QED BY <1>5, <1>8, <1>9 DEF CallsNew, CarriedIsNew, CarriedIsLast

\* The steps that write no revision.
LEMMA StepNoWrite ==
  ASSUME InOneProcess, WritesInv, NEW c \in Clients, Step(c),
         ~AppendWrite(c), ~CommitLink(c), ~StaleWrite(c)
  PROVE  WritesInv'
<1> USE DEF InOneProcess, TypeInv, WritesInv
<1>1. issued' = issued
  BY DEF Step, AppendOpen, AppendRead, EvictScan, EvictRemove, CommitOpen, WriteFails,
         StaleRead, StaleOpen
<1>2. ASSUME NEW r \in Runs
      PROVE  /\ legacy'[r] \in {legacy[r], <<>>}
             /\ manifest'[r] \in {manifest[r], <<>>}
             /\ stored'[r] \subseteq stored[r]
  <2>1. CASE EvictRemove(c)
    <3>1. PICK x \in doomed[c] :
            /\ IF x.mode = "semantic" THEN UNCHANGED <<legacy, torn, handles, stored>>
               ELSE /\ SetLegacy(x.run, <<>>)
                    /\ stored' = [stored EXCEPT ![x.run] = {}]
            /\ manifest' = IF x.mode = "legacy" THEN manifest
                           ELSE [manifest EXCEPT ![x.run] = <<>>]
      BY <2>1 DEF EvictRemove
    <3> QED BY <3>1 DEF SetLegacy, TypeOK
  <2>2. CASE StaleOpen(c)
    BY <2>2 DEF StaleOpen, TypeOK
  <2>3. CASE ~EvictRemove(c) /\ ~StaleOpen(c)
    BY <2>3 DEF Step, AppendOpen, AppendRead, EvictScan, CommitOpen, WriteFails, StaleRead, files
  <2> QED BY <2>1, <2>2, <2>3
<1>3. ASSUME NEW d \in Clients \ {c}
      PROVE  pc'[d] = pc[d] /\ call'[d] = call[d] /\ buf'[d] = buf[d]
  BY StepFrame
<1>4. /\ pc'[c] \in Carrying => pc[c] \in Carrying /\ call'[c] = call[c]
      /\ pc'[c] # "scan"
      /\ buf'[c] \in {buf[c], <<>>, legacy[call[c].run]}
  <2>1. CASE Settle(c)
    BY <2>1 DEF Settle, TypeOK, Carrying
  <2>2. CASE ~Settle(c)
    <3>1. CASE AppendOpen(c)
      BY <2>2, <3>1 DEF AppendOpen, Throw, TypeOK, Carrying
    <3>2. CASE AppendRead(c)
      BY <2>2, <3>2 DEF AppendRead, Throw, TypeOK, Carrying
    <3>3. CASE EvictScan(c) \/ EvictRemove(c)
      BY <2>2, <3>3 DEF EvictScan, EvictRemove, Throw, TypeOK, Carrying
    <3>4. CASE CommitOpen(c) \/ WriteFails(c)
      BY <2>2, <3>4 DEF CommitOpen, WriteFails, Throw, TypeOK, Carrying
    <3>5. CASE StaleRead(c) \/ StaleOpen(c)
      BY <2>2, <3>5 DEF StaleRead, StaleOpen, Throw, TypeOK, Carrying
    <3> QED BY <3>1, <3>2, <3>3, <3>4, <3>5 DEF Step
  <2> QED BY <2>1, <2>2
<1>5. call[c].run \in Runs /\ \A d \in Clients : call[d].run \in Runs
  BY DEF TypeOK, Calls
<1>6. \A d \in Clients : InOrder(buf'[d])
  BY <1>3, <1>4, <1>5, EmptyBundle DEF FilesInOrder
<1>7. \A d \in Clients : /\ pc'[d] \in Carrying => pc[d] \in Carrying /\ call'[d] = call[d]
                         /\ pc'[d] = "scan" => pc[d] = "scan" /\ call'[d] = call[d]
  BY <1>3, <1>4
<1> HIDE DEF WritesInv
<1> QED BY <1>1, <1>2, <1>5, <1>6, <1>7, NoWrite

LEMMA WritesInvNext ==
  ASSUME OneProcess, MaxCrashes = 0, InOneProcess, ChainInv, WritesInv, [Next]_vars
  PROVE  WritesInv'
<1> USE DEF InOneProcess, TypeInv, CallsInv
<1>1. ASSUME UNCHANGED <<files, issued, stored, buf>>,
             \A c \in Clients : pc'[c] \in Carrying \cup {"scan"} =>
                                  pc'[c] = pc[c] /\ call'[c] = call[c]
      PROVE  WritesInv'
  <2>1. \A c \in Clients : call[c].run \in Runs
    BY DEF TypeOK, Calls
  <2>2. \A c \in Clients : InOrder(buf'[c])
    BY <1>1 DEF WritesInv, FilesInOrder
  <2> QED BY <1>1, <2>1, <2>2, NoWrite DEF files
<1>2. CASE UNCHANGED vars
  BY <1>1, <1>2 DEF vars, files
<1>3. ASSUME NEW c \in Clients, CallAppend(c) \/ CallCommit(c)
      PROVE  WritesInv'
  BY <1>3, CallWrites DEF CallAppend, CallCommit
<1>4. ASSUME NEW c \in Clients, CallStale(c)
      PROVE  WritesInv'
  <2>1. /\ UNCHANGED <<files, issued, stored, buf>> /\ pc'[c] = "staleRead"
        /\ \A d \in Clients \ {c} : pc'[d] = pc[d] /\ call'[d] = call[d]
    BY <1>4 DEF CallStale, TypeOK
  <2> QED BY <1>1, <2>1 DEF Carrying
<1>5. ASSUME NEW c \in Clients, Step(c)
      PROVE  WritesInv'
  BY <1>5, AppendWrites, CommitWrites, StaleWrites, StepNoWrite
<1>6. ASSUME NEW p \in Procs, Crash(p) \/ Restart(p)
      PROVE  WritesInv'
  <2>1. ~Crash(p)
    BY DEF Crash, TypeOK
  <2>2. /\ UNCHANGED <<files, issued, stored, buf>>
        /\ \A c \in Clients : pc[c] = "down"
        /\ \A c \in Clients : pc'[c] \in {"idle", "down"}
    BY <1>6, <2>1 DEF Restart, DownTogether
  <2> QED BY <1>1, <2>2 DEF Carrying
<1> QED BY <1>2, <1>3, <1>4, <1>5, <1>6 DEF Next

-----------------------------------------------------------------------------
(* The call at work.                                                       *)

\* The others' calls and what they read stay; so do their eviction passes, which are over.
LEMMA StepDoomed ==
  ASSUME TypeOK, DoomedAtRemove, NEW c \in Clients, Step(c)
  PROVE  /\ \A d \in Clients \ {c} : doomed'[d] = doomed[d]
         /\ doomed'[c] # {} => pc'[c] = "remove"
<1>1. CASE Settle(c)
  BY <1>1 DEF Settle, TypeOK
<1>2. CASE ~Settle(c)
  <2>1. CASE EvictScan(c)
    <3>1. \A d \in Clients \ {c} : doomed'[d] = doomed[d]
      BY <1>2, <2>1 DEF EvictScan, Throw, TypeOK
    <3>2. pc'[c] = "remove"
      BY <1>2, <2>1 DEF EvictScan, Throw, TypeOK
    <3> QED BY <3>1, <3>2
  <2>2. CASE EvictRemove(c)
    <3>1. \A d \in Clients \ {c} : doomed'[d] = doomed[d]
      BY <1>2, <2>2 DEF EvictRemove, TypeOK
    <3>2. pc'[c] = "remove"
      BY <1>2, <2>2 DEF EvictRemove, TypeOK
    <3> QED BY <3>1, <3>2
  <2>3. CASE ~EvictScan(c) /\ ~EvictRemove(c)
    <3>1. doomed' = doomed /\ pc[c] # "remove"
      BY <1>2, <2>3 DEF Step, AppendOpen, AppendRead, AppendWrite, CommitOpen, CommitLink,
                        WriteFails, StaleRead, StaleOpen, StaleWrite, Throw
    <3> QED BY <3>1 DEF DoomedAtRemove
  <2> QED BY <2>1, <2>2, <2>3
<1> QED BY <1>1, <1>2

\* A markStale that has its file open is the only call there is.
LEMMA OnlyHandle ==
  ASSUME OneProcess, InOneProcess, HandleIsOpen, NEW c \in Clients, Step(c), NEW r \in Runs
  PROVE  /\ handles[r] \subseteq {c}
         /\ c \in handles[r] => pc[c] = "staleWrite" /\ call[c].run = r
<1>1. \A d \in Clients \ {c} : pc[d] # "staleWrite"
  BY WorkingAlone DEF InOneProcess, TypeInv, CallsInv
<1>2. handles[r] \subseteq Clients
  BY DEF InOneProcess, TypeInv, TypeOK
<1> QED BY <1>1, <1>2 DEF HandleIsOpen

LEMMA StepHandles ==
  ASSUME OneProcess, InOneProcess, HandleIsOpen, NEW c \in Clients, Step(c)
  PROVE  HandleIsOpen'
<1> USE DEF InOneProcess, TypeInv
<1> SUFFICES ASSUME NEW r \in Runs, NEW d \in handles'[r]
             PROVE  pc'[d] = "staleWrite" /\ call'[d].run = r
  BY DEF HandleIsOpen
<1>1. /\ \A k \in Runs : handles[k] \subseteq {c}
      /\ \A k \in Runs : c \in handles[k] => pc[c] = "staleWrite" /\ call[c].run = k
  BY OnlyHandle
<1>2. CASE StaleOpen(c)
  <2>1. /\ \A k \in Runs : handles[k] = {} /\ UNCHANGED call
        /\ call[c].run \in Runs /\ pc'[c] = "staleWrite"
        /\ handles' = [handles EXCEPT ![call[c].run] = @ \cup {c}]
    BY <1>1, <1>2 DEF StaleOpen, TypeOK, Calls
  <2>2. r = call[c].run /\ d = c
    BY <2>1 DEF TypeOK
  <2> QED BY <2>1, <2>2
<1>3. CASE StaleWrite(c)
  <2>1. d \in handles[r] /\ d = c /\ r = call[c].run
    BY <1>1, <1>3 DEF StaleWrite, TypeOK
  <2>2. c \notin handles'[r]
    BY <1>3, <2>1 DEF StaleWrite, TypeOK
  <2> QED BY <2>1, <2>2
<1>4. CASE ~StaleOpen(c) /\ ~StaleWrite(c)
  <2>1. handles[r] = {}
    <3>1. pc[c] # "staleWrite"
      BY <1>4 DEF Step, AppendOpen, AppendRead, AppendWrite, EvictScan, EvictRemove, CommitOpen,
                  CommitLink, WriteFails, StaleRead
    <3> QED BY <1>1, <3>1
  <2>2. handles'[r] \in {handles[r], {}}
    <3>1. CASE EvictRemove(c)
      <4>1. PICK x \in doomed[c] :
              IF x.mode = "semantic" THEN UNCHANGED <<legacy, torn, handles, stored>>
              ELSE /\ SetLegacy(x.run, <<>>)
                   /\ stored' = [stored EXCEPT ![x.run] = {}]
        BY <3>1 DEF EvictRemove
      <4> QED BY <4>1 DEF SetLegacy, TypeOK
    <3>2. CASE ~EvictRemove(c)
      BY <1>4, <3>2 DEF Step, AppendOpen, AppendRead, AppendWrite, EvictScan, CommitOpen,
                  CommitLink, WriteFails, StaleRead, SetLegacy, files, TypeOK
    <3> QED BY <3>1, <3>2
  <2> QED BY <2>1, <2>2
<1> QED BY <1>2, <1>3, <1>4

LEMMA StepCascadable ==
  ASSUME TypeOK, NEW c \in Clients, Step(c), Cascadable(c)
  PROVE  Cascadable(c)'
<1>1. CASE Settle(c)
  BY <1>1 DEF Settle, TypeOK, Cascadable
<1>2. CASE ~Settle(c)
  <2>1. CASE StaleRead(c)
    <3>1. PICK b : b = legacy[call[c].run]
      OBVIOUS
    <3>2. /\ CanCascade(b, call[c].from) /\ call' = call
          /\ buf' = [buf EXCEPT ![c] = b]
      BY <1>2, <2>1, <3>1 DEF StaleRead, Throw
    <3>3. buf'[c] = b
      BY <3>2 DEF TypeOK
    <3> QED BY <3>2, <3>3 DEF Cascadable
  <2>2. CASE StaleOpen(c)
    BY <2>2 DEF StaleOpen, Cascadable
  <2>3. CASE ~StaleRead(c) /\ ~StaleOpen(c)
    <3>1. pc'[c] \notin {"staleOpen", "staleWrite"}
      BY <1>2, <2>3 DEF Step, AppendOpen, AppendRead, AppendWrite, EvictScan, EvictRemove,
                        CommitOpen, CommitLink, WriteFails, StaleWrite, Throw, TypeOK
    <3> QED BY <3>1 DEF Cascadable
  <2> QED BY <2>1, <2>2, <2>3
<1> QED BY <1>1, <1>2

LEMMA StepActs ==
  ASSUME OneProcess, InOneProcess, ChainInv, WritesInv, ActsInv, NEW c \in Clients, Step(c)
  PROVE  ActsInv'
<1> USE DEF InOneProcess, TypeInv, ActsInv
<1>1. \A d \in Clients \ {c} : pc'[d] = pc[d] /\ pc[d] \in {"idle", "down", "queued"}
  BY StepFrame, WorkingAlone DEF CallsInv
<1>2. DoomedAtRemove'
  BY <1>1, StepDoomed DEF DoomedAtRemove
<1>3. HandleIsOpen'
  BY StepHandles
<1>4. Cascadable(c)'
  BY StepCascadable
<1>5. Scanning(c)'
  <2>1. CASE AppendWrite(c)
    BY <2>1, AppendWrites
  <2>2. CASE ~AppendWrite(c)
    <3>1. pc'[c] # "scan"
      <4>1. CASE Settle(c)
        BY <4>1 DEF Settle, TypeOK
      <4>2. CASE ~Settle(c)
        BY <2>2, <4>2 DEF Step, AppendOpen, AppendRead, EvictScan, EvictRemove, CommitOpen,
           CommitLink, WriteFails, StaleRead, StaleOpen, StaleWrite, Throw, TypeOK
      <4> QED BY <4>1, <4>2
    <3> QED BY <3>1 DEF Scanning
  <2> QED BY <2>1, <2>2
<1>6. \A d \in Clients \ {c} : Scanning(d)' /\ Cascadable(d)'
  BY <1>1 DEF Scanning, Cascadable
<1> QED BY <1>2, <1>3, <1>4, <1>5, <1>6

LEMMA ActsInvNext ==
  ASSUME OneProcess, MaxCrashes = 0, InOneProcess, ChainInv, WritesInv, ActsInv, [Next]_vars
  PROVE  ActsInv'
<1> USE DEF InOneProcess, TypeInv, CallsInv
<1>1. ASSUME UNCHANGED <<files, stored, doomed, buf>>,
             \A c \in Clients : \/ pc'[c] = pc[c] /\ call'[c] = call[c]
                                \/ /\ pc[c] \in {"idle", "down"}
                                   /\ pc'[c] \in {"idle", "queued", "staleRead"}
      PROVE  ActsInv'
  <2>1. DoomedAtRemove' /\ HandleIsOpen'
    <3>1. DoomedAtRemove'
      BY <1>1 DEF ActsInv, DoomedAtRemove
    <3>2. HandleIsOpen'
      BY <1>1 DEF ActsInv, HandleIsOpen, files, TypeOK
    <3> QED BY <3>1, <3>2
  <2>2. ASSUME NEW c \in Clients PROVE Scanning(c)' /\ Cascadable(c)'
    BY <1>1 DEF ActsInv, Scanning, Cascadable, Carried, HasManifest, files
  <2> QED BY <2>1, <2>2 DEF ActsInv
<1>2. CASE UNCHANGED vars
  BY <1>1, <1>2 DEF vars, files
<1>3. ASSUME NEW c \in Clients, CallAppend(c) \/ CallCommit(c) \/ CallStale(c)
      PROVE  ActsInv'
  <2>1. /\ UNCHANGED <<files, stored, doomed, buf>> /\ pc[c] = "idle"
        /\ pc'[c] \in {"queued", "staleRead"}
        /\ \A d \in Clients \ {c} : pc'[d] = pc[d] /\ call'[d] = call[d]
    BY <1>3 DEF CallAppend, CallCommit, CallChained, CallStale, TypeOK
  <2> QED BY <1>1, <2>1
<1>4. ASSUME NEW c \in Clients, Step(c)
      PROVE  ActsInv'
  BY <1>4, StepActs
<1>5. ASSUME NEW p \in Procs, Crash(p) \/ Restart(p)
      PROVE  ActsInv'
  <2>1. ~Crash(p)
    BY DEF Crash, TypeOK
  <2>2. /\ UNCHANGED <<files, stored, doomed, buf, call>>
        /\ \A c \in Clients : pc[c] = "down"
        /\ \A c \in Clients : pc'[c] \in {"idle", pc[c]}
    BY <1>5, <2>1 DEF Restart, DownTogether
  <2> QED BY <1>1, <2>2
<1> QED BY <1>2, <1>3, <1>4, <1>5 DEF Next

-----------------------------------------------------------------------------
(* The mapping.                                                            *)

StoreInv == InOneProcess /\ TornIsHeld /\ PassesLeave /\ ChainInv /\ WritesInv /\ ActsInv

LEMMA StoreInvInit == Init => StoreInv
<1> SUFFICES ASSUME Init PROVE StoreInv
  OBVIOUS
<1>1. InOneProcess /\ TornIsHeld /\ PassesLeave
  BY InOneProcessInit, TornIsHeldInit, PassesLeaveInit
<1>2. ChainInv
  <2>1. \A p \in Procs : DOMAIN queue[p] = {}
    BY DEF Init
  <2>2. \A c \in Clients : pc[c] = "idle"
    BY DEF Init
  <2> QED BY <2>1, <2>2 DEF ChainInv, Chained, ChainInOrder, Active
<1>3. \A c \in Clients : pc[c] \notin Carrying \cup {"scan", "staleOpen", "staleWrite"}
  BY DEF Init, Carrying
<1>4. WritesInv
  <2>1. \A r \in Runs : legacy[r] \in {OldBundle, <<>>}
    BY DEF Init
  <2>2. Ids(OldBundle) = {0} /\ InOrder(OldBundle)
    <3>1. /\ DOMAIN OldBundle = {1} /\ OldBundle[1].id = 0 /\ OldBundle[1].stamp = 1
      BY DEF OldBundle
    <3> QED BY <3>1 DEF Ids, InOrder
  <2>3. \A r \in Runs : stored[r] = Ids(legacy[r]) /\ manifest[r] = <<>>
    BY DEF Init
  <2>4. IdsIssued
    BY <2>1, <2>2, <2>3, EmptyBundle DEF IdsIssued
  <2>5. FilesInOrder
    <3>1. \A c \in Clients : buf[c] = <<>>
      BY DEF Init
    <3> QED BY <2>1, <2>2, <2>3, <3>1, EmptyBundle DEF FilesInOrder
  <2> QED BY <1>3, <2>4, <2>5 DEF WritesInv, CallsNew, CarriedIsNew, CarriedIsLast
<1>5. ActsInv
  <2>1. DoomedAtRemove /\ HandleIsOpen
    BY DEF Init, DoomedAtRemove, HandleIsOpen
  <2> QED BY <1>3, <2>1 DEF ActsInv, Scanning, Cascadable
<1> QED BY <1>1, <1>2, <1>4, <1>5 DEF StoreInv

LEMMA StoreInvNext ==
  OneProcess /\ StaleAlone /\ MaxCrashes = 0 /\ StoreInv /\ [Next]_vars => StoreInv'
BY InOneProcessNext, TornIsHeldNext, PassesLeaveNext, ChainInvNext, WritesInvNext, ActsInvNext
   DEF StoreInv

\* The content of a run's file, in the mode it is held in.
FileOf(k) == IF HasManifest(k) THEN manifest[k] ELSE legacy[k]

\* The pending change of the call of c taken back.
AbsRun(c, k) ==
  IF k \in RunsOf(doomed[c]) THEN <<>>
  ELSE IF HasManifest(k) THEN manifest[k]
  ELSE IF c \in handles[k] THEN buf[c]
  ELSE IF pc[c] = "scan" /\ call[c].run = k THEN Front(legacy[k])
  ELSE legacy[k]

AbsRuns(c) ==
  /\ AbsBundle = [k \in Runs |-> AbsRun(c, k)]
  /\ AbsCommitted = {k \in Runs : HasManifest(k) /\ k \notin RunsOf(doomed[c])}

Alone(c) == \A d \in Clients \ {c} : pc[d] \in {"idle", "down", "queued"}

AloneAbs ==
  \A c \in Clients : TypeOK /\ DoomedAtRemove /\ HandleIsOpen /\ Alone(c) => AbsRuns(c)

LEMMA AloneIsAbs == AloneAbs
<1> SUFFICES ASSUME NEW c \in Clients, TypeOK, DoomedAtRemove, HandleIsOpen, Alone(c)
             PROVE  AbsRuns(c)
  BY DEF AloneAbs
<1>1. ASSUME NEW k \in Runs
      PROVE  /\ PendingRemoval(k) <=> k \in RunsOf(doomed[c])
             /\ PendingStale(k) = IF c \in handles[k] THEN {c} ELSE {}
             /\ PendingEntry(k) <=> pc[c] = "scan" /\ call[c].run = k
  <2>1. \A d \in Clients \ {c} : doomed[d] = {} /\ pc[d] # "scan" /\ d \notin handles[k]
    BY DEF Alone, DoomedAtRemove, HandleIsOpen
  <2>2. PendingRemoval(k) <=> k \in RunsOf(doomed[c])
    BY <2>1 DEF PendingRemoval, RunsOf
  <2>3. PendingStale(k) = IF c \in handles[k] THEN {c} ELSE {}
    BY <2>1 DEF PendingStale, HandleIsOpen
  <2>4. PendingEntry(k) <=> pc[c] = "scan" /\ call[c].run = k
    BY <2>1 DEF PendingEntry
  <2> QED BY <2>2, <2>3, <2>4
<1>2. ASSUME NEW k \in Runs PROVE AbsBundle[k] = AbsRun(c, k)
  <2>1. (CHOOSE d \in {c} : TRUE) = c
    OBVIOUS
  <2>2. CASE c \in handles[k]
    <3>1. PendingStale(k) = {c} /\ PendingStale(k) # {}
      BY <1>1, <2>2
    <3> QED BY <1>1, <2>1, <2>2, <3>1 DEF AbsBundle, AbsRun
  <2>3. CASE c \notin handles[k]
    BY <1>1, <2>3 DEF AbsBundle, AbsRun
  <2> QED BY <2>2, <2>3
<1>3. AbsBundle = [k \in Runs |-> AbsRun(c, k)]
  BY <1>2 DEF AbsBundle
<1>4. AbsCommitted = {k \in Runs : HasManifest(k) /\ k \notin RunsOf(doomed[c])}
  BY <1>1 DEF AbsCommitted
<1> QED BY <1>3, <1>4 DEF AbsRuns

\* With no change pending, a run is what its file holds.
FilesAreAbs ==
  /\ AbsBundle = [k \in Runs |-> FileOf(k)]
  /\ AbsCommitted = {k \in Runs : HasManifest(k)}

PlainAbs ==
  \A c \in Clients :
    TypeOK /\ DoomedAtRemove /\ HandleIsOpen /\ Alone(c)
      /\ pc[c] \notin {"scan", "remove", "staleWrite"} => FilesAreAbs

LEMMA NothingPending == PlainAbs
<1> SUFFICES ASSUME NEW c \in Clients, TypeOK, DoomedAtRemove, HandleIsOpen, Alone(c),
                    pc[c] \notin {"scan", "remove", "staleWrite"}
             PROVE  FilesAreAbs
  BY DEF PlainAbs
<1>1. AbsRuns(c)
  BY AloneIsAbs DEF AloneAbs
<1>2. RunsOf(doomed[c]) = {} /\ \A k \in Runs : c \notin handles[k]
  BY DEF DoomedAtRemove, HandleIsOpen, RunsOf
<1>3. \A k \in Runs : AbsRun(c, k) = FileOf(k)
  BY <1>2 DEF AbsRun, FileOf
<1> QED BY <1>1, <1>2, <1>3 DEF AbsRuns, FilesAreAbs

\* Before and after a step of a call, only its own change is pending.
LEMMA StepMapped ==
  ASSUME OneProcess, StoreInv, StoreInv', NEW c \in Clients, Step(c)
  PROVE  /\ AbsRuns(c) /\ AbsRuns(c)'
         /\ pc[c] \notin {"scan", "remove", "staleWrite"} => FilesAreAbs
         /\ pc'[c] \notin {"scan", "remove", "staleWrite"} => FilesAreAbs'
<1> USE DEF StoreInv, InOneProcess, TypeInv, CallsInv, ActsInv
<1>1. Alone(c) /\ Alone(c)'
  BY WorkingAlone, StepFrame DEF Alone
<1>2. AloneAbs /\ AloneAbs'
  BY AloneIsAbs, PTL
<1>3. PlainAbs /\ PlainAbs'
  BY NothingPending, PTL
<1>4. AbsRuns(c) /\ AbsRuns(c)'
  BY <1>1, <1>2 DEF AloneAbs
<1> QED BY <1>1, <1>3, <1>4 DEF PlainAbs

\* The instance's operators on bundles are this module's.
LEMMA AbsOps ==
  /\ \A r \in Runs : \A e : Abs!AppendEntry(r, e) <=>
       /\ r \notin AbsCommitted
       /\ \A k \in Runs : e.id \notin Ids(AbsBundle[k])
       /\ \E D \in DoomedSets({k \in Runs : [AbsBundle EXCEPT ![r] = Append(@, e)][k] # <<>>},
                              Abs!LastStamp([AbsBundle EXCEPT ![r] = Append(@, e)]), MaxBundles) :
            /\ AbsBundle' = [k \in Runs |-> IF k \in D THEN <<>>
                                            ELSE [AbsBundle EXCEPT ![r] = Append(@, e)][k]]
            /\ AbsCommitted' = AbsCommitted \ D
  /\ \A r \in Runs : \A e : Abs!CommitManifest(r, <<e>>) <=>
       /\ r \notin AbsCommitted
       /\ AbsBundle[r] = <<>>
       /\ \A k \in Runs : e.id \notin Ids(AbsBundle[k])
       /\ AbsBundle' = [AbsBundle EXCEPT ![r] = <<e>>]
       /\ AbsCommitted' = AbsCommitted \cup {r}
  /\ \A r \in Runs : \A from : Abs!MarkStale(r, from) <=>
       /\ r \notin AbsCommitted
       /\ CanCascade(AbsBundle[r], from)
       /\ AbsBundle' = [AbsBundle EXCEPT ![r] = StaleIn(@, Cascade(@, from))]
       /\ AbsCommitted' = AbsCommitted
  /\ Abs!NewEntries(RevIds, Stamps) = NewEntries(RevIds, Stamps)
  /\ \A b : Abs!LastStamp(b) =
       [k \in Runs |-> IF b[k] = <<>> THEN 0
                       ELSE CHOOSE t \in {e.stamp : e \in ToSet(b[k])} :
                              \A e \in ToSet(b[k]) : e.stamp <= t]
<1>1. \A S : Abs!Cardinality(S) = Cardinality(S)
  BY DEF Abs!Cardinality, Cardinality
<1>2. /\ \A b : Abs!Ids(b) = Ids(b) /\ Abs!ToSet(b) = ToSet(b)
      /\ \A b, S : Abs!GrowStale(b, S) = GrowStale(b, S)
  BY DEF Abs!Ids, Ids, Abs!ToSet, ToSet, Abs!GrowStale, GrowStale
<1>3. \A b, from : Abs!Cascade(b, from) = Cascade(b, from)
  BY <1>2, Zenon DEF Abs!Cascade, Cascade
<1>4. /\ \A b, from : Abs!CanCascade(b, from) <=> CanCascade(b, from)
      /\ \A b, S : Abs!StaleIn(b, S) = StaleIn(b, S)
  BY <1>2 DEF Abs!CanCascade, CanCascade, Abs!StaleIn, StaleIn
<1>5. \A H, last, max : Abs!DoomedSets(H, last, max) = DoomedSets(H, last, max)
  BY <1>1, Zenon DEF Abs!DoomedSets, DoomedSets
<1>6. \A e : (e.id \notin Abs!StoredIds(AbsBundle)) <=> \A k \in Runs : e.id \notin Ids(AbsBundle[k])
  BY <1>2 DEF Abs!StoredIds
<1>7. \A b : Abs!Held(b) = {k \in Runs : b[k] # <<>>}
  BY DEF Abs!Held
<1>8. ASSUME NEW r \in Runs, NEW e
      PROVE  Abs!AppendEntry(r, e) <=>
       /\ r \notin AbsCommitted
       /\ \A k \in Runs : e.id \notin Ids(AbsBundle[k])
       /\ \E D \in DoomedSets({k \in Runs : [AbsBundle EXCEPT ![r] = Append(@, e)][k] # <<>>},
                              Abs!LastStamp([AbsBundle EXCEPT ![r] = Append(@, e)]), MaxBundles) :
            /\ AbsBundle' = [k \in Runs |-> IF k \in D THEN <<>>
                                            ELSE [AbsBundle EXCEPT ![r] = Append(@, e)][k]]
            /\ AbsCommitted' = AbsCommitted \ D
  BY <1>5, <1>6, <1>7, Zenon DEF Abs!AppendEntry, Abs!EvictFrom, Abs!EvictManifests
<1>9. ASSUME NEW r \in Runs, NEW e
      PROVE  Abs!CommitManifest(r, <<e>>) <=>
       /\ r \notin AbsCommitted
       /\ AbsBundle[r] = <<>>
       /\ \A k \in Runs : e.id \notin Ids(AbsBundle[k])
       /\ AbsBundle' = [AbsBundle EXCEPT ![r] = <<e>>]
       /\ AbsCommitted' = AbsCommitted \cup {r}
  <2>1. Abs!Ids(<<e>>) = {e.id}
    BY <1>2, OneEntry
  <2>2. Abs!Ids(<<e>>) \cap Abs!StoredIds(AbsBundle) = {} <=>
          \A k \in Runs : e.id \notin Ids(AbsBundle[k])
    BY <1>6, <2>1
  <2> QED BY <2>2 DEF Abs!CommitManifest
<1>10. ASSUME NEW r \in Runs, NEW from
       PROVE  Abs!MarkStale(r, from) <=>
       /\ r \notin AbsCommitted
       /\ CanCascade(AbsBundle[r], from)
       /\ AbsBundle' = [AbsBundle EXCEPT ![r] = StaleIn(@, Cascade(@, from))]
       /\ AbsCommitted' = AbsCommitted
  BY <1>3, <1>4, Zenon DEF Abs!MarkStale
<1>11. Abs!NewEntries(RevIds, Stamps) = NewEntries(RevIds, Stamps)
  BY DEF Abs!NewEntries, NewEntries
<1>12. ASSUME NEW b PROVE Abs!LastStamp(b) =
       [k \in Runs |-> IF b[k] = <<>> THEN 0
                       ELSE CHOOSE t \in {e.stamp : e \in ToSet(b[k])} :
                              \A e \in ToSet(b[k]) : e.stamp <= t]
  BY DEF Abs!LastStamp, Abs!ToSet, ToSet
<1> QED BY <1>8, <1>9, <1>10, <1>11, <1>12

LEMMA InitImplements == Init => Abs!Init
<1> SUFFICES ASSUME Init PROVE Abs!Init
  OBVIOUS
<1>1. \A r \in Runs : /\ ~PendingRemoval(r) /\ ~HasManifest(r) /\ PendingStale(r) = {}
                      /\ ~PendingEntry(r)
  BY DEF Init, PendingRemoval, HasManifest, PendingStale, PendingEntry
<1>2. AbsBundle = [r \in Runs |-> IF r \in OldRuns THEN OldBundle ELSE <<>>]
  BY <1>1 DEF AbsBundle, Init
<1>3. AbsCommitted = {}
  BY <1>1 DEF AbsCommitted
<1> QED BY <1>2, <1>3 DEF Abs!Init, Abs!OldBundle, OldBundle

\* The steps of a call that leave the store as it was.
LEMMA LookStutters ==
  ASSUME OneProcess, StoreInv, StoreInv', NEW c \in Clients, Step(c),
         ~AppendWrite(c), ~EvictScan(c), ~EvictRemove(c), ~CommitLink(c),
         ~StaleOpen(c), ~StaleWrite(c)
  PROVE  UNCHANGED <<AbsBundle, AbsCommitted>>
<1> USE DEF StoreInv, InOneProcess, TypeInv, CallsInv, ActsInv
<1>2. UNCHANGED files /\ pc[c] \notin {"scan", "remove", "staleWrite"}
  BY DEF Step, AppendOpen, AppendRead, CommitOpen, WriteFails, StaleRead
<1>3. pc'[c] \notin {"scan", "remove", "staleWrite"}
  <2>1. CASE Settle(c)
    BY <2>1 DEF Settle, TypeOK
  <2>2. CASE ~Settle(c)
    BY <2>2 DEF Step, AppendOpen, AppendRead, CommitOpen, WriteFails, StaleRead, Throw, TypeOK
  <2> QED BY <2>1, <2>2
<1>4. \A k \in Runs : FileOf(k)' = FileOf(k) /\ HasManifest(k)' = HasManifest(k)
  BY <1>2 DEF FileOf, HasManifest, files
<1>5. FilesAreAbs /\ FilesAreAbs'
  BY <1>2, <1>3, StepMapped
<1> QED BY <1>4, <1>5 DEF FilesAreAbs

\* Writing the entry, opening the file and deleting a bundle show nothing either.
LEMMA AppendWriteStutters ==
  ASSUME OneProcess, StoreInv, StoreInv', NEW c \in Clients, AppendWrite(c)
  PROVE  UNCHANGED <<AbsBundle, AbsCommitted>>
<1> USE DEF StoreInv, InOneProcess, TypeInv, CallsInv, WritesInv, ActsInv
<1>1. PICK r \in Runs : r = call[c].run
  BY DEF TypeOK, Calls
<1>2. PICK e \in NewEntries(RevIds, Stamps) : e = Carried(c) /\ call[c].revs = <<e>>
  BY CarriedType DEF AppendWrite, Carrying
<1>3. ~HasManifest(r) /\ buf[c] = legacy[r] /\ legacy[r] \in Bundles
  BY <1>1 DEF AppendWrite, Checked, CheckedOf, TypeOK, Bundles
<1>4. /\ legacy' = [legacy EXCEPT ![r] = Append(legacy[r], e)] /\ manifest' = manifest
      /\ pc' = [pc EXCEPT ![c] = "scan"] /\ call' = call /\ doomed' = doomed
      /\ handles' = [handles EXCEPT ![r] = {}] /\ pc[c] = "write"
  BY <1>1, <1>2, <1>3, OneEntry DEF AppendWrite, SetLegacy, Carried
<1>5. FilesAreAbs /\ AbsRuns(c)'
  BY <1>4, StepMapped DEF Step
<1>6. /\ RunsOf(doomed'[c]) = {} /\ pc'[c] = "scan"
      /\ \A k \in Runs : c \notin handles'[k]
  <2>1. pc'[c] = "scan"
    BY <1>4 DEF TypeOK
  <2> QED BY <1>4, <2>1 DEF DoomedAtRemove, HandleIsOpen, RunsOf
<1>7. ASSUME NEW k \in Runs PROVE AbsRun(c, k)' = FileOf(k)
  <2>1. CASE k = r
    <3>1. legacy'[r] = Append(legacy[r], e)
      BY <1>4 DEF TypeOK
    <3>2. Front(Append(legacy[r], e)) = legacy[r]
      BY <1>3, NewIsEntry, FrontAppend DEF Bundles
    <3>3. AbsRun(c, k)' = Front(legacy'[r])
      BY <1>1, <1>3, <1>4, <1>6, <2>1 DEF AbsRun, HasManifest
    <3> QED BY <1>3, <2>1, <3>1, <3>2, <3>3 DEF FileOf
  <2>2. CASE k # r
    <3>1. legacy'[k] = legacy[k]
      BY <1>4, <2>2 DEF TypeOK
    <3> QED BY <1>1, <1>4, <1>6, <2>2, <3>1 DEF AbsRun, FileOf, HasManifest
  <2> QED BY <2>1, <2>2
<1>8. \A k \in Runs : HasManifest(k)' = HasManifest(k)
  BY <1>4 DEF HasManifest
<1> QED BY <1>5, <1>6, <1>7, <1>8 DEF FilesAreAbs, AbsRuns

LEMMA StaleOpenStutters ==
  ASSUME OneProcess, StoreInv, StoreInv', NEW c \in Clients, StaleOpen(c)
  PROVE  UNCHANGED <<AbsBundle, AbsCommitted>>
<1> USE DEF StoreInv, InOneProcess, TypeInv, CallsInv, ActsInv
<1>1. PICK r \in Runs : r = call[c].run
  BY DEF TypeOK, Calls
<1>2. ~HasManifest(r) /\ buf[c] = legacy[r] /\ pc[c] = "staleOpen"
  BY <1>1 DEF StaleOpen, Checked, CheckedOf, StalePc
<1>3. /\ legacy' = [legacy EXCEPT ![r] = <<>>] /\ manifest' = manifest
      /\ pc' = [pc EXCEPT ![c] = "staleWrite"] /\ doomed' = doomed /\ buf' = buf
      /\ handles' = [handles EXCEPT ![r] = @ \cup {c}]
  BY <1>1 DEF StaleOpen
<1>4. FilesAreAbs /\ AbsRuns(c)'
  BY <1>2, StepMapped DEF Step
<1>5. /\ RunsOf(doomed'[c]) = {} /\ pc'[c] = "staleWrite"
      /\ \A k \in Runs : c \in handles'[k] <=> k = r
  <2>1. pc'[c] = "staleWrite"
    BY <1>3 DEF TypeOK
  <2>2. \A k \in Runs : c \notin handles[k]
    BY <1>2 DEF HandleIsOpen
  <2> QED BY <1>2, <1>3, <2>1, <2>2 DEF DoomedAtRemove, RunsOf, TypeOK
<1>6. ASSUME NEW k \in Runs PROVE AbsRun(c, k)' = FileOf(k)
  <2>1. CASE k = r
    BY <1>2, <1>3, <1>5, <2>1 DEF AbsRun, FileOf, HasManifest
  <2>2. CASE k # r
    <3>1. legacy'[k] = legacy[k]
      BY <1>3, <2>2 DEF TypeOK
    <3> QED BY <1>3, <1>5, <2>2, <3>1 DEF AbsRun, FileOf, HasManifest
  <2> QED BY <2>1, <2>2
<1>7. \A k \in Runs : HasManifest(k)' = HasManifest(k)
  BY <1>3 DEF HasManifest
<1> QED BY <1>4, <1>5, <1>6, <1>7 DEF FilesAreAbs, AbsRuns

LEMMA EvictRemoveStutters ==
  ASSUME OneProcess, StoreInv, StoreInv', NEW c \in Clients, EvictRemove(c)
  PROVE  UNCHANGED <<AbsBundle, AbsCommitted>>
<1> USE DEF StoreInv, InOneProcess, TypeInv, CallsInv, ActsInv
<1>1. PICK x \in doomed[c] :
        /\ IF x.mode = "semantic" THEN UNCHANGED <<legacy, torn, handles, stored>>
           ELSE /\ SetLegacy(x.run, <<>>)
                /\ stored' = [stored EXCEPT ![x.run] = {}]
        /\ manifest' = IF x.mode = "legacy" THEN manifest
                       ELSE [manifest EXCEPT ![x.run] = <<>>]
        /\ IF doomed[c] = {x} THEN Settle(c)
           ELSE /\ doomed' = [doomed EXCEPT ![c] = @ \ {x}]
                /\ UNCHANGED <<pc, call, buf, queue>>
  BY DEF EvictRemove
<1>2. PICK r \in Runs : r = x.run
  BY DEF TypeOK, DoomedRecords
<1>3. pc[c] = "remove" /\ pc'[c] \in {"remove", "idle"}
  BY <1>1 DEF EvictRemove, Settle, TypeOK
<1>4. Held' = Held \ {r}
  BY <1>1, <1>2, <1>3, RemovedIsGone DEF PassesLeave
<1>5. legacy'[r] = <<>> /\ manifest'[r] = <<>>
  BY <1>4 DEF Held, HasLegacy, HasManifest
<1>6. \A k \in Runs \ {r} : legacy'[k] = legacy[k] /\ manifest'[k] = manifest[k]
  BY <1>1, <1>2 DEF SetLegacy, TypeOK
<1>7. doomed'[c] = doomed[c] \ {x}
  BY <1>1 DEF Settle, TypeOK
<1>8. /\ r \in RunsOf(doomed[c])
      /\ \A k \in Runs \ {r} : k \in RunsOf(doomed'[c]) <=> k \in RunsOf(doomed[c])
  BY <1>2, <1>7 DEF RunsOf
<1>9. AbsRuns(c) /\ AbsRuns(c)'
  BY StepMapped DEF Step
<1>10. \A k \in Runs : c \notin handles[k] /\ c \notin handles'[k]
  BY <1>3 DEF HandleIsOpen
<1>11. ASSUME NEW k \in Runs
       PROVE  /\ AbsRun(c, k)' = AbsRun(c, k)
              /\ HasManifest(k)' /\ k \notin RunsOf(doomed'[c]) <=>
                   HasManifest(k) /\ k \notin RunsOf(doomed[c])
  <2>1. CASE k = r
    BY <1>3, <1>5, <1>8, <1>10, <2>1 DEF AbsRun, HasManifest
  <2>2. CASE k # r
    BY <1>3, <1>6, <1>8, <1>10, <2>2 DEF AbsRun, HasManifest
  <2> QED BY <2>1, <2>2
<1> QED BY <1>9, <1>11 DEF AbsRuns

\* The link publishes the manifest; markStale's write lands.
LEMMA CommitLinkImplements ==
  ASSUME OneProcess, StoreInv, StoreInv', NEW c \in Clients, CommitLink(c)
  PROVE  Abs!Next \/ UNCHANGED <<AbsBundle, AbsCommitted>>
<1> USE DEF StoreInv, InOneProcess, TypeInv, CallsInv, FilesInv, WritesInv, ActsInv
<1>1. PICK r \in Runs : r = call[c].run
  BY DEF TypeOK, Calls
<1>2. PICK e \in NewEntries(RevIds, Stamps) : e = Carried(c) /\ call[c].revs = <<e>>
  BY CarriedType DEF CommitLink, Carrying
<1>3. /\ legacy' = legacy /\ pc[c] = "link" /\ pc'[c] = "idle"
      /\ manifest' = IF HasManifest(r) THEN manifest ELSE [manifest EXCEPT ![r] = <<e>>]
  BY <1>1, <1>2 DEF CommitLink, Settle, LinkFree, TypeOK
<1>4. FilesAreAbs /\ FilesAreAbs'
  BY <1>3, StepMapped DEF Step
<1>5. CASE HasManifest(r)
  <2>1. \A k \in Runs : FileOf(k)' = FileOf(k) /\ HasManifest(k)' = HasManifest(k)
    BY <1>3, <1>5 DEF FileOf, HasManifest
  <2> QED BY <1>4, <2>1 DEF FilesAreAbs
<1>6. CASE ~HasManifest(r)
  <2>1. legacy[r] = <<>>
    BY <1>1, <1>3 DEF Checked, CheckedOf, HasLegacy
  <2>2. \A k \in Runs : e.id \notin Ids(AbsBundle[k])
    <3> SUFFICES ASSUME NEW k \in Runs PROVE e.id \notin Ids(FileOf(k))
      BY <1>4 DEF FilesAreAbs
    <3>1. e.id \notin stored[k] \cup Ids(manifest[k])
      BY <1>2, <1>3 DEF CarriedIsNew, Carrying
    <3>2. Ids(legacy[k]) \subseteq stored[k]
      BY EmptyBundle DEF NoRevisionLost, TornIsEmpty
    <3> QED BY <3>1, <3>2 DEF FileOf
  <2>3. r \notin AbsCommitted /\ AbsBundle[r] = <<>>
    BY <1>4, <1>6, <2>1 DEF FilesAreAbs, FileOf
  <2>4. /\ manifest'[r] = <<e>> /\ <<e>> # <<>>
        /\ \A k \in Runs \ {r} : manifest'[k] = manifest[k]
    BY <1>3, <1>6, OneEntry DEF TypeOK
  <2>5. AbsBundle' = [AbsBundle EXCEPT ![r] = <<e>>]
    <3>1. \A k \in Runs : FileOf(k)' = IF k = r THEN <<e>> ELSE FileOf(k)
      BY <1>3, <2>4 DEF FileOf, HasManifest
    <3> QED BY <1>4, <3>1 DEF FilesAreAbs
  <2>6. AbsCommitted' = AbsCommitted \cup {r}
    BY <1>4, <2>4 DEF FilesAreAbs, HasManifest
  <2>7. Abs!CommitManifest(r, <<e>>)
    BY <2>2, <2>3, <2>5, <2>6, AbsOps
  <2>8. e \in Abs!NewEntries(RevIds, Stamps)
    BY AbsOps
  <2> QED BY <2>7, <2>8 DEF Abs!Next
<1> QED BY <1>5, <1>6

LEMMA StaleWriteImplements ==
  ASSUME OneProcess, StoreInv, StoreInv', NEW c \in Clients, StaleWrite(c)
  PROVE  Abs!Next \/ UNCHANGED <<AbsBundle, AbsCommitted>>
<1> USE DEF StoreInv, InOneProcess, TypeInv, CallsInv, ActsInv
<1>1. PICK r \in Runs, from \in Ids0 : r = call[c].run /\ from = call[c].from
  BY DEF TypeOK, Calls
<1>2. PICK b : b = StaleIn(buf[c], Cascade(buf[c], from))
  OBVIOUS
<1>3. /\ manifest' = manifest /\ pc[c] = "staleWrite" /\ pc'[c] = "idle"
      /\ legacy' = IF c \in handles[r] THEN [legacy EXCEPT ![r] = b] ELSE legacy
  BY <1>1, <1>2 DEF StaleWrite, Settle, TypeOK
<1>4. ~HasManifest(r)
  BY <1>1, <1>3 DEF Checked, CheckedOf, StalePc
<1>5. AbsRuns(c) /\ FilesAreAbs'
  BY <1>3, StepMapped DEF Step
<1>6. RunsOf(doomed[c]) = {} /\ \A k \in Runs \ {r} : c \notin handles[k]
  BY <1>1, <1>3 DEF DoomedAtRemove, HandleIsOpen, RunsOf
<1>7. \A k \in Runs : AbsRun(c, k) = IF k = r /\ c \in handles[r] THEN buf[c] ELSE FileOf(k)
  BY <1>3, <1>4, <1>6 DEF AbsRun, FileOf
<1>8. \A k \in Runs : FileOf(k)' = IF k = r /\ c \in handles[r] THEN b ELSE FileOf(k)
  <2>1. \A k \in Runs : legacy'[k] = IF k = r /\ c \in handles[r] THEN b ELSE legacy[k]
    BY <1>3 DEF TypeOK
  <2> QED BY <1>3, <1>4, <2>1 DEF FileOf, HasManifest
<1>9. AbsCommitted' = AbsCommitted /\ AbsCommitted = {k \in Runs : HasManifest(k)}
  BY <1>3, <1>5, <1>6 DEF AbsRuns, FilesAreAbs, HasManifest
<1>10. CASE c \notin handles[r]
  BY <1>5, <1>7, <1>8, <1>9, <1>10 DEF AbsRuns, FilesAreAbs
<1>11. CASE c \in handles[r]
  <2>1. CanCascade(buf[c], from)
    BY <1>1, <1>3 DEF Cascadable
  <2>2. AbsBundle[r] = buf[c] /\ r \notin AbsCommitted
    BY <1>4, <1>5, <1>7, <1>9, <1>11 DEF AbsRuns
  <2>3. AbsBundle' = [AbsBundle EXCEPT ![r] = b]
    BY <1>5, <1>7, <1>8, <1>11 DEF AbsRuns, FilesAreAbs
  <2>4. Abs!MarkStale(r, from)
    <3>1. AbsBundle' = [AbsBundle EXCEPT ![r] = StaleIn(@, Cascade(@, from))]
      BY <1>2, <2>2, <2>3
    <3> QED BY <1>9, <2>1, <2>2, <3>1, AbsOps
  <2>5. from \in Abs!Ids0
    BY DEF Abs!Ids0, Ids0
  <2> QED BY <2>4, <2>5 DEF Abs!Next
<1> QED BY <1>10, <1>11

\* The latest timestamp of every run, as the store's query and as the scan of the files has it.
LEMMA LastStampAgrees ==
  ASSUME StoreInv, torn = {}, NEW k \in Runs
  PROVE  /\ FileOf(k) # <<>> <=> k \in Held
         /\ LastStamp[k] = IF FileOf(k) = <<>> THEN 0
                           ELSE CHOOSE t \in {e.stamp : e \in ToSet(FileOf(k))} :
                                  \A e \in ToSet(FileOf(k)) : e.stamp <= t
<1> USE DEF StoreInv, InOneProcess, TypeInv, FilesInv, WritesInv
<1>1. FileOf(k) \in Bundles /\ InOrder(FileOf(k))
  <2>1. InOrder(manifest[k])
    <3>1. Len(manifest[k]) \in Nat /\ DOMAIN manifest[k] = 1 .. Len(manifest[k])
      BY DEF TypeOK
    <3>2. \A i \in DOMAIN manifest[k] : manifest[k][i].stamp \in Nat
      <4>1. manifest[k] \in Seq(Entries(Ids0, Stamps))
        BY DEF TypeOK
      <4>2. \A i \in DOMAIN manifest[k] : manifest[k][i] \in Entries(Ids0, Stamps)
        BY <4>1, ElementOfSeq
      <4> QED BY <4>2, LocalAssumption DEF Entries
    <3>3. \A i, j \in DOMAIN manifest[k] : i = j
      <4>1. Len(manifest[k]) <= 1
        BY DEF FilesInOrder
      <4> QED BY <3>1, <4>1
    <3> QED BY <3>2, <3>3 DEF InOrder
  <2> QED BY <2>1 DEF FileOf, FilesInOrder, TypeOK, Bundles
<1>2. FileOf(k) # <<>> <=> k \in Held
  BY DEF FileOf, Held, HasLegacy, HasManifest
<1>3. legacy[k] = <<>> \/ manifest[k] = <<>>
  BY DEF OneModePerRun, HasLegacy, HasManifest
<1>4. LastStamp[k] = LastOf(FileOf(k))
  <2>1. LastOf(<<>>) = 0
    BY DEF LastOf
  <2>2. LastOf(legacy[k]) \in Nat /\ LastOf(manifest[k]) \in Nat
    <3>1. legacy[k] \in Bundles /\ manifest[k] \in Bundles
      BY DEF TypeOK, Bundles
    <3>2. LastOf(legacy[k]) \in Stamps \cup {0} /\ LastOf(manifest[k]) \in Stamps \cup {0}
      BY <3>1, LastOfType
    <3>3. Stamps \cup {0} \subseteq Nat
      BY LocalAssumption
    <3> QED BY <3>2, <3>3
  <2>3. LastStamp[k] = LaterOf(LastOf(legacy[k]), LastOf(manifest[k]))
    BY DEF LastStamp
  <2>4. CASE manifest[k] = <<>>
    BY <2>1, <2>2, <2>3, <2>4 DEF FileOf, HasManifest, LaterOf
  <2>5. CASE manifest[k] # <<>>
    BY <1>3, <2>1, <2>2, <2>3, <2>5 DEF FileOf, HasManifest, LaterOf
  <2> QED BY <2>4, <2>5
<1>5. CASE FileOf(k) = <<>>
  <2>1. LastOf(<<>>) = 0
    BY DEF LastOf
  <2> QED BY <1>2, <1>4, <1>5, <2>1
<1>6. CASE FileOf(k) # <<>>
  BY <1>1, <1>2, <1>4, <1>6, LatestIsLast
<1> QED BY <1>2, <1>5, <1>6

\* The choice of an eviction pass is the moment an append takes effect.
LEMMA EvictScanImplements ==
  ASSUME OneProcess, StoreInv, StoreInv', NEW c \in Clients, EvictScan(c)
  PROVE  Abs!Next \/ UNCHANGED <<AbsBundle, AbsCommitted>>
<1> USE DEF StoreInv, InOneProcess, TypeInv, CallsInv, FilesInv, WritesInv, ActsInv
<1>1. PICK r \in Runs : r = call[c].run
  BY DEF TypeOK, Calls
<1>2. PICK e \in NewEntries(RevIds, Stamps) : e = Carried(c) /\ call[c].revs = <<e>>
  BY CarriedType DEF EvictScan, Carrying
<1>3. pc[c] = "scan" /\ torn = {} /\ UNCHANGED files
  <2>1. pc[c] = "scan" /\ UNCHANGED files
    BY DEF EvictScan
  <2>2. \A d \in Clients : pc[d] # "staleWrite"
    BY <2>1, WorkingAlone DEF Step
  <2> QED BY <2>1, <2>2 DEF TornIsHeld
<1>4. /\ r \notin torn /\ ~HasManifest(r)
      /\ \E b \in Bundles : legacy[r] = Append(b, e) /\ e.id \notin Ids(b)
      /\ \A k \in Runs : /\ k # r => e.id \notin stored[k]
                         /\ e.id \notin Ids(manifest[k])
  BY <1>1, <1>2, <1>3 DEF Scanning
<1>5. PICK b \in Bundles : legacy[r] = Append(b, e) /\ e.id \notin Ids(b)
  BY <1>4
<1>6. PICK D \in DoomedSets(Held, LastStamp, MaxBundles) :
        IF D = {} THEN Settle(c)
        ELSE /\ doomed' = [doomed EXCEPT ![c] =
                  {[run |-> k, mode |-> Mode(k), stamp |-> LastStamp[k]] : k \in D}]
             /\ pc' = [pc EXCEPT ![c] = "remove"]
             /\ UNCHANGED <<queue, call, buf>>
  BY <1>3 DEF EvictScan
<1>7. AbsRuns(c) /\ AbsRuns(c)'
  BY StepMapped DEF Step
<1>8. /\ RunsOf(doomed[c]) = {} /\ pc'[c] \in {"idle", "remove"}
      /\ \A k \in Runs : c \notin handles[k] /\ c \notin handles'[k]
  <2>1. pc'[c] \in {"idle", "remove"}
    BY <1>6 DEF Settle, TypeOK
  <2> QED BY <1>3, <2>1 DEF DoomedAtRemove, HandleIsOpen, RunsOf
<1>9. RunsOf(doomed'[c]) = D
  <2>1. CASE D = {}
    <3>1. doomed'[c] = {}
      BY <1>6, <2>1 DEF Settle, TypeOK
    <3> QED BY <2>1, <3>1 DEF RunsOf
  <2>2. CASE D # {}
    <3>1. doomed'[c] = {[run |-> k, mode |-> Mode(k), stamp |-> LastStamp[k]] : k \in D}
      BY <1>6, <2>2 DEF TypeOK
    <3>2. ASSUME NEW k \in D PROVE k \in RunsOf(doomed'[c])
      <4>1. [run |-> k, mode |-> Mode(k), stamp |-> LastStamp[k]] \in doomed'[c]
        BY <3>1
      <4>2. [run |-> k, mode |-> Mode(k), stamp |-> LastStamp[k]].run = k
        OBVIOUS
      <4> QED BY <4>1, <4>2 DEF RunsOf
    <3>3. \A x \in doomed'[c] : x.run \in D
      BY <3>1
    <3> QED BY <3>2, <3>3 DEF RunsOf
  <2> QED BY <2>1, <2>2
<1>10. \A k \in Runs : AbsRun(c, k) = IF k = r THEN b ELSE FileOf(k)
  <2>1. Front(legacy[r]) = b
    BY <1>5, NewIsEntry, FrontAppend DEF Bundles
  <2> QED BY <1>1, <1>3, <1>4, <1>8, <2>1 DEF AbsRun, FileOf
<1>11. FileOf(r) = Append(b, e)
  BY <1>4, <1>5 DEF FileOf
<1>12. [AbsBundle EXCEPT ![r] = Append(@, e)] = [k \in Runs |-> FileOf(k)]
  BY <1>7, <1>10, <1>11 DEF AbsRuns
<1>13. r \notin AbsCommitted /\ AbsCommitted = {k \in Runs : HasManifest(k)}
  BY <1>4, <1>7, <1>8 DEF AbsRuns
<1>14. \A k \in Runs : e.id \notin Ids(AbsBundle[k])
  <2> SUFFICES ASSUME NEW k \in Runs PROVE e.id \notin Ids(AbsRun(c, k))
    BY <1>7 DEF AbsRuns
  <2>1. CASE k = r
    BY <1>5, <1>10, <2>1
  <2>2. CASE k # r
    <3>1. e.id \notin stored[k] /\ e.id \notin Ids(manifest[k])
      BY <1>4, <2>2
    <3>2. Ids(legacy[k]) = stored[k]
      BY <1>3 DEF NoRevisionLost
    <3> QED BY <1>10, <2>2, <3>1, <3>2 DEF FileOf
  <2> QED BY <2>1, <2>2
<1> DEFINE g == [AbsBundle EXCEPT ![r] = Append(@, e)]
<1>15. g = [k \in Runs |-> FileOf(k)]
  BY <1>12
<1> HIDE DEF g
<1>16. D \in DoomedSets({k \in Runs : g[k] # <<>>}, Abs!LastStamp(g), MaxBundles)
  <2>1. {k \in Runs : g[k] # <<>>} = Held
    BY <1>3, <1>15, LastStampAgrees DEF Held
  <2>2. Abs!LastStamp(g) = LastStamp
    <3>1. Abs!LastStamp(g) = [k \in Runs |-> IF g[k] = <<>> THEN 0
                       ELSE CHOOSE t \in {x.stamp : x \in ToSet(g[k])} :
                              \A x \in ToSet(g[k]) : x.stamp <= t]
      BY AbsOps
    <3>2. \A k \in Runs : LastStamp[k] = IF g[k] = <<>> THEN 0
                       ELSE CHOOSE t \in {x.stamp : x \in ToSet(g[k])} :
                              \A x \in ToSet(g[k]) : x.stamp <= t
      BY <1>3, <1>15, LastStampAgrees
    <3>3. LastStamp = [k \in Runs |-> LastStamp[k]]
      BY DEF LastStamp
    <3> QED BY <3>1, <3>2, <3>3
  <2> QED BY <1>6, <2>1, <2>2
<1>17. AbsBundle' = [k \in Runs |-> IF k \in D THEN <<>> ELSE g[k]]
  <2>1. \A k \in Runs : AbsRun(c, k)' = IF k \in D THEN <<>> ELSE FileOf(k)
    BY <1>3, <1>8, <1>9 DEF AbsRun, FileOf, HasManifest, files
  <2> QED BY <1>7, <1>15, <2>1 DEF AbsRuns
<1>18. AbsCommitted' = AbsCommitted \ D
  BY <1>3, <1>7, <1>9, <1>13 DEF AbsRuns, HasManifest, files
<1>19. Abs!AppendEntry(r, e)
  BY <1>13, <1>14, <1>16, <1>17, <1>18, AbsOps, Zenon DEF g
<1>20. e \in Abs!NewEntries(RevIds, Stamps)
  BY AbsOps
<1> QED BY <1>19, <1>20 DEF Abs!Next

\* A call joins the chain, or starts; the process starts again: no bundle changes.
LEMMA CallStutters ==
  ASSUME TypeOK, UNCHANGED <<files, doomed, buf>>,
         \A d \in Clients : \/ pc'[d] = pc[d] /\ call'[d] = call[d]
                           \/ /\ pc[d] \in {"idle", "down"}
                              /\ pc'[d] \in {"idle", "queued", "staleRead"}
  PROVE  UNCHANGED <<AbsBundle, AbsCommitted>>
<1>1. ASSUME NEW r \in Runs
      PROVE  /\ PendingEntry(r)' = PendingEntry(r)
             /\ PendingRemoval(r)' = PendingRemoval(r)
             /\ PendingStale(r)' = PendingStale(r)
             /\ HasManifest(r)' = HasManifest(r)
  <2>1. PendingEntry(r)' = PendingEntry(r)
    BY DEF PendingEntry
  <2>2. PendingRemoval(r)' = PendingRemoval(r) /\ HasManifest(r)' = HasManifest(r)
    BY DEF PendingRemoval, HasManifest, files
  <2>3. PendingStale(r)' = PendingStale(r)
    BY DEF PendingStale, files
  <2> QED BY <2>1, <2>2, <2>3
<1>2. AbsBundle' = AbsBundle
  <2>1. legacy' = legacy /\ manifest' = manifest /\ buf' = buf
    BY DEF files
  <2>2. ASSUME NEW r \in Runs
        PROVE  (CHOOSE c \in PendingStale(r)' : TRUE) = (CHOOSE c \in PendingStale(r) : TRUE)
    BY <1>1, Zenon
  <2>3. ASSUME NEW r \in Runs PROVE AbsBundle'[r] = AbsBundle[r]
    <3>1. AbsBundle[r] =
            IF PendingRemoval(r) THEN <<>>
            ELSE IF HasManifest(r) THEN manifest[r]
            ELSE IF PendingStale(r) # {} THEN buf[CHOOSE c \in PendingStale(r) : TRUE]
            ELSE IF PendingEntry(r) THEN Front(legacy[r]) ELSE legacy[r]
      BY Zenon DEF AbsBundle
    <3>2. AbsBundle'[r] =
            IF PendingRemoval(r)' THEN <<>>
            ELSE IF HasManifest(r)' THEN manifest'[r]
            ELSE IF PendingStale(r)' # {} THEN buf'[CHOOSE c \in PendingStale(r)' : TRUE]
            ELSE IF PendingEntry(r)' THEN Front(legacy'[r]) ELSE legacy'[r]
      BY Zenon DEF AbsBundle
    <3> QED BY <1>1, <2>1, <2>2, <3>1, <3>2, Zenon
  <2> QED BY <2>3 DEF AbsBundle
<1>3. AbsCommitted' = AbsCommitted
  BY <1>1 DEF AbsCommitted
<1> QED BY <1>2, <1>3

LEMMA NextImplements ==
  OneProcess /\ MaxCrashes = 0 /\ StoreInv /\ StoreInv' /\ [Next]_vars => [Abs!Next]_(Abs!vars)
<1> SUFFICES ASSUME OneProcess, MaxCrashes = 0, StoreInv, StoreInv', [Next]_vars
             PROVE  Abs!Next \/ UNCHANGED <<AbsBundle, AbsCommitted>>
  BY DEF Abs!vars
<1>1. TypeOK /\ DownTogether
  BY DEF StoreInv, InOneProcess, TypeInv, CallsInv
<1>2. CASE UNCHANGED vars
  BY <1>1, <1>2, CallStutters DEF vars, files
<1>3. ASSUME NEW c \in Clients, CallAppend(c) \/ CallCommit(c) \/ CallStale(c)
      PROVE  UNCHANGED <<AbsBundle, AbsCommitted>>
  <2>1. /\ UNCHANGED <<files, doomed, buf>> /\ pc[c] = "idle"
        /\ pc'[c] \in {"queued", "staleRead"}
        /\ \A d \in Clients \ {c} : pc'[d] = pc[d] /\ call'[d] = call[d]
    BY <1>1, <1>3 DEF CallAppend, CallCommit, CallChained, CallStale, TypeOK
  <2> QED BY <1>1, <2>1, CallStutters
<1>4. ASSUME NEW c \in Clients, Step(c)
      PROVE  Abs!Next \/ UNCHANGED <<AbsBundle, AbsCommitted>>
  BY <1>4, LookStutters, AppendWriteStutters, StaleOpenStutters, EvictRemoveStutters,
     CommitLinkImplements, StaleWriteImplements, EvictScanImplements
<1>5. ASSUME NEW p \in Procs, Crash(p) \/ Restart(p)
      PROVE  UNCHANGED <<AbsBundle, AbsCommitted>>
  <2>1. ~Crash(p)
    BY <1>1 DEF Crash, TypeOK
  <2>2. /\ UNCHANGED <<files, doomed, buf, call>>
        /\ \A c \in Clients : pc[c] = "down"
        /\ \A c \in Clients : pc'[c] \in {"idle", pc[c]}
    BY <1>1, <1>5, <2>1 DEF Restart, DownTogether
  <2> QED BY <1>1, <2>2, CallStutters
<1> QED BY <1>2, <1>3, <1>4, <1>5 DEF Next

\* In one process that does not crash, with markStale kept to itself, the bundle files are a
\* RevisionStore: each append, commitManifest and markStale takes effect at one step, as it
\* does in storage-db's transaction, and every other step of the calls is invisible.
THEOREM FilesAreARevisionStore ==
  ASSUME OneProcess, StaleAlone, MaxCrashes = 0
  PROVE  Spec => ImplementsRevisionStore
<1>1. StoreInv /\ [Next]_vars => StoreInv'
  BY StoreInvNext
<1>2. StoreInv /\ StoreInv' /\ [Next]_vars => [Abs!Next]_(Abs!vars)
  BY NextImplements
<1> QED BY <1>1, <1>2, StoreInvInit, InitImplements, PTL DEF Spec, ImplementsRevisionStore, Abs!Spec
================================================================================
