------------------------------ MODULE LocalStore ------------------------------
(***************************************************************************)
(* storage-local: run bundles as files in one directory, shared by the     *)
(* clients of one or several OS processes.                                 *)
(*                                                                         *)
(* append and commitManifest run one at a time per process, in the order   *)
(* they were called: `serialise` chains them on the store's root. Inside   *)
(* the chain every await is a step of its own. markStale is NOT in the     *)
(* chain: it reads the bundle and writes it back with a plain writeFile,   *)
(* which truncates the file when it opens it and fills it later.           *)
(*                                                                         *)
(* One LocalRevisionStore per process, as the composition roots build it.  *)
(* readAll reads the files one by one; its result is taken in one step.    *)
(***************************************************************************)
EXTENDS Revisions

CONSTANTS
  Runs, MaxBundles, Stamps, OldRuns,   \* as in RevisionStore
  RevIds,         \* revision ids, handed out in increasing order: uuids never repeat
  Procs,          \* the OS processes that share the directory
  Clients,        \* the concurrent callers
  ProcOf,         \* the process each client runs in
  Kinds,          \* the operations callers use: a subset of {"append", "commit", "stale"}
  StaleAlone,     \* TRUE: callers never let markStale overlap another call
  MaxCrashes      \* bound on the number of process crashes explored

ASSUME LocalAssumption ==
  /\ IsFiniteSet(Runs) /\ Runs # {}
  /\ MaxBundles \in Nat \ {0}
  /\ RevIds \subseteq Nat \ {0}
  /\ Stamps \subseteq Nat
  /\ 1 \in Stamps
  /\ OldRuns \subseteq Runs
  /\ ProcOf \in [Clients -> Procs]
  /\ Kinds \subseteq {"append", "commit", "stale"}
  /\ StaleAlone \in BOOLEAN
  /\ MaxCrashes \in Nat

VARIABLES
  legacy,     \* <run_id>.json: the content of each file, <<>> when absent or torn
  manifest,   \* <run_id>.manifest.json: the revisions of each manifest, <<>> when absent
  torn,       \* the legacy files that exist truncated
  queue,      \* per process, the chain of `serialise`: its head is the running call
  written,    \* per process, the run ids its store instance has written
  pc,         \* per client, the next step of its call
  call,       \* per client, the call in progress
  buf,        \* per client, the bundle it has read
  handles,    \* per run, the clients whose markStale holds open the file now at its path
  doomed,     \* per client, the bundles its eviction pass still has to delete
  issued,     \* revision ids handed out so far
  stored,     \* history: per run, the ids whose write succeeded since the run was last evicted
  crashes     \* number of crashes so far

files == <<legacy, manifest, torn, handles>>
vars == <<legacy, manifest, torn, handles, queue, written, pc, call, buf, doomed,
          issued, stored, crashes>>

Ids0 == RevIds \cup {0}

OldBundle == <<[id |-> 0, parents |-> {}, stamp |-> 1, stale |-> FALSE, lineaged |-> FALSE]>>

NoCall == [kind |-> "none", run |-> CHOOSE r \in Runs : TRUE, revs |-> <<>>, from |-> 0]

Calls ==
  [kind : {"none", "append", "commit", "stale"}, run : Runs,
   revs : Seq(Entries(Ids0, Stamps)), from : Ids0]

\* existsSync of each of the two paths of a run.
HasLegacy(r) == legacy[r] # <<>> \/ r \in torn
HasManifest(r) == manifest[r] # <<>>

Held == {r \in Runs : HasLegacy(r) \/ HasManifest(r)}

\* The timestamp of a bundle's first and last entry (0 when there is none).
FirstOf(b) == IF b = <<>> THEN 0 ELSE b[1].stamp
LastOf(b) == IF b = <<>> THEN 0 ELSE b[Len(b)].stamp

LaterOf(s, t) == IF s <= t THEN t ELSE s

\* Sorting by the first entry's timestamp instead of the last.
FirstStamp == [r \in Runs |-> LaterOf(FirstOf(legacy[r]), FirstOf(manifest[r]))]

\* last_timestamp of a run on disk: that of its last entry; a mixed run has the later one.
LastStamp == [r \in Runs |-> LaterOf(LastOf(legacy[r]), LastOf(manifest[r]))]

Mode(r) ==
  IF HasManifest(r) THEN IF HasLegacy(r) THEN "mixed" ELSE "semantic" ELSE "legacy"

\* No chain: a call runs as soon as it is made.
RunningAtOnce(c) == queue[ProcOf[c]] # <<>>

Running(c) == queue[ProcOf[c]] # <<>> /\ Head(queue[ProcOf[c]]) = c

\* The call ends; a chained one releases the chain to the next.
Settle(c) ==
  /\ pc' = [pc EXCEPT ![c] = "idle"]
  /\ call' = [call EXCEPT ![c] = NoCall]
  /\ buf' = [buf EXCEPT ![c] = <<>>]
  /\ doomed' = [doomed EXCEPT ![c] = {}]
  /\ queue' = [queue EXCEPT ![ProcOf[c]] = IF Running(c) THEN Tail(@) ELSE @]

\* A throw that left the chain rejected: every later call of the process would wait on it.
ThrowPoisons(c) ==
  /\ pc' = [pc EXCEPT ![c] = "idle"]
  /\ call' = [call EXCEPT ![c] = NoCall]
  /\ buf' = [buf EXCEPT ![c] = <<>>]
  /\ doomed' = [doomed EXCEPT ![c] = {}]
  /\ UNCHANGED queue

\* A throw releases the chain as well: `prior.catch(() => {})`.
Throw(c) == Settle(c)

Init ==
  /\ legacy = [r \in Runs |-> IF r \in OldRuns THEN OldBundle ELSE <<>>]
  /\ manifest = [r \in Runs |-> <<>>]
  /\ torn = {}
  /\ handles = [r \in Runs |-> {}]
  /\ queue = [p \in Procs |-> <<>>]
  /\ written = [p \in Procs |-> {}]
  /\ pc = [c \in Clients |-> "idle"]
  /\ call = [c \in Clients |-> NoCall]
  /\ buf = [c \in Clients |-> <<>>]
  /\ doomed = [c \in Clients |-> {}]
  /\ issued = {}
  /\ stored = [r \in Runs |-> Ids(legacy[r])]
  /\ crashes = 0

-----------------------------------------------------------------------------
(* Calls.                                                                  *)

\* Timestamps come from one clock, so those of a run never step back.
StampsOf(r) ==
  {e.stamp : e \in ToSet(legacy[r]) \cup ToSet(manifest[r])
                   \cup UNION {ToSet(call[c].revs) : c \in {d \in Clients : call[d].run = r}}}

NextIds == {i \in RevIds \ issued : \A j \in RevIds \ issued : i <= j}

FreshEntries(r) ==
  {e \in [id : NextIds, parents : {{}} \cup {{i} : i \in Ids(legacy[r])},
          stamp : Stamps, stale : {FALSE}, lineaged : {TRUE}] :
     \A s \in StampsOf(r) : s <= e.stamp}

\* The environment assumption StaleAlone: a markStale call overlaps no other call.
MayOverlap(kind) ==
  StaleAlone =>
    IF kind = "stale" THEN \A d \in Clients : pc[d] \in {"idle", "down"}
    ELSE \A d \in Clients : call[d].kind # "stale"

\* append and commitManifest join the chain of their process as soon as they are called.
CallChained(c, kind) ==
  /\ kind \in Kinds
  /\ pc[c] = "idle"
  /\ RevIds \ issued # {}
  /\ MayOverlap(kind)
  /\ \E r \in Runs : \E e \in FreshEntries(r) :
       /\ call' = [call EXCEPT ![c] = [kind |-> kind, run |-> r, revs |-> <<e>>, from |-> 0]]
       /\ issued' = issued \cup {e.id}
  /\ pc' = [pc EXCEPT ![c] = "queued"]
  /\ queue' = [queue EXCEPT ![ProcOf[c]] = Append(@, c)]
  /\ UNCHANGED <<files, written, buf, doomed, stored, crashes>>

CallAppend(c) == CallChained(c, "append")

CallCommit(c) == CallChained(c, "commit")

\* markStale's synchronous prologue: refuse a mixed or semantic run, return when there is
\* no bundle, otherwise start reading it. A call that stops here changes nothing.
CallStale(c) ==
  /\ "stale" \in Kinds
  /\ pc[c] = "idle"
  /\ MayOverlap("stale")
  /\ \E r \in Runs : \E i \in issued \cup {0} :
       /\ ~HasManifest(r)
       /\ HasLegacy(r)
       /\ call' = [call EXCEPT ![c] = [kind |-> "stale", run |-> r, revs |-> <<>>, from |-> i]]
  /\ pc' = [pc EXCEPT ![c] = "staleRead"]
  /\ UNCHANGED <<files, queue, written, buf, doomed, issued, stored, crashes>>

-----------------------------------------------------------------------------
(* append, one step per await.                                             *)

\* mkdir, then the checks, in one synchronous block: mixed lineage, vanished bundle.
Refusable(c) ==
  LET r == call[c].run
  IN \/ HasManifest(r)
     \/ ~HasLegacy(r) /\ r \in written[ProcOf[c]]

\* The checks without the one on the other mode's file.
RefusableNoMode(c) ==
  LET r == call[c].run IN ~HasLegacy(r) /\ r \in written[ProcOf[c]]

AppendRefuse(c) == Refusable(c)

AppendOpen(c) ==
  /\ pc[c] = "queued"
  /\ Running(c)
  /\ call[c].kind = "append"
  /\ \/ /\ AppendRefuse(c)
        /\ Throw(c)
     \/ /\ ~AppendRefuse(c)
        /\ pc' = [pc EXCEPT ![c] = IF HasLegacy(call[c].run) THEN "read" ELSE "write"]
        /\ UNCHANGED <<queue, call, buf, doomed>>
  /\ UNCHANGED <<files, written, issued, stored, crashes>>

\* JSON.parse(await readFile): a torn or deleted file throws.
AppendRead(c) ==
  /\ pc[c] = "read"
  /\ LET r == call[c].run
     IN \/ /\ legacy[r] = <<>>
           /\ Throw(c)
        \/ /\ legacy[r] # <<>>
           /\ buf' = [buf EXCEPT ![c] = legacy[r]]
           /\ pc' = [pc EXCEPT ![c] = "write"]
           /\ UNCHANGED <<queue, call, doomed>>
  /\ UNCHANGED <<files, written, issued, stored, crashes>>

\* A bundle rewritten where it lies, as the manifest is created: torn until the last byte.
SetLegacyInPlace(r, b) ==
  /\ legacy' = [legacy EXCEPT ![r] = <<>>]
  /\ torn' = torn \cup {r}
  /\ handles' = [handles EXCEPT ![r] = {}]

\* A file takes the place of the bundle at its path (rename), or nothing does (rm): handles
\* on the old file no longer name the path.
SetLegacy(r, b) ==
  /\ legacy' = [legacy EXCEPT ![r] = b]
  /\ torn' = torn \ {r}
  /\ handles' = [handles EXCEPT ![r] = {}]

\* push, then writeAtomic: the temporary file is renamed over the bundle.
AppendWrite(c) ==
  /\ pc[c] = "write"
  /\ call[c].kind = "append"
  /\ LET r == call[c].run
     IN /\ SetLegacy(r, Append(buf[c], call[c].revs[1]))
        /\ written' = [written EXCEPT ![ProcOf[c]] = @ \cup {r}]
        /\ stored' = [stored EXCEPT ![r] = @ \cup Ids(call[c].revs)]
  /\ pc' = [pc EXCEPT ![c] = "scan"]
  /\ buf' = [buf EXCEPT ![c] = <<>>]
  /\ UNCHANGED <<manifest, queue, call, doomed, issued, crashes>>

\* evict: readAll parses every bundle (a torn one throws out of append), then picks.
EvictScan(c) ==
  /\ pc[c] = "scan"
  /\ \/ /\ torn # {}
        /\ Throw(c)
     \/ /\ torn = {}
        /\ \E D \in DoomedSets(Held, LastStamp, MaxBundles) :
             IF D = {} THEN Settle(c)
             ELSE /\ doomed' = [doomed EXCEPT ![c] =
                       {[run |-> r, mode |-> Mode(r), stamp |-> LastStamp[r]] : r \in D}]
                  /\ pc' = [pc EXCEPT ![c] = "remove"]
                  /\ UNCHANGED <<queue, call, buf>>
  /\ UNCHANGED <<files, written, issued, stored, crashes>>

\* One bundle per await, oldest first; the file deleted is that of the mode seen by the scan.
EvictRemove(c) ==
  /\ pc[c] = "remove"
  /\ \E x \in doomed[c] :
       /\ \A y \in doomed[c] : x.stamp <= y.stamp
       /\ IF x.mode = "semantic" THEN UNCHANGED <<legacy, torn, handles, stored>>
          ELSE /\ SetLegacy(x.run, <<>>)
               /\ stored' = [stored EXCEPT ![x.run] = {}]
       /\ manifest' = IF x.mode = "legacy" THEN manifest
                      ELSE [manifest EXCEPT ![x.run] = <<>>]
       /\ IF doomed[c] = {x} THEN Settle(c)
          ELSE /\ doomed' = [doomed EXCEPT ![c] = @ \ {x}]
               /\ UNCHANGED <<pc, call, buf, queue>>
  /\ UNCHANGED <<written, issued, crashes>>

-----------------------------------------------------------------------------
(* commitManifest: the checks, then the exclusive link.                    *)

CommitOpen(c) ==
  /\ pc[c] = "queued"
  /\ Running(c)
  /\ call[c].kind = "commit"
  /\ \/ /\ HasLegacy(call[c].run) \/ HasManifest(call[c].run)
        /\ Throw(c)
     \/ /\ ~HasLegacy(call[c].run) /\ ~HasManifest(call[c].run)
        /\ pc' = [pc EXCEPT ![c] = "link"]
        /\ UNCHANGED <<queue, call, buf, doomed>>
  /\ UNCHANGED <<files, written, issued, stored, crashes>>

\* Publication by rename, which replaces an existing destination.
LinkOver(r) == TRUE

\* link(2) fails with EEXIST when the destination exists.
LinkFree(r) == ~HasManifest(r)

CommitLink(c) ==
  /\ pc[c] = "link"
  /\ LET r == call[c].run
     IN IF LinkFree(r) THEN manifest' = [manifest EXCEPT ![r] = call[c].revs]
        ELSE UNCHANGED manifest
  /\ Settle(c)
  /\ UNCHANGED <<legacy, torn, handles, written, issued, stored, crashes>>

\* The write or rename of the temporary file fails: it is removed and the call throws.
WriteFails(c) ==
  /\ pc[c] \in {"write", "link"}
  /\ Throw(c)
  /\ UNCHANGED <<files, written, issued, stored, crashes>>

-----------------------------------------------------------------------------
(* markStale, outside the chain.                                           *)

\* The read: a torn or deleted file throws; an unknown id or an unlineaged bundle ends it.
StaleRead(c) ==
  /\ pc[c] = "staleRead"
  /\ LET b == legacy[call[c].run]
     IN \/ /\ ~CanCascade(b, call[c].from)
           /\ Throw(c)
        \/ /\ CanCascade(b, call[c].from)
           /\ buf' = [buf EXCEPT ![c] = b]
           /\ pc' = [pc EXCEPT ![c] = "staleOpen"]
           /\ UNCHANGED <<queue, call, doomed>>
  /\ UNCHANGED <<files, written, issued, stored, crashes>>

\* writeFile opens the path for writing: the file is created or truncated.
StaleOpen(c) ==
  /\ pc[c] = "staleOpen"
  /\ LET r == call[c].run
     IN /\ legacy' = [legacy EXCEPT ![r] = <<>>]
        /\ torn' = torn \cup {r}
        /\ handles' = [handles EXCEPT ![r] = @ \cup {c}]
  /\ pc' = [pc EXCEPT ![c] = "staleWrite"]
  /\ UNCHANGED <<manifest, queue, written, call, buf, doomed, issued, stored, crashes>>

\* ... and fills it; what is written to a file no longer at the path is lost.
StaleWrite(c) ==
  /\ pc[c] = "staleWrite"
  /\ LET r == call[c].run
     IN IF c \in handles[r]
        THEN /\ legacy' = [legacy EXCEPT ![r] = StaleIn(buf[c], Cascade(buf[c], call[c].from))]
             /\ torn' = torn \ {r}
             /\ handles' = [handles EXCEPT ![r] = @ \ {c}]
        ELSE UNCHANGED <<legacy, torn, handles>>
  /\ Settle(c)
  /\ UNCHANGED <<manifest, written, issued, stored, crashes>>

-----------------------------------------------------------------------------
(* A process stops between two steps, and starts again.                    *)

Crash(p) ==
  /\ crashes < MaxCrashes
  /\ \E c \in Clients : ProcOf[c] = p /\ pc[c] \notin {"idle", "down"}
  /\ LET dead == {c \in Clients : ProcOf[c] = p}
     IN /\ pc' = [c \in Clients |-> IF c \in dead THEN "down" ELSE pc[c]]
        /\ call' = [c \in Clients |-> IF c \in dead THEN NoCall ELSE call[c]]
        /\ buf' = [c \in Clients |-> IF c \in dead THEN <<>> ELSE buf[c]]
        /\ doomed' = [c \in Clients |-> IF c \in dead THEN {} ELSE doomed[c]]
        /\ handles' = [r \in Runs |-> handles[r] \ dead]
  /\ queue' = [queue EXCEPT ![p] = <<>>]
  /\ written' = [written EXCEPT ![p] = {}]
  /\ crashes' = crashes + 1
  /\ UNCHANGED <<legacy, manifest, torn, issued, stored>>

Restart(p) ==
  /\ \E c \in Clients : ProcOf[c] = p /\ pc[c] = "down"
  /\ pc' = [c \in Clients |-> IF ProcOf[c] = p THEN "idle" ELSE pc[c]]
  /\ UNCHANGED <<files, queue, written, call, buf, doomed, issued, stored, crashes>>

-----------------------------------------------------------------------------
\* The steps a call takes once made; the event loop and the file system drive them all.
Step(c) ==
  \/ AppendOpen(c) \/ AppendRead(c) \/ AppendWrite(c) \/ EvictScan(c) \/ EvictRemove(c)
  \/ CommitOpen(c) \/ CommitLink(c) \/ WriteFails(c)
  \/ StaleRead(c) \/ StaleOpen(c) \/ StaleWrite(c)

Next ==
  \/ \E c \in Clients : CallAppend(c) \/ CallCommit(c) \/ CallStale(c) \/ Step(c)
  \/ \E p \in Procs : Crash(p) \/ Restart(p)

Spec == Init /\ [][Next]_vars

Fairness == \A c \in Clients : WF_vars(Step(c))

FairSpec == Spec /\ Fairness

-----------------------------------------------------------------------------
(* Properties.                                                             *)

PcValues ==
  {"idle", "down", "queued", "read", "write", "scan", "remove", "link",
   "staleRead", "staleOpen", "staleWrite"}

DoomedRecords == [run : Runs, mode : {"legacy", "semantic", "mixed"}, stamp : Stamps \cup {0}]

TypeOK ==
  /\ legacy \in [Runs -> Seq(Entries(Ids0, Stamps))]
  /\ manifest \in [Runs -> Seq(Entries(Ids0, Stamps))]
  /\ torn \subseteq Runs
  /\ handles \in [Runs -> SUBSET Clients]
  /\ queue \in [Procs -> Seq(Clients)]
  /\ written \in [Procs -> SUBSET Runs]
  /\ pc \in [Clients -> PcValues]
  /\ call \in [Clients -> Calls]
  /\ buf \in [Clients -> Seq(Entries(Ids0, Stamps))]
  /\ doomed \in [Clients -> SUBSET DoomedRecords]
  /\ issued \subseteq RevIds
  /\ stored \in [Runs -> SUBSET Ids0]
  /\ crashes \in 0 .. MaxCrashes

\* No run is ever held in both formats (CHANGELOG: "One mode per run id").
OneModePerRun == \A r \in Runs : ~(HasLegacy(r) /\ HasManifest(r))

\* Every revision whose write succeeded is in its run's bundle until the whole run is
\* evicted, and an evicted run holds nothing: no concurrent call loses or revives one.
NoRevisionLost == \A r \in Runs : r \notin torn => Ids(legacy[r]) = stored[r]

\* A call about to read bundles, in any process, finds each one whole: the old file or the
\* new one, never a partial one (storage-local, comment on writeAtomic).
ReadersSeeWholeFiles ==
  \A c \in Clients :
    /\ pc[c] = "scan" => torn = {}
    /\ pc[c] \in {"read", "staleRead"} => call[c].run \notin torn

\* A published manifest is never replaced or edited; it can only be evicted.
ManifestImmutable ==
  [][\A r \in Runs : HasManifest(r) => manifest'[r] \in {manifest[r], <<>>}]_vars

\* When an append returns, the store is within its bound, whatever manifests were
\* published without eviction before it. (A torn bundle makes the eviction pass throw.)
BoundAfterAppend ==
  [][\A c \in Clients :
       pc[c] \in {"scan", "remove"} /\ pc'[c] = "idle" /\ torn = {} =>
         Cardinality(Held') <= MaxBundles]_vars

\* Every call settles: a call that throws does not hold up the calls queued behind it.
CallsSettle == \A c \in Clients : (pc[c] = "queued") ~> (pc[c] \in {"idle", "down"})

-----------------------------------------------------------------------------
(* storage-local implements RevisionStore. An append takes effect when its *)
(* eviction pass has chosen: before, its entry does not count; after, the  *)
(* runs still to be deleted do not. A markStale takes effect when its      *)
(* write lands.                                                            *)

PendingEntry(r) == \E c \in Clients : pc[c] = "scan" /\ call[c].run = r

PendingRemoval(r) == \E c \in Clients : \E x \in doomed[c] : x.run = r

PendingStale(r) == {c \in Clients : pc[c] = "staleWrite" /\ c \in handles[r]}

AbsBundle ==
  [r \in Runs |->
     IF PendingRemoval(r) THEN <<>>
     ELSE IF HasManifest(r) THEN manifest[r]
     ELSE IF PendingStale(r) # {} THEN buf[CHOOSE c \in PendingStale(r) : TRUE]
     ELSE IF PendingEntry(r) THEN Front(legacy[r])
     ELSE legacy[r]]

AbsCommitted == {r \in Runs : HasManifest(r) /\ ~PendingRemoval(r)}

Abs == INSTANCE RevisionStore WITH bundle <- AbsBundle, committed <- AbsCommitted

ImplementsRevisionStore == Abs!Spec
=============================================================================
