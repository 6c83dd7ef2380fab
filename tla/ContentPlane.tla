----------------------------- MODULE ContentPlane -----------------------------
(***************************************************************************)
(* The bodies a pipeline run retains: application/src/pipeline.ts puts the *)
(* input and the output of a stage into content-local before it appends    *)
(* the revision that refers to them, and after its last stage sweeps what  *)
(* no surviving bundle names.                                              *)
(*                                                                         *)
(* Content is addressed by its hash, so a body IS its address, and several *)
(* runs may retain the same one. A put creates its file and fills it       *)
(* later. Every await ends a step. The bundles are kept as RevisionStore   *)
(* keeps them: whole runs, the one appended to least recently evicted      *)
(* first (one clock, no two appends at once).                              *)
(***************************************************************************)
EXTENDS Integers, Sequences, FiniteSets, SequencesExt

CONSTANTS
  Runs,          \* run ids, each in a process of its own
  Bodies,        \* the content addresses
  Null,          \* a ref that names nothing: the body was not retained
  MaxBundles,    \* bundles the revision store keeps (8)
  SweepLimit,    \* BUNDLE_SWEEP_LIMIT (64)
  Stages,        \* stage executions of a run
  MaxFaults      \* bound on the failed writes and reads, short listings and crashes explored

ASSUME ContentAssumption ==
  /\ IsFiniteSet(Runs) /\ IsFiniteSet(Bodies)
  /\ Null \notin Bodies
  /\ MaxBundles \in Nat \ {0}
  /\ SweepLimit \in Nat /\ SweepLimit >= MaxBundles
  /\ Stages \in Nat \ {0}
  /\ MaxFaults \in Nat

VARIABLES
  content,    \* the file at each address: "absent", "partial" or "whole"
  writer,     \* the run that holds open the partial file now at an address, or Null
  bundle,     \* the revisions of each run, <<>> when the store does not hold it
  recent,     \* the runs held, the one appended to last first
  run,        \* the state of each run
  faults,     \* failures so far
  seen        \* history: "overlap" once two runs were in progress, "short" once a listing was

vars == <<content, writer, bundle, recent, run, faults, seen>>

IdleRun ==
  [pc |-> "idle", done |-> 0, slot |-> "in", body |-> Null, in |-> Null, out |-> Null,
   failed |-> FALSE, retained |-> {}, todo |-> {}, live |-> {}, refused |-> FALSE]

Over == {"idle", "finished", "aborted"}

\* Run r goes to step s.
Goto(r, s) == run' = [run EXCEPT ![r].pc = s]

RefsOf(b) == (UNION {{e.in, e.out} : e \in ToSet(b)}) \ {Null}

Cited == UNION {RefsOf(bundle[r]) : r \in Runs}

Newest(s, n) == [i \in DOMAIN s \cap 1 .. n |-> s[i]]

Fault == faults < MaxFaults /\ faults' = faults + 1

-----------------------------------------------------------------------------
(* Retention: retain, and the put of content-local.                        *)

Start(r) ==
  /\ run[r].pc = "idle"
  /\ Goto(r, "stage")
  /\ seen' = IF \E q \in Runs : run[q].pc \notin Over THEN seen \cup {"overlap"} ELSE seen
  /\ UNCHANGED <<content, writer, bundle, recent, faults>>

\* The next stage execution: one that calls a provider retains its bodies, a skip, a failure
\* and a deterministic stage have none.
NextStage(r) ==
  /\ run[r].pc = "stage"
  /\ run[r].done < Stages
  /\ LET fresh == [run[r] EXCEPT !.in = Null, !.out = Null, !.failed = FALSE, !.slot = "in"]
     IN \/ run' = [run EXCEPT ![r] = [fresh EXCEPT !.pc = "append"]]
        \/ \E b \in Bodies : run' = [run EXCEPT ![r] = [fresh EXCEPT !.pc = "put", !.body = b]]
  /\ UNCHANGED <<content, writer, bundle, recent, faults, seen>>

\* writeFile with flag wx opens the file, which must not exist. EEXIST: verify the resident.
PutOpen(r) ==
  /\ run[r].pc = "put"
  /\ LET b == run[r].body
     IN \/ /\ content[b] = "absent"
           /\ content' = [content EXCEPT ![b] = "partial"]
           /\ writer' = [writer EXCEPT ![b] = r]
           /\ Goto(r, "fill")
        \/ /\ content[b] # "absent"
           /\ Goto(r, "verify")
           /\ UNCHANGED <<content, writer>>
  /\ UNCHANGED <<bundle, recent, faults, seen>>

\* What the sweep must find again: the two refs of a stage whose puts both returned.
Remembered(r) == {run[r].in, run[r].body}

\* put returns: the ref of the input is known, then that of the output; the refs count as
\* retained when both are.
Retain(r) ==
  LET s == run[r]
  IN \/ /\ s.slot = "in"
        /\ \E b \in Bodies :
             run' = [run EXCEPT ![r].in = s.body, ![r].slot = "out", ![r].body = b,
                                ![r].pc = "put"]
     \/ /\ s.slot = "out"
        /\ run' = [run EXCEPT ![r].out = s.body, ![r].retained = @ \cup Remembered(r),
                              ![r].pc = "append"]

\* The catch around both puts: evented, and the revision is appended all the same.
RetentionFails(r, corrupt) ==
  run' = [run EXCEPT ![r].failed = TRUE, ![r].pc = "append", ![r].refused = @ \/ corrupt]

\* ... and fills it; what is written to a file no longer at the address is lost.
PutFill(r) ==
  /\ run[r].pc = "fill"
  /\ LET b == run[r].body
     IN IF writer[b] = r
        THEN /\ content' = [content EXCEPT ![b] = "whole"]
             /\ writer' = [writer EXCEPT ![b] = Null]
        ELSE UNCHANGED <<content, writer>>
  /\ Retain(r)
  /\ UNCHANGED <<bundle, recent, faults, seen>>

\* A check that takes whatever is there for the content.
MatchesPresent(b) == content[b] # "absent"

\* Resident bytes that do not hash to their address, and a file that is gone by now: put
\* reports corruption.
ResidentMatches(b) == content[b] = "whole"

PutVerify(r) ==
  /\ run[r].pc = "verify"
  /\ IF ResidentMatches(run[r].body) THEN Retain(r) ELSE RetentionFails(r, TRUE)
  /\ UNCHANGED <<content, writer, bundle, recent, faults, seen>>

\* The file that r holds open, if it is at its address, is nobody's any more.
Closed(r) == [b \in Bodies |-> IF writer[b] = r THEN Null ELSE writer[b]]

\* mkdir, writeFile or readFile fails; a file that was opened stays as it is.
PutFails(r) ==
  /\ run[r].pc \in {"put", "fill", "verify"}
  /\ Fault
  /\ RetentionFails(r, FALSE)
  /\ writer' = Closed(r)
  /\ UNCHANGED <<content, bundle, recent, seen>>

-----------------------------------------------------------------------------
(* The revision, with eviction.                                            *)

\* The revision names the refs it has.
Entry(r) == [in |-> run[r].in, out |-> run[r].out, failed |-> run[r].failed]

\* A store without the guard on vanished bundles (storage-db has none).
VanishedNever(r) == FALSE

Vanished(r) == bundle[r] = <<>> /\ run[r].done > 0

\* A run whose bundle vanished is not started again: append throws, and nothing catches it.
AppendEntry(r) ==
  /\ run[r].pc = "append"
  /\ \/ /\ Vanished(r)
        /\ Goto(r, "aborted")
        /\ UNCHANGED <<bundle, recent>>
     \/ /\ ~Vanished(r)
        /\ LET order == <<r>> \o RemoveFirst(recent, r)
               kept == Newest(order, MaxBundles)
           IN /\ recent' = kept
              /\ bundle' = [q \in Runs |-> IF q \notin ToSet(kept) THEN <<>>
                                           ELSE IF q = r THEN Append(bundle[r], Entry(r))
                                           ELSE bundle[q]]
        /\ run' = [run EXCEPT ![r].done = @ + 1, ![r].pc = "stage"]
  /\ UNCHANGED <<content, writer, faults, seen>>

-----------------------------------------------------------------------------
(* The sweep.                                                              *)

\* listRecent: the most recent SweepLimit bundles, or, from a store that under-reports, fewer.
SweepList(r) ==
  /\ run[r].pc = "stage"
  /\ run[r].done = Stages
  /\ LET listing == ToSet(Newest(recent, SweepLimit))
     IN \E listed \in SUBSET listing :
          /\ run' = [run EXCEPT ![r].todo = listed, ![r].live = {}, ![r].pc = "sweepRead"]
          /\ IF listed = listing THEN UNCHANGED <<faults, seen>>
             ELSE Fault /\ seen' = seen \cup {"short"}
  /\ UNCHANGED <<content, writer, bundle, recent>>

LiveRefs(q) == RefsOf(bundle[q])

\* getRun of one listed run per step; one evicted since is empty.
SweepRead(r) ==
  /\ run[r].pc = "sweepRead"
  /\ \E q \in run[r].todo :
       run' = [run EXCEPT ![r].todo = @ \ {q}, ![r].live = @ \cup LiveRefs(q)]
  /\ UNCHANGED <<content, writer, bundle, recent, faults, seen>>

\* A runner that sweeps on whatever the listing gave.
TrustedAlways(r) == TRUE

\* enumerationTrustworthy: this run retained something, and all of it is in the listing.
Trusted(r) == run[r].retained # {} /\ run[r].retained \subseteq run[r].live

SweepDecide(r) ==
  /\ run[r].pc = "sweepRead"
  /\ run[r].todo = {}
  /\ run' = IF Trusted(r) THEN [run EXCEPT ![r].todo = Bodies, ![r].pc = "sweep"]
            ELSE [run EXCEPT ![r].pc = "finished"]
  /\ UNCHANGED <<content, writer, bundle, recent, faults, seen>>

\* Only files that hold what their address says are reclaimed.
ReclaimableWhole(r, b) == b \notin run[r].live /\ content[b] = "whole"

Reclaimable(r, b) == b \notin run[r].live

\* One file per step, in directory order.
SweepFile(r) ==
  /\ run[r].pc = "sweep"
  /\ \E b \in run[r].todo :
       /\ IF Reclaimable(r, b)
          THEN /\ content' = [content EXCEPT ![b] = "absent"]
               /\ writer' = [writer EXCEPT ![b] = Null]
          ELSE UNCHANGED <<content, writer>>
       /\ run' = [run EXCEPT ![r].todo = @ \ {b},
                             ![r].pc = IF run[r].todo = {b} THEN "finished" ELSE @]
  /\ UNCHANGED <<bundle, recent, faults, seen>>

\* A read or an unlink fails: evented, and the run returns its result.
SweepFails(r) ==
  /\ run[r].pc \in {"sweepRead", "sweep"}
  /\ Fault
  /\ Goto(r, "finished")
  /\ UNCHANGED <<content, writer, bundle, recent, seen>>

\* The process of the run stops. A run id is never resumed.
Crash(r) ==
  /\ run[r].pc \notin Over
  /\ Fault
  /\ Goto(r, "aborted")
  /\ writer' = Closed(r)
  /\ UNCHANGED <<content, bundle, recent, seen>>

-----------------------------------------------------------------------------
Init ==
  /\ content = [b \in Bodies |-> "absent"]
  /\ writer = [b \in Bodies |-> Null]
  /\ bundle = [r \in Runs |-> <<>>]
  /\ recent = <<>>
  /\ run = [r \in Runs |-> IdleRun]
  /\ faults = 0
  /\ seen = {}

RunStep(r) ==
  \/ Start(r) \/ NextStage(r) \/ PutOpen(r) \/ PutFill(r) \/ PutVerify(r) \/ PutFails(r)
  \/ AppendEntry(r) \/ SweepList(r) \/ SweepRead(r) \/ SweepDecide(r) \/ SweepFile(r)
  \/ SweepFails(r) \/ Crash(r)

Next == \E r \in Runs : RunStep(r)

Spec == Init /\ [][Next]_vars

-----------------------------------------------------------------------------
(* Properties.                                                             *)

Refs == Bodies \cup {Null}

RunStates ==
  [pc : Over \cup {"stage", "put", "fill", "verify", "append", "sweepRead", "sweep"},
   done : 0 .. Stages, slot : {"in", "out"}, body : Refs, in : Refs, out : Refs,
   failed : BOOLEAN, retained : SUBSET Bodies, todo : SUBSET (Runs \cup Bodies),
   live : SUBSET Bodies, refused : BOOLEAN]

\* The shape of the state, and the order of eviction holding exactly the runs the store holds.
TypeOK ==
  /\ content \in [Bodies -> {"absent", "partial", "whole"}]
  /\ writer \in [Bodies -> Runs \cup {Null}]
  /\ bundle \in [Runs -> Seq([in : Refs, out : Refs, failed : BOOLEAN])]
  /\ recent \in Seq(Runs)
  /\ ToSet(recent) = {r \in Runs : bundle[r] # <<>>}
  /\ run \in [Runs -> RunStates]
  /\ faults \in 0 .. MaxFaults
  /\ seen \subseteq {"overlap", "short"}

\* While runs do not overlap and listings are complete, no revision the store holds refers to
\* a body that is missing or damaged, through failed writes, crashes, eviction and sweeps
\* (pipeline.ts: a retained ref never "resolves to nothing").
NoDanglingRef == seen = {} => \A b \in Cited : content[b] = "whole"

\* While runs do not overlap, a sweep that runs to its end leaves no file that no surviving
\* bundle names, the partial files of failed puts included: disk use is bounded in bundles.
NothingOrphaned ==
  [][\A r \in Runs :
       "overlap" \notin seen /\ run[r].pc = "sweep" /\ run'[r].pc = "finished" /\ faults' = faults =>
         \A b \in Bodies : content'[b] # "absent" => b \in Cited']_vars

\* While runs do not overlap, and whatever the listing leaves out, a run that returns still has
\* every body it retained: the sweep never runs on a listing that misses them (pipeline.ts,
\* "Positive evidence").
OwnBodiesSurvive ==
  [][\A r \in Runs :
       "overlap" \notin seen /\ run[r].pc # "finished" /\ run'[r].pc = "finished" =>
         \A b \in run[r].retained : content'[b] = "whole"]_vars

\* A bundle the store holds has every revision its run has made: a run evicted while it is
\* still going never leaves the tail of itself behind.
NoTruncatedBundle == \A r \in Runs : bundle[r] # <<>> => Len(bundle[r]) = run[r].done

\* A ref resolves at the moment its revision is appended, whatever other runs do.
RefsResolveWhenAppended ==
  [][\A r \in Runs :
       Len(bundle'[r]) > Len(bundle[r]) =>
         \A b \in RefsOf(<<Last(bundle'[r])>>) : content'[b] = "whole"]_vars

\* put of the right bytes is never refused as corruption while no write fails: a concurrent
\* put of the same bytes "re-verifies and returns success".
NoFalseCorruption == faults = 0 => \A r \in Runs : ~run[r].refused
=============================================================================
