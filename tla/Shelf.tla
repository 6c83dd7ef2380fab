-------------------------------- MODULE Shelf --------------------------------
(***************************************************************************)
(* What the workbench keeps in the browser: the history of the prompts it  *)
(* superseded, and the prompts the user saved.                             *)
(*                                                                         *)
(* One adapter writes both, to the sandbox's window.storage where there is *)
(* one and to localStorage otherwise, or when the sandbox refuses. The     *)
(* sandbox is asynchronous: what is asked of it settles later.  The page   *)
(* loads each list when it opens, and an effect stores the history after   *)
(* every change once it was loaded.                                        *)
(***************************************************************************)
EXTENDS Naturals, SequencesExt

CONSTANTS
  Prompts, Times,      \* the hashes and the times of entries
  Found,               \* the lists a browser may hold from before
  MaxKept,             \* MAX_REVISION_HISTORY and MAX_VAULT_ENTRIES
  BoxFails,            \* whether the sandbox refuses a read or a write
  InOrder,             \* whether the sandbox settles writes in the order asked
  LoadsFirst,          \* whether the user waits for the page to have loaded
  MaxAsked, MaxTouches \* bounds on the writes in flight, and on the changes

Keys == {"history", "vault"}
Entries == [hash : Prompts, at : Times]

ASSUME ShelfAssumption ==
  /\ Found \subseteq Seq(Entries)
  /\ MaxKept \in Nat \ {0}
  /\ {BoxFails, InOrder, LoadsFirst} \subseteq BOOLEAN

\* What a backend holds under a key: {list}, or Nothing. A removal writes Nothing.
Nothing == {}

VARIABLES
  boxed, localOK,   \* whether the page has window.storage, and whether localStorage works
  box, local,       \* what each backend holds
  asked,            \* the writes the sandbox has not settled
  loads,            \* per key: "asked", "read" or "done", and the answer
  shown,            \* the lists on the screen
  dirty,            \* the effect that stores the history is due
  told,             \* the lists whose last write failed and the user was told so
  backup,           \* the import awaiting its confirmation
  kept,             \* history variable: what the user did to each list, from what was stored
  touches           \* counter of the bound

shelfVars == <<boxed, localOK, box, local, asked, loads, shown, dirty, told, backup, kept, touches>>

Newest(list) == SubSeq(list, 1, IF Len(list) < MaxKept THEN Len(list) ELSE MaxKept)
AsList(raw) == IF raw = Nothing THEN <<>> ELSE Newest(CHOOSE list \in raw : TRUE)

\* Both lists come back through a sanitizer, which cuts them.
LocalAnswer(k) == IF localOK THEN local[k] ELSE Nothing
Answers(k) ==
  IF boxed /\ box[k] # Nothing
  THEN {box[k]} \union (IF BoxFails THEN {LocalAnswer(k)} ELSE {})
  ELSE {LocalAnswer(k)}

\* What the page shows if it is opened again and nothing fails.
Reopened(k) == AsList(IF boxed /\ box[k] # Nothing THEN box[k] ELSE LocalAnswer(k))

ShelfInit ==
  /\ boxed \in BOOLEAN /\ localOK \in BOOLEAN
  /\ box \in [Keys -> IF boxed THEN {{list} : list \in Found} \union {Nothing} ELSE {Nothing}]
  /\ local \in [Keys -> IF localOK THEN {{list} : list \in Found} \union {Nothing} ELSE {Nothing}]
  /\ asked = <<>>
  /\ loads = [k \in Keys |-> [at |-> "asked", raw |-> Nothing]]
  /\ shown = [k \in Keys |-> <<>>]
  /\ dirty = TRUE /\ told = {}
  /\ backup = Nothing
  /\ kept = [k \in Keys |-> Reopened(k)]
  /\ touches = 0

\* The notice about a write, once it came to an end. An empty history that could
\* not be stored is not mentioned.
Tell(k, stored, list) ==
  told' = IF stored \/ (list = <<>> /\ k = "history") THEN told \ {k} ELSE told \union {k}

\* storage.set, from its call: the sandbox is asked, localStorage is written at once.
Store(k, list) ==
  IF boxed
  THEN asked' = Append(asked, [key |-> k, value |-> {list}]) /\ UNCHANGED <<local, told>>
  ELSE /\ local' = IF localOK THEN [local EXCEPT ![k] = {list}] ELSE local
       /\ Tell(k, localOK, list)
       /\ UNCHANGED asked

\* A load: the backends answer, then the page takes the answer. An absent list changes nothing
\* on the screen.
Read(k) ==
  /\ loads[k].at = "asked"
  /\ \E raw \in Answers(k) : loads' = [loads EXCEPT ![k] = [at |-> "read", raw |-> raw]]
  /\ UNCHANGED <<boxed, localOK, box, local, asked, shown, dirty, told, backup, kept, touches>>

Loaded(k) ==
  /\ loads[k].at = "read"
  /\ loads' = [loads EXCEPT ![k].at = "done"]
  /\ shown' = IF loads[k].raw = Nothing THEN shown ELSE [shown EXCEPT ![k] = AsList(loads[k].raw)]
  /\ dirty' = (dirty \/ k = "history")
  /\ UNCHANGED <<boxed, localOK, box, local, asked, told, backup, kept, touches>>

historyReady == loads["history"].at = "done"

\* The effect on the history, due when the page opens and after every change. It runs once the
\* page was drawn, so that two changes may share it, and returns while the history is not ready.
MayPersistUnguarded == TRUE

MayPersist == historyReady

Persist ==
  /\ dirty /\ MayPersist
  /\ (boxed => Len(asked) < MaxAsked)
  /\ dirty' = FALSE
  /\ Store("history", Newest(shown["history"]))
  /\ UNCHANGED <<boxed, localOK, box, loads, shown, backup, kept, touches>>

\* The sandbox settles a write, or refuses it and localStorage takes it.
Settle(i) ==
  /\ i \in DOMAIN asked
  /\ (InOrder => i = 1)
  /\ asked' = RemoveAt(asked, i)
  /\ LET k == asked[i].key  v == asked[i].value
     IN \/ /\ box' = [box EXCEPT ![k] = v]
           /\ local' = IF v = Nothing THEN [local EXCEPT ![k] = v] ELSE local
           /\ IF v = Nothing THEN UNCHANGED told ELSE Tell(k, TRUE, AsList(v))
        \/ /\ BoxFails
           /\ local' = IF localOK THEN [local EXCEPT ![k] = v] ELSE local
           /\ IF v = Nothing THEN UNCHANGED told ELSE Tell(k, localOK, AsList(v))
           /\ UNCHANGED box
  /\ UNCHANGED <<boxed, localOK, loads, shown, dirty, backup, kept, touches>>

\* What the user may do, and when.
Touch(k) ==
  /\ touches < MaxTouches
  /\ touches' = touches + 1
  /\ (LoadsFirst => loads[k].at = "done")
  /\ (boxed => Len(asked) < MaxAsked)
  /\ UNCHANGED <<boxed, localOK, loads>>

\* commitPromptRevision, of a prompt that replaces another.
Archive(e) ==
  /\ Touch("history")
  /\ shown' = [shown EXCEPT !["history"] = Newest(<<e>> \o @)]
  /\ kept' = [kept EXCEPT !["history"] = Newest(<<e>> \o @)]
  /\ dirty' = TRUE
  /\ UNCHANGED <<box, local, asked, told, backup>>

ClearHistory ==
  /\ Touch("history")
  /\ shown' = [shown EXCEPT !["history"] = <<>>]
  /\ kept' = [kept EXCEPT !["history"] = <<>>]
  /\ dirty' = TRUE
  /\ IF boxed
     THEN asked' = Append(asked, [key |-> "history", value |-> Nothing]) /\ UNCHANGED local
     ELSE local' = [local EXCEPT !["history"] = Nothing] /\ UNCHANGED asked
  /\ UNCHANGED <<box, told, backup>>

\* importRevisionHistory reads a file; the user merges it, replaces with it, or cancels.
Import(list) ==
  /\ Touch("history")
  /\ backup' = {Newest(list)}
  /\ UNCHANGED <<box, local, asked, shown, dirty, told, kept>>

FirstOfHash(list) ==
  {i \in DOMAIN list : \A j \in 1 .. i - 1 : list[j].hash # list[i].hash}

\* One entry a hash, the imported one first, newest first.
Merged(incoming, list) ==
  LET all == incoming \o list
      Before(i, j) == all[i].at > all[j].at \/ (all[i].at = all[j].at /\ i < j)
      order == SetToSortSeq(FirstOfHash(all), Before)
  IN Newest([n \in 1 .. Cardinality(FirstOfHash(all)) |-> all[order[n]]])

Confirm(mode) ==
  /\ backup # Nothing
  /\ LET next == IF mode = "merge" THEN Merged(AsList(backup), shown["history"]) ELSE AsList(backup)
     IN shown' = [shown EXCEPT !["history"] = next] /\ kept' = [kept EXCEPT !["history"] = next]
  /\ dirty' = TRUE
  /\ backup' = Nothing
  /\ UNCHANGED <<boxed, localOK, box, local, asked, loads, told, touches>>

CancelImport ==
  /\ backup # Nothing
  /\ backup' = Nothing
  /\ UNCHANGED <<boxed, localOK, box, local, asked, loads, shown, dirty, told, kept, touches>>

\* persistVault, after a save or the removal of one entry.
PersistVault(list) ==
  /\ Touch("vault")
  /\ shown' = [shown EXCEPT !["vault"] = list]
  /\ Store("vault", list)
  /\ UNCHANGED <<box, dirty, backup>>

SaveFinal(e) ==
  /\ PersistVault(Newest(<<e>> \o shown["vault"]))
  /\ kept' = [kept EXCEPT !["vault"] = Newest(<<e>> \o @)]

Discard(i) ==
  /\ i \in DOMAIN shown["vault"]
  /\ PersistVault(RemoveAt(shown["vault"], i))
  /\ kept' = [kept EXCEPT !["vault"] = IF i \in DOMAIN @ THEN RemoveAt(@, i) ELSE @]

ShelfNext ==
  \/ \E k \in Keys : Read(k) \/ Loaded(k)
  \/ Persist
  \/ \E i \in 1 .. MaxAsked : Settle(i)
  \/ \E e \in Entries : Archive(e) \/ SaveFinal(e)
  \/ \E list \in Found : Import(list)
  \/ \E mode \in {"merge", "replace"} : Confirm(mode)
  \/ CancelImport \/ ClearHistory
  \/ \E i \in 1 .. MaxKept : Discard(i)

ShelfSpec == ShelfInit /\ [][ShelfNext]_shelfVars

\* Once nothing is in flight, the page shows what the user made of what was stored, and shows the
\* same when it is opened again; or the user was told that it will not. "Guarded on
\* revisionHistoryReady so the initial empty state never overwrites stored history", says
\* SystemPromptBuilderPipeline.tsx:2063, and the README of the workbench (lines 86-89) that
\* nothing is discarded silently.
ShelfKept ==
  (asked = <<>> /\ ~dirty) =>
    \A k \in Keys \ told : loads[k].at = "done" => shown[k] = kept[k] /\ Reopened(k) = kept[k]
=============================================================================
