---------------------------- MODULE MCWorkbench ----------------------------
(* Small instances of the workbench: its stages, or what it keeps in the    *)
(* browser. The two meet only where a new prompt archives the one before    *)
(* it, and Shelf lets the user do that at any time: one or the other runs,  *)
(* the stages in a browser that keeps nothing.                              *)
EXTENDS Workbench, Shelf

Entry(hash, at) == [hash |-> hash, at |-> at]
MCFound == {<<>>, <<Entry("p", 1)>>, <<Entry("q", 2), Entry("p", 1)>>}

\* Compile may come to read what is made after it.
MCRewrites == {<<3, {"prompt", "critique"}>>}

\* Deconstruct may.
MCRewritesFirst == {<<1, {"prompt"}>>}

NothingRun == runs = 0 /\ changes = 0 /\ \A level \in Levels : stakes <= level
Unopened == ~boxed /\ ~localOK /\ touches = 0 /\ dirty /\ loads = [k \in Keys |-> [at |-> "asked", raw |-> Nothing]]

MCInit == Init /\ ShelfInit

MCNext ==
  \/ Unopened /\ Next /\ UNCHANGED shelfVars
  \/ NothingRun /\ ShelfNext /\ UNCHANGED vars

MCSpec == MCInit /\ [][MCNext]_<<vars, shelfVars>>
=============================================================================
