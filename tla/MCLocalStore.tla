---------------------------- MODULE MCLocalStore ----------------------------
(* Small instances of storage-local: three runs (one already on disk, from  *)
(* before 1.3.1), two or three clients in one or two processes.             *)
EXTENDS LocalStore, TLC

CONSTANTS ra, rb, rc, c1, c2, p1, p2

MCRuns == {ra, rb, rc}
MCRevIds == 1 .. 3
MCStamps == 1 .. 2
MCOldRuns == {rc}
MCClients == {c1, c2}
OneProc == {p1}
OneProcOf == [c \in MCClients |-> p1]
TwoProcs == {p1, p2}
TwoProcsOf == (c1 :> p1) @@ (c2 :> p2)
=============================================================================
