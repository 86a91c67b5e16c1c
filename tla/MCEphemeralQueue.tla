------------------------- MODULE MCEphemeralQueue --------------------------
(* t1 may run anywhere, t2 and t3 are pinned to one endpoint each.  With three *)
(* tasks two queues compete and t1 and t3 share one; with two, one task each.  *)
EXTENDS EphemeralQueue, TLC

CONSTANTS t1, t2, t3, claude, codex, d1, d2, none, visitor

ThreeTasks == {t1, t2, t3}
ThreeHomes == (t1 :> claude) @@ (t2 :> codex) @@ (t3 :> claude)
ThreePinned == {t2, t3}
TwoTasks == {t1, t2}
TwoHomes == (t1 :> claude) @@ (t2 :> codex)
TwoPinned == {t2}
Endpoints == {claude, codex}
Drains == {d1, d2}
============================================================================
