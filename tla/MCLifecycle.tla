---------------------------- MODULE MCLifecycle ----------------------------
(* Small instances of Lifecycle.                                            *)
EXTENDS Lifecycle

CONSTANTS t, w, w2, none

OneWake == {t, w}
TwoWakes == {t, w, w2}
Tick1 == {t}

Nobody == {}
Launcher == {w}
AllBoots == {"ready", "unprocessed", "hang"}
ReadyBoots == {"ready"}
HungBoots == {"ready", "hang"}
HealthyBoots == {"ready", "unprocessed"}

ParkVerbs == {"stop", "start", "refresh", "failover"}
LiveVerbs == {"stop", "start", "selfFresh"}
CrashVerbs == {"stop", "start", "new", "attach"}
FolderOnly == {"folder"}
FreshOrAttach == {"selfFresh", "attach"}

============================================================================
