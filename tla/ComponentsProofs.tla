-------------------------- MODULE ComponentsProofs --------------------------
(* The components next to each other: what is proved of a component alone     *)
(* holds of every behaviour that is the component's, for every value of the   *)
(* constants of the components that are proved about.  A step of the bank of  *)
(* slots is a step of the component that runs, or none; so the component's     *)
(* own invariant, and the types of its variables, hold as long as it is the    *)
(* one that runs; and so the bank's type invariant holds.                      *)
EXTENDS Components, TLAPS

-----------------------------------------------------------------------------
LEMMA InflightStep ==
  ASSUME [Next]_vars PROVE part' = part /\ (part = "inflight" => [Inf!Next]_Inf!vars)
  <1>1. CASE Next
    BY <1>1 DEF Next
  <1>2. CASE UNCHANGED vars
    BY <1>2 DEF vars, From9, From10, From11, From12, From13, From14, From15, From16, From17,
           From18, From19, From20, From21, From22, From23, Inf!vars, Inf!sessionVars,
           Inf!fileVars, Inf!passVars, Inf!pastVars
  <1> QED BY <1>1, <1>2

InflightInv == part = "inflight" => Inf!CustodyInv /\ Inf!InflightTypes

LEMMA InflightKept == Spec => []InflightInv
  <1>1. Init => InflightInv
    BY Inf!CustodyInit, Inf!InflightTypeInit, InfAssumption DEF Init, InflightInv
  <1>2. InflightInv /\ [Next]_vars => InflightInv'
    BY InflightStep, Inf!CustodyNext, Inf!InflightTypeNext, InfAssumption DEF InflightInv
  <1> QED BY <1>1, <1>2, PTL DEF Spec

LEMMA InflightTyped == ASSUME InflightInv PROVE part = "inflight" => Inf!TypeOK
  BY Inf!InflightIsTyped, InfAssumption DEF InflightInv

(* A message is sent to a second session only when the first one never       *)
(* worked on it, whatever two passes and a dying daemon make of the ledger.  *)
THEOREM AMessageRunsOnce == Spec => []NothingRunsTwice
  <1>1. InflightInv => NothingRunsTwice
    BY Inf!OnceSafe, InfAssumption DEF InflightInv, NothingRunsTwice, Inf!CustodyInv,
           Inf!HoldInv
  <1> QED BY <1>1, InflightKept, PTL

(* A held notice leaves the file only when it was delivered or dropped by    *)
(* the rules, although two passes overlap and one may die.                   *)
THEOREM AHeldNoticeWaits == Spec => HeldUntilTold
  <1>1. InflightInv /\ [Next]_vars => [part = "inflight" => Inf!KeepsHeld]_vars
    BY InflightStep, Inf!HoldStep, InfAssumption DEF InflightInv, Inf!CustodyInv
  <1> QED BY <1>1, InflightKept, PTL DEF Spec, HeldUntilTold

-----------------------------------------------------------------------------
LEMMA FailoverStep ==
  ASSUME [Next]_vars PROVE part' = part /\ (part = "failover" => [Guard!Fail!Next]_Guard!Fail!vars)
  <1>1. CASE Next
    BY <1>1 DEF Next
  <1>2. CASE UNCHANGED vars
    BY <1>2 DEF vars, From9, From10, From11, From12, From13, From14, From15, From16, From17,
           From18, From19, From20, From21, From22, From23, Guard!Fail!vars,
           Guard!Fail!sessionVars, Guard!Fail!diskVars, Guard!Fail!passVars
  <1> QED BY <1>1, <1>2

FailoverInv == part = "failover" => Guard!OnceInv /\ Guard!FailTypes

LEMMA FailoverKept == Spec => []FailoverInv
  <1>1. Init => FailoverInv
    BY Guard!OnceInit, Guard!FailTypeInit, FailAssumption DEF Init, FailoverInv
  <1>2. FailoverInv /\ [Next]_vars => FailoverInv'
    BY FailoverStep, Guard!OnceNext, Guard!FailTypeNext, FailAssumption DEF FailoverInv
  <1> QED BY <1>1, <1>2, PTL DEF Spec

LEMMA FailoverTyped == ASSUME FailoverInv PROVE part = "failover" => Guard!Fail!TypeOK
  BY Guard!FailIsTyped, FailAssumption DEF FailoverInv

(* A task goes to another runtime only when the first session never worked   *)
(* on it, provider retries and a restart in the middle included.             *)
THEOREM OnlyUnstartedWorkIsReplayed == Spec => []ReplayedUnstarted
  <1>1. FailoverInv => ReplayedUnstarted
    BY DEF FailoverInv, ReplayedUnstarted, Guard!OnceInv, Guard!TransferInv,
           Guard!Fail!ReplayedUnstarted
  <1> QED BY <1>1, FailoverKept, PTL

-----------------------------------------------------------------------------
LEMMA ApprovalsStep ==
  ASSUME [Next]_vars PROVE part' = part /\ (part = "approvals" => [Guard!Appr!Next]_Guard!Appr!vars)
  <1>1. CASE Next
    BY <1>1 DEF Next
  <1>2. CASE UNCHANGED vars
    BY <1>2 DEF vars, From9, From10, From11, From12, From13, From14, From15, From16, From17,
           From18, From19, From20, From21, From22, From23, Guard!Appr!vars
  <1> QED BY <1>1, <1>2

ApprovalsInv == part = "approvals" => Guard!HumanInv /\ Guard!HumanTypes

LEMMA ApprovalsKept == Spec => []ApprovalsInv
  <1>1. Init => ApprovalsInv
    BY Guard!HumanInit, Guard!HumanTypeInit, ApprAssumption DEF Init, ApprovalsInv
  <1>2. ApprovalsInv /\ [Next]_vars => ApprovalsInv'
    BY ApprovalsStep, Guard!HumanNext, Guard!HumanTypeNext, ApprAssumption DEF ApprovalsInv
  <1> QED BY <1>1, <1>2, PTL DEF Spec

LEMMA ApprovalsTyped == ASSUME ApprovalsInv PROVE part = "approvals" => Guard!Appr!TypeOK
  BY Guard!HumanIsTyped, ApprAssumption DEF ApprovalsInv

(* Every affirmative key and every tool call let through goes back to a      *)
(* human's allow of that very request and that very modal.                   *)
THEOREM AHumanAllows == Spec => []OnlyTheHumanAllows
  <1>1. ApprovalsInv => OnlyTheHumanAllows
    BY DEF ApprovalsInv, OnlyTheHumanAllows, Guard!HumanInv, Guard!Appr!OnlyTheHumanAllows
  <1> QED BY <1>1, ApprovalsKept, PTL

-----------------------------------------------------------------------------
LEMMA OriginStep ==
  ASSUME [Next]_vars PROVE part' = part /\ (part = "origin" => [Guard!Orig!Next]_Guard!Orig!vars)
  <1>1. CASE Next
    BY <1>1 DEF Next
  <1>2. CASE UNCHANGED vars
    BY <1>2 DEF vars, From9, From10, From11, From12, From13, From14, From15, From16, From17,
           From18, From19, From20, From21, From22, From23, Guard!Orig!vars
  <1> QED BY <1>1, <1>2

OriginInv == part = "origin" => Guard!HoldInv /\ Guard!OrigTypes

LEMMA OriginKept == Spec => []OriginInv
  <1>1. Init => OriginInv
    BY Guard!HoldInit, Guard!OrigTypeInit, OrigAssumption DEF Init, OriginInv
  <1>2. OriginInv /\ [Next]_vars => OriginInv'
    BY OriginStep, Guard!HoldNext, Guard!OrigTypeNext, OrigAssumption DEF OriginInv
  <1> QED BY <1>1, <1>2, PTL DEF Spec

LEMMA OriginTyped == ASSUME OriginInv PROVE part = "origin" => Guard!Orig!TypeOK
  BY Guard!OrigIsTyped, OrigAssumption DEF OriginInv

(* Of two confirms one wins; a held send goes out once.                      *)
THEOREM OneConfirmWins == Spec => []HeldOnce
  <1>1. OriginInv => HeldOnce
    BY DEF OriginInv, HeldOnce, Guard!HoldInv, Guard!Orig!HeldOnce
  <1> QED BY <1>1, OriginKept, PTL

-----------------------------------------------------------------------------
LEMMA TeardownStep ==
  ASSUME [Next]_vars PROVE part' = part /\ (part = "teardown" => [Guard!Tear!Next]_Guard!Tear!vars)
  <1>1. CASE Next
    BY <1>1 DEF Next
  <1>2. CASE UNCHANGED vars
    BY <1>2 DEF vars, From9, From10, From11, From12, From13, From14, From15, From16, From17,
           From18, From19, From20, From21, From22, From23, Guard!Tear!vars
  <1> QED BY <1>1, <1>2

TeardownInv == part = "teardown" => Guard!TreeInv /\ Guard!TearTypes

LEMMA TeardownKept == Spec => []TeardownInv
  <1>1. Init => TeardownInv
    BY Guard!TreeInit, Guard!TearTypeInit, TearAssumption DEF Init, TeardownInv
  <1>2. TeardownInv /\ [Next]_vars => TeardownInv'
    BY TeardownStep, Guard!TreeNext, Guard!TearTypeNext, TearAssumption DEF TeardownInv
  <1> QED BY <1>1, <1>2, PTL DEF Spec

LEMMA TeardownTyped == ASSUME TeardownInv PROVE part = "teardown" => Guard!Tear!TypeOK
  BY Guard!TearIsTyped, TearAssumption DEF TeardownInv

(* A pid that changed hands is never signalled.                              *)
THEOREM NoStrangerIsKilled == Spec => []NeverAStranger
  <1>1. TeardownInv => NeverAStranger
    BY DEF TeardownInv, NeverAStranger, Guard!TreeInv, Guard!Tear!NeverAStranger
  <1> QED BY <1>1, TeardownKept, PTL

-----------------------------------------------------------------------------
LEMMA AttachStep ==
  ASSUME [Next]_vars PROVE part' = part /\ (part = "attach" => [Host!Att!Next]_Host!Att!vars)
  <1>1. CASE Next
    BY <1>1 DEF Next
  <1>2. CASE UNCHANGED vars
    BY <1>2 DEF vars, From9, From10, From11, From12, From13, From14, From15, From16, From17,
           From18, From19, From20, From21, From22, From23, Host!Att!vars
  <1> QED BY <1>1, <1>2

AttachInv == part = "attach" => Host!AttachInv /\ Host!Att!TypeOK

LEMMA AttachKept == Spec => []AttachInv
  <1>1. Init => AttachInv
    BY Host!AttachInit, Host!AttachTypeInit, AttAssumption DEF Init, AttachInv
  <1>2. AttachInv /\ [Next]_vars => AttachInv'
    BY AttachStep, Host!AttachNext, Host!AttachTypeNext, AttAssumption DEF AttachInv
  <1> QED BY <1>1, <1>2, PTL DEF Spec

LEMMA AttachTyped == ASSUME AttachInv PROVE part = "attach" => Host!Att!TypeOK
  BY DEF AttachInv

(* A client that attaches sees each chunk of output once, unless it was too  *)
(* hasty to wait for the model to settle.                                    *)
THEOREM EveryChunkOnce == Spec => []SeesItOnce
  <1>1. AttachInv => SeesItOnce
    BY Host!AttachSafe, AttAssumption DEF AttachInv, SeesItOnce
  <1> QED BY <1>1, AttachKept, PTL

-----------------------------------------------------------------------------
LEMMA InputStep ==
  ASSUME [Next]_vars PROVE part' = part /\ (part = "input" => [Host!Input!Next]_Host!Input!vars)
  <1>1. CASE Next
    BY <1>1 DEF Next
  <1>2. CASE UNCHANGED vars
    BY <1>2 DEF vars, From9, From10, From11, From12, From13, From14, From15, From16, From17,
           From18, From19, From20, From21, From22, From23, Host!Input!vars
  <1> QED BY <1>1, <1>2

InputInv == part = "input" => Host!InputInv /\ Host!InputTypes

LEMMA InputKept == Spec => []InputInv
  <1>1. Init => InputInv
    BY Host!InputInit, Host!InputTypeInit, InputAssumption DEF Init, InputInv
  <1>2. InputInv /\ [Next]_vars => InputInv'
    BY InputStep, Host!InputNext, Host!InputTypeNext, InputAssumption DEF InputInv
  <1> QED BY <1>1, <1>2, PTL DEF Spec

LEMMA InputTyped == ASSUME InputInv PROVE part = "input" => Host!Input!TypeOK
  BY DEF InputInv, Host!InputTypes

(* A delivery that reports success was submitted, and a committed reload     *)
(* takes no input with it.                                                   *)
THEOREM InputIsSubmitted == Spec => []NothingLeftBehind
  <1>1. InputInv => NothingLeftBehind
    BY Host!InputSafe, InputAssumption DEF InputInv, NothingLeftBehind
  <1> QED BY <1>1, InputKept, PTL

-----------------------------------------------------------------------------
LEMMA ReloadStep ==
  ASSUME [Next]_vars PROVE part' = part /\ (part = "reload" => [Host!Rel!Next]_Host!Rel!vars)
  <1>1. CASE Next
    BY <1>1 DEF Next
  <1>2. CASE UNCHANGED vars
    BY <1>2 DEF vars, From9, From10, From11, From12, From13, From14, From15, From16, From17,
           From18, From19, From20, From21, From22, From23, Host!Rel!vars
  <1> QED BY <1>1, <1>2

ReloadInv == part = "reload" => Host!ReloadInv /\ Host!ReloadTypes

LEMMA ReloadKept == Spec => []ReloadInv
  <1>1. Init => ReloadInv
    BY Host!ReloadInit, Host!ReloadTypeInit, RelAssumption DEF Init, ReloadInv
  <1>2. ReloadInv /\ [Next]_vars => ReloadInv'
    BY ReloadStep, Host!ReloadNext, Host!ReloadTypeNext, RelAssumption DEF ReloadInv
  <1> QED BY <1>1, <1>2, PTL DEF Spec

LEMMA ReloadTyped == ASSUME ReloadInv PROVE part = "reload" => Host!Rel!TypeOK
  BY Host!ReloadIsTyped, RelAssumption DEF ReloadInv

(* A request marked applied was met by a launch that read the configuration  *)
(* it asks for.                                                              *)
THEOREM AppliedWasRead == Spec => []AppliedIsCurrent
  <1>1. ReloadInv => AppliedIsCurrent
    BY Host!ReloadSafe, RelAssumption DEF ReloadInv, AppliedIsCurrent
  <1> QED BY <1>1, ReloadKept, PTL

-----------------------------------------------------------------------------
LEMMA OpencodeStep ==
  ASSUME [Next]_vars PROVE part' = part /\ (part = "opencode" => [Host!Oc!Next]_Host!Oc!vars)
  <1>1. CASE Next
    BY <1>1 DEF Next
  <1>2. CASE UNCHANGED vars
    BY <1>2 DEF vars, From9, From10, From11, From12, From13, From14, From15, From16, From17,
           From18, From19, From20, From21, From22, From23, Host!Oc!vars, Host!Oc!native,
           Host!Oc!plugin, Host!Oc!files, Host!Oc!counts
  <1> QED BY <1>1, <1>2

OpencodeInv == part = "opencode" => Host!OcInv /\ Host!OcTypes

LEMMA OpencodeKept == Spec => []OpencodeInv
  <1>1. Init => OpencodeInv
    BY Host!OcInit, Host!OcTypeInit, OcAssumption DEF Init, OpencodeInv
  <1>2. OpencodeInv /\ [Next]_vars => OpencodeInv'
    BY OpencodeStep, Host!OcNext, Host!OcTypeNext, OcAssumption DEF OpencodeInv
  <1> QED BY <1>1, <1>2, PTL DEF Spec

LEMMA OpencodeTyped == ASSUME OpencodeInv PROVE part = "opencode" => Host!Oc!TypeOK
  BY Host!OcIsTyped, OcAssumption DEF OpencodeInv

(* A committed reload of opencode cuts no delivered message and no           *)
(* compaction.                                                               *)
THEOREM ReloadIsClean == Spec => []ReloadCutsNothing
  <1>1. OpencodeInv => ReloadCutsNothing
    BY Host!OcSafe, OcAssumption DEF OpencodeInv, ReloadCutsNothing
  <1> QED BY <1>1, OpencodeKept, PTL

-----------------------------------------------------------------------------
LEMMA ControlStep ==
  ASSUME [Next]_vars PROVE part' = part /\ (part = "control" => [Host!Ctl!Next]_Host!Ctl!vars)
  <1>1. CASE Next
    BY <1>1 DEF Next
  <1>2. CASE UNCHANGED vars
    BY <1>2 DEF vars, From9, From10, From11, From12, From13, From14, From15, From16, From17,
           From18, From19, From20, From21, From22, From23, Host!Ctl!vars, Host!Ctl!world
  <1> QED BY <1>1, <1>2

ControlInv == part = "control" => Host!StopInv /\ Host!ControlTypes

LEMMA ControlKept == Spec => []ControlInv
  <1>1. Init => ControlInv
    BY Host!StopInit, Host!ControlTypeInit, CtlAssumption DEF Init, ControlInv
  <1>2. ControlInv /\ [Next]_vars => ControlInv'
    BY ControlStep, Host!StopNext, Host!ControlTypeNext, CtlAssumption DEF ControlInv
  <1> QED BY <1>1, <1>2, PTL DEF Spec

LEMMA ControlTyped == ASSUME ControlInv PROVE part = "control" => Host!Ctl!TypeOK
  BY Host!ControlIsTyped, CtlAssumption DEF ControlInv

(* A stop that reports no failure has ended every turn it found.             *)
THEOREM StopEndsTurns == Spec => []StopStops
  <1>1. ControlInv => StopStops
    BY Host!StopSafe, CtlAssumption DEF ControlInv, StopStops
  <1> QED BY <1>1, ControlKept, PTL

-----------------------------------------------------------------------------
LEMMA RoutingStep ==
  ASSUME [Next]_vars PROVE part' = part /\ (part = "routing" => [Notice!Route!Next]_Notice!Route!vars)
  <1>1. CASE Next
    BY <1>1 DEF Next
  <1>2. CASE UNCHANGED vars
    BY <1>2 DEF vars, From9, From10, From11, From12, From13, From14, From15, From16, From17,
           From18, From19, From20, From21, From22, From23, Notice!Route!vars
  <1> QED BY <1>1, <1>2

RoutingInv == part = "routing" => Notice!RoutingInv /\ Notice!RoutingTypes

LEMMA RoutingKept == Spec => []RoutingInv
  <1>1. Init => RoutingInv
    BY Notice!RoutingInit, Notice!RoutingTypeInit, RouteAssumption DEF Init, RoutingInv
  <1>2. RoutingInv /\ [Next]_vars => RoutingInv'
    BY RoutingStep, Notice!RoutingNext, Notice!RoutingTypeNext, RouteAssumption DEF
       RoutingInv
  <1> QED BY <1>1, <1>2, PTL DEF Spec

LEMMA RoutingTyped == ASSUME RoutingInv PROVE part = "routing" => Notice!Route!TypeOK
  BY Notice!RoutingIsTyped, RouteAssumption DEF RoutingInv

(* A message answered "queued" is queued, in the drain's hand, delivered, or *)
(* its sender was told, until the daemon is gone.                            *)
THEOREM QueuedIsKept == Spec => []QueuedHasAFate
  <1>1. RoutingInv => QueuedHasAFate
    BY Notice!RoutingSafe, RouteAssumption DEF RoutingInv, QueuedHasAFate
  <1> QED BY <1>1, RoutingKept, PTL

-----------------------------------------------------------------------------
LEMMA GoalStep ==
  ASSUME [Next]_vars PROVE part' = part /\ (part = "goals" => [Notice!Goal!Next]_Notice!Goal!vars)
  <1>1. CASE Next
    BY <1>1 DEF Next
  <1>2. CASE UNCHANGED vars
    BY <1>2 DEF vars, From9, From10, From11, From12, From13, From14, From15, From16, From17,
           From18, From19, From20, From21, From22, From23, Notice!Goal!vars
  <1> QED BY <1>1, <1>2

GoalInv == part = "goals" => Notice!GoalInv /\ Notice!GoalTypes

LEMMA GoalKept == Spec => []GoalInv
  <1>1. Init => GoalInv
    BY Notice!GoalInit, Notice!GoalTypeInit, GoalAssumption DEF Init, GoalInv
  <1>2. GoalInv /\ [Next]_vars => GoalInv'
    BY GoalStep, Notice!GoalNext, Notice!GoalTypeNext, GoalAssumption DEF GoalInv
  <1> QED BY <1>1, <1>2, PTL DEF Spec

LEMMA GoalTyped == ASSUME GoalInv PROVE part = "goals" => Notice!Goal!TypeOK
  BY Notice!GoalIsTyped, GoalAssumption DEF GoalInv

(* No stall of the thread a peer is on is missed, although sweeps overlap    *)
(* and reads fail.                                                           *)
THEOREM EveryStallIsTold == Spec => []NoStallMissed
  <1>1. GoalInv => NoStallMissed
    BY Notice!GoalSafe, GoalAssumption DEF GoalInv, NoStallMissed
  <1> QED BY <1>1, GoalKept, PTL

-----------------------------------------------------------------------------
LEMMA AcceptanceStep ==
  ASSUME [Next]_vars PROVE part' = part /\ (part = "acceptance" => [Notice!Acc!Next]_Notice!Acc!vars)
  <1>1. CASE Next
    BY <1>1 DEF Next
  <1>2. CASE UNCHANGED vars
    BY <1>2 DEF vars, From9, From10, From11, From12, From13, From14, From15, From16, From17,
           From18, From19, From20, From21, From22, From23, Notice!Acc!vars,
           Notice!Acc!writerVars, Notice!Acc!passVars
  <1> QED BY <1>1, <1>2

AcceptanceInv == part = "acceptance" => Notice!AccInv /\ Notice!AccTypes

LEMMA AcceptanceKept == Spec => []AcceptanceInv
  <1>1. Init => AcceptanceInv
    BY Notice!AccInit, Notice!AccTypeInit, AccAssumption DEF Init, AcceptanceInv
  <1>2. AcceptanceInv /\ [Next]_vars => AcceptanceInv'
    BY AcceptanceStep, Notice!AccNext, Notice!AccTypeNext, AccAssumption DEF AcceptanceInv
  <1> QED BY <1>1, <1>2, PTL DEF Spec

LEMMA AcceptanceTyped == ASSUME AcceptanceInv PROVE part = "acceptance" => Notice!Acc!TypeOK
  BY Notice!AccIsTyped, AccAssumption DEF AcceptanceInv

(* The notice of one verdict is never sent twice, whatever deaths of the     *)
(* daemon fall between the claim and the send.                               *)
THEOREM VerdictToldOnce == Spec => NeverToldTwice
  <1>1. AcceptanceInv /\ [Next]_vars => [part = "acceptance" => Notice!Acc!TellsOnce]_vars
    BY AcceptanceStep, Notice!AccStep, AccAssumption DEF AcceptanceInv
  <1> QED BY <1>1, AcceptanceKept, PTL DEF Spec, NeverToldTwice

-----------------------------------------------------------------------------
LEMMA UpdateStep ==
  ASSUME [Next]_vars PROVE part' = part /\ (part = "update" => [Files!Upd!Next]_Files!Upd!vars)
  <1>1. CASE Next
    BY <1>1 DEF Next
  <1>2. CASE UNCHANGED vars
    BY <1>2 DEF vars, From9, From10, From11, From12, From13, From14, From15, From16, From17,
           From18, From19, From20, From21, From22, From23, Files!Upd!vars
  <1> QED BY <1>1, <1>2

UpdateInv == part = "update" => Files!UpdateInv

LEMMA UpdateKept == Spec => []UpdateInv
  <1>1. Init => UpdateInv
    BY Files!UpdateInit, UpdAssumption DEF Init, UpdateInv
  <1>2. UpdateInv /\ [Next]_vars => UpdateInv'
    BY UpdateStep, Files!UpdateNext, UpdAssumption DEF UpdateInv
  <1> QED BY <1>1, <1>2, PTL DEF Spec

LEMMA UpdateTyped == ASSUME UpdateInv PROVE part = "update" => Files!Upd!TypeOK
  BY DEF UpdateInv, Files!UpdateInv

(* What update says of the daemon is so, for any versions and any number of  *)
(* verbs.                                                                    *)
THEOREM TellsTheTruth == Spec => []SaysWhatRuns
  <1>1. UpdateInv => SaysWhatRuns
    BY Files!UpdateSafe, UpdAssumption DEF UpdateInv, SaysWhatRuns
  <1> QED BY <1>1, UpdateKept, PTL

-----------------------------------------------------------------------------
LEMMA EventLogStep ==
  ASSUME [Next]_vars PROVE part' = part /\ (part = "events" => [Files!Ev!Next]_Files!Ev!vars)
  <1>1. CASE Next
    BY <1>1 DEF Next
  <1>2. CASE UNCHANGED vars
    BY <1>2 DEF vars, From9, From10, From11, From12, From13, From14, From15, From16, From17,
           From18, From19, From20, From21, From22, From23, Files!Ev!vars
  <1> QED BY <1>1, <1>2

EventLogInv == part = "events" => Files!LogInv /\ Files!LogTypes

LEMMA EventLogKept == Spec => []EventLogInv
  <1>1. Init => EventLogInv
    BY Files!LogInit, Files!LogTypeInit, EvAssumption DEF Init, EventLogInv
  <1>2. EventLogInv /\ [Next]_vars => EventLogInv'
    BY EventLogStep, Files!LogNext, Files!LogTypeNext, EvAssumption DEF EventLogInv
  <1> QED BY <1>1, <1>2, PTL DEF Spec

LEMMA EventLogTyped == ASSUME EventLogInv PROVE part = "events" => Files!Ev!TypeOK
  BY Files!LogIsTyped, EvAssumption DEF EventLogInv

(* However many processes find the log full at once, its newest Keep * Cap   *)
(* lines are kept.                                                           *)
THEOREM NewestLinesKept == Spec => []NewestKept
  <1>1. EventLogInv => NewestKept
    BY Files!LogSafe, EvAssumption DEF EventLogInv, NewestKept
  <1> QED BY <1>1, EventLogKept, PTL

-----------------------------------------------------------------------------
LEMMA TurnsStep ==
  ASSUME [Next]_vars PROVE part' = part /\ (part = "turns" => [Files!Turn!Next]_Files!Turn!vars)
  <1>1. CASE Next
    BY <1>1 DEF Next
  <1>2. CASE UNCHANGED vars
    BY <1>2 DEF vars, From9, From10, From11, From12, From13, From14, From15, From16, From17,
           From18, From19, From20, From21, From22, From23, Files!Turn!vars
  <1> QED BY <1>1, <1>2

TurnsInv == part = "turns" => Files!TurnInv /\ Files!TurnTypes

LEMMA TurnsKept == Spec => []TurnsInv
  <1>1. Init => TurnsInv
    BY Files!TurnInit, Files!TurnTypeInit, TurnAssumption DEF Init, TurnsInv
  <1>2. TurnsInv /\ [Next]_vars => TurnsInv'
    BY TurnsStep, Files!TurnNext, Files!TurnTypeNext, TurnAssumption DEF TurnsInv
  <1> QED BY <1>1, <1>2, PTL DEF Spec

LEMMA TurnsTyped == ASSUME TurnsInv PROVE part = "turns" => Files!Turn!TypeOK
  BY Files!TurnIsTyped, TurnAssumption DEF TurnsInv

(* The activity shown is the one the peer's own last line stood for, and a   *)
(* claim of work does not outlive the stale bound, whatever other lines lie  *)
(* beside it and however often the daemon restarts.                          *)
THEOREM ActivityIsHonest == Spec => []ActivityHonest
  <1>1. TurnsInv => ActivityHonest
    BY Files!TurnSafe, TurnAssumption DEF TurnsInv, ActivityHonest
  <1> QED BY <1>1, TurnsKept, PTL

-----------------------------------------------------------------------------
LEMMA MuteStep ==
  ASSUME [Next]_vars PROVE part' = part /\ (part = "mute" => [Files!Mute!Next]_Files!Mute!vars)
  <1>1. CASE Next
    BY <1>1 DEF Next
  <1>2. CASE UNCHANGED vars
    BY <1>2 DEF vars, From9, From10, From11, From12, From13, From14, From15, From16, From17,
           From18, From19, From20, From21, From22, From23, Files!Mute!vars,
           Files!Mute!writerVars, Files!Mute!daemonVars
  <1> QED BY <1>1, <1>2

MuteInv == part = "mute" => Files!MuteInv /\ Files!MuteTypes

LEMMA MuteKept == Spec => []MuteInv
  <1>1. Init => MuteInv
    BY Files!MuteInit, Files!MuteTypeInit, MuteAssumption DEF Init, MuteInv
  <1>2. MuteInv /\ [Next]_vars => MuteInv'
    BY MuteStep, Files!MuteNext, Files!MuteTypeNext, MuteAssumption DEF MuteInv
  <1> QED BY <1>1, <1>2, PTL DEF Spec

LEMMA MuteTyped == ASSUME MuteInv PROVE part = "mute" => Files!Mute!TypeOK
  BY Files!MuteIsTyped, MuteAssumption DEF MuteInv

(* A notice or a park stands for a turn that died on a refusal, and no       *)
(* notice counts more of them than died, for any finite set of files.        *)
THEOREM AMuteIsReal == Spec => []MuteIsReal
  <1>1. MuteInv => MuteIsReal
    BY Files!MuteSafe, MuteAssumption DEF MuteInv, MuteIsReal
  <1> QED BY <1>1, MuteKept, PTL

-----------------------------------------------------------------------------
LEMMA ClockStep ==
  ASSUME [Next]_vars PROVE part' = part /\ (part = "clock" => [Files!Idle!Next]_Files!Idle!vars)
  <1>1. CASE Next
    BY <1>1 DEF Next
  <1>2. CASE UNCHANGED vars
    BY <1>2 DEF vars, From9, From10, From11, From12, From13, From14, From15, From16, From17,
           From18, From19, From20, From21, From22, From23, Files!Idle!vars
  <1> QED BY <1>1, <1>2

ClockInv == part = "clock" => Files!ClockInv

LEMMA ClockKept == ASSUME ~Shared PROVE Spec => []ClockInv
  <1>1. Init => ClockInv
    BY Files!ClockInit, IdleAssumption DEF Init, ClockInv
  <1>2. ClockInv /\ [Next]_vars => ClockInv'
    BY ClockStep, Files!ClockNext, IdleAssumption DEF ClockInv
  <1> QED BY <1>1, <1>2, PTL DEF Spec

ClockFits == part = "clock" => Files!IdleTypes

LEMMA ClockFitsKept == Spec => []ClockFits
  <1>1. Init => ClockFits
    BY Files!IdleTypeInit, IdleAssumption DEF Init, ClockFits
  <1>2. ClockFits /\ [Next]_vars => ClockFits'
    BY ClockStep, Files!IdleTypeNext, IdleAssumption DEF ClockFits
  <1> QED BY <1>1, <1>2, PTL DEF Spec

LEMMA ClockTyped == ASSUME ClockFits PROVE part = "clock" => Files!Idle!TypeOK
  BY Files!IdleIsTyped, IdleAssumption DEF ClockFits

(* No session is reaped that worked within its bound, although its clock     *)
(* reads a bounded tail of a transcript that may end in a large or an        *)
(* unfinished entry, if the folder is its own.                               *)
THEOREM NoWorkerIsReaped == ASSUME ~Shared PROVE Spec => []RecentWorkKeeps
  <1>1. ClockInv => RecentWorkKeeps
    BY DEF ClockInv, RecentWorkKeeps, Files!ClockInv, Files!Idle!RecentWorkKeeps
  <1>2. Spec => []ClockInv
    BY ClockKept
  <1> QED BY <1>1, <1>2, PTL

-----------------------------------------------------------------------------
LEMMA ConfigStep ==
  ASSUME [Next]_vars PROVE part' = part /\ (part = "config" => [Files!Conf!Next]_Files!Conf!vars)
  <1>1. CASE Next
    BY <1>1 DEF Next
  <1>2. CASE UNCHANGED vars
    BY <1>2 DEF vars, From9, From10, From11, From12, From13, From14, From15, From16, From17,
           From18, From19, From20, From21, From22, From23, Files!Conf!vars
  <1> QED BY <1>1, <1>2

ConfigInv == part = "config" => Files!ConfigInv /\ Files!ConfigTypes

LEMMA ConfigKept == Spec => []ConfigInv
  <1>1. Init => ConfigInv
    BY Files!ConfigInit, Files!ConfigTypeInit, ConfAssumption DEF Init, ConfigInv
  <1>2. ConfigInv /\ [Next]_vars => ConfigInv'
    BY ConfigStep, Files!ConfigNext, Files!ConfigTypeNext, ConfAssumption DEF ConfigInv
  <1> QED BY <1>1, <1>2, PTL DEF Spec

LEMMA ConfigTyped == ASSUME ConfigInv PROVE part = "config" => Files!Conf!TypeOK
  BY Files!ConfigIsTyped, ConfAssumption DEF ConfigInv

(* When the verbs are at rest, none was killed and no write fell on a file   *)
(* that had changed, the files of the other programs say what the profiles   *)
(* say, whatever verbs and boots overlapped.                                 *)
THEOREM FilesAgree == Spec => []AtRestAgrees
  <1>1. ConfigInv => AtRestAgrees
    BY Files!ConfigSafe, ConfAssumption DEF ConfigInv, AtRestAgrees
  <1> QED BY <1>1, ConfigKept, PTL

-----------------------------------------------------------------------------
LEMMA LimitStep ==
  ASSUME [Next]_vars PROVE part' = part /\ (part = "limit" => [Notice!Limit!Next]_Notice!Limit!vars)
  <1>1. CASE Next
    BY <1>1 DEF Next
  <1>2. CASE UNCHANGED vars
    BY <1>2 DEF vars, From9, From10, From11, From12, From13, From14, From15, From16, From17,
           From18, From19, From20, From21, From22, From23, Notice!Limit!vars
  <1> QED BY <1>1, <1>2

LimitInv == part = "limit" => Notice!LimitInv

LEMMA LimitKept == Spec => []LimitInv
  <1>1. Init => LimitInv
    BY Notice!LimitInit, LimitAssumption DEF Init, LimitInv
  <1>2. LimitInv /\ [Next]_vars => LimitInv'
    BY LimitStep, Notice!LimitNext, LimitAssumption DEF LimitInv
  <1> QED BY <1>1, <1>2, PTL DEF Spec

LEMMA LimitTyped == ASSUME LimitInv PROVE part = "limit" => Notice!Limit!TypeOK
  BY Notice!LimitIsTyped, LimitAssumption DEF LimitInv

-----------------------------------------------------------------------------
LEMMA MemberStep ==
  ASSUME [Next]_vars PROVE part' = part /\ (part = "members" => [Notice!Mem!Next]_Notice!Mem!vars)
  <1>1. CASE Next
    BY <1>1 DEF Next
  <1>2. CASE UNCHANGED vars
    BY <1>2 DEF vars, From9, From10, From11, From12, From13, From14, From15, From16, From17,
           From18, From19, From20, From21, From22, From23, Notice!Mem!vars
  <1> QED BY <1>1, <1>2

MemberInv == part = "members" => Notice!MemInv

LEMMA MemberKept == Spec => []MemberInv
  <1>1. Init => MemberInv
    BY Notice!MemInit, MemAssumption DEF Init, MemberInv
  <1>2. MemberInv /\ [Next]_vars => MemberInv'
    BY MemberStep, Notice!MemNext, MemAssumption DEF MemberInv
  <1> QED BY <1>1, <1>2, PTL DEF Spec

LEMMA MemberTyped == ASSUME MemberInv PROVE part = "members" => Notice!Mem!TypeOK
  BY Notice!MemIsTyped, MemAssumption DEF MemberInv

-----------------------------------------------------------------------------
LEMMA GateStep ==
  ASSUME [Next]_vars PROVE part' = part /\ (part = "boot" => [Host!Gate!Next]_Host!Gate!vars)
  <1>1. CASE Next
    BY <1>1 DEF Next
  <1>2. CASE UNCHANGED vars
    BY <1>2 DEF vars, From9, From10, From11, From12, From13, From14, From15, From16, From17,
           From18, From19, From20, From21, From22, From23, Host!Gate!vars
  <1> QED BY <1>1, <1>2

GateInv == part = "boot" => Host!Gate!TypeOK

LEMMA GateKept == Spec => []GateInv
  <1>1. Init => GateInv
    BY Host!GateTypeInit, GateAssumption DEF Init, GateInv
  <1>2. GateInv /\ [Next]_vars => GateInv'
    BY GateStep, Host!GateTypeNext, GateAssumption DEF GateInv
  <1> QED BY <1>1, <1>2, PTL DEF Spec

LEMMA GateTyped == ASSUME GateInv PROVE part = "boot" => Host!Gate!TypeOK
  BY DEF GateInv

-----------------------------------------------------------------------------
LEMMA PaneStep ==
  ASSUME [Next]_vars PROVE part' = part /\ (part = "panelog" => [Host!Pane!Next]_Host!Pane!vars)
  <1>1. CASE Next
    BY <1>1 DEF Next
  <1>2. CASE UNCHANGED vars
    BY <1>2 DEF vars, From9, From10, From11, From12, From13, From14, From15, From16, From17,
           From18, From19, From20, From21, From22, From23, Host!Pane!vars
  <1> QED BY <1>1, <1>2

PaneInv == part = "panelog" => Host!PaneInv

LEMMA PaneKept == Spec => []PaneInv
  <1>1. Init => PaneInv
    BY Host!PaneInit, PaneAssumption DEF Init, PaneInv
  <1>2. PaneInv /\ [Next]_vars => PaneInv'
    BY PaneStep, Host!PaneNext, PaneAssumption DEF PaneInv
  <1> QED BY <1>1, <1>2, PTL DEF Spec

LEMMA PaneTyped == ASSUME PaneInv PROVE part = "panelog" => Host!Pane!TypeOK
  BY Host!PaneIsTyped, PaneAssumption DEF PaneInv

-----------------------------------------------------------------------------
LEMMA AlwaysOnStep ==
  ASSUME [Next]_vars PROVE part' = part /\ (part = "alwayson" => [Host!On!Next]_Host!On!vars)
  <1>1. CASE Next
    BY <1>1 DEF Next
  <1>2. CASE UNCHANGED vars
    BY <1>2 DEF vars, From9, From10, From11, From12, From13, From14, From15, From16, From17,
           From18, From19, From20, From21, From22, From23, Host!On!vars
  <1> QED BY <1>1, <1>2

AlwaysOnInv == part = "alwayson" => Host!OnInv

LEMMA AlwaysOnKept == Spec => []AlwaysOnInv
  <1>1. Init => AlwaysOnInv
    BY Host!OnInit, OnAssumption DEF Init, AlwaysOnInv
  <1>2. AlwaysOnInv /\ [Next]_vars => AlwaysOnInv'
    BY AlwaysOnStep, Host!OnNext, OnAssumption DEF AlwaysOnInv
  <1> QED BY <1>1, <1>2, PTL DEF Spec

LEMMA AlwaysOnTyped == ASSUME AlwaysOnInv PROVE part = "alwayson" => Host!On!TypeOK
  BY DEF AlwaysOnInv, Host!OnInv

-----------------------------------------------------------------------------
LEMMA VoiceStep ==
  ASSUME [Next]_vars PROVE part' = part /\ (part = "voice" => [Notice!Vo!Next]_Notice!Vo!vars)
  <1>1. CASE Next
    BY <1>1 DEF Next
  <1>2. CASE UNCHANGED vars
    BY <1>2 DEF vars, From9, From10, From11, From12, From13, From14, From15, From16, From17,
           From18, From19, From20, From21, From22, From23, Notice!Vo!vars
  <1> QED BY <1>1, <1>2

VoiceInv == part = "voice" => Notice!VoiceTyped

LEMMA VoiceKept == Spec => []VoiceInv
  <1>1. Init => VoiceInv
    BY Notice!VoiceInit, VoAssumption DEF Init, VoiceInv
  <1>2. VoiceInv /\ [Next]_vars => VoiceInv'
    BY VoiceStep, Notice!VoiceNext, VoAssumption DEF VoiceInv
  <1> QED BY <1>1, <1>2, PTL DEF Spec

LEMMA VoiceTyped == ASSUME VoiceInv PROVE part = "voice" => Notice!Vo!TypeOK
  BY Notice!VoiceIsTyped, VoAssumption DEF VoiceInv

-----------------------------------------------------------------------------
LEMMA StartStep ==
  ASSUME [Next]_vars PROVE part' = part /\ (part = "start" => [Host!Start!Next]_Host!Start!vars)
  <1>1. CASE Next
    BY <1>1 DEF Next
  <1>2. CASE UNCHANGED vars
    BY <1>2 DEF vars, From9, From10, From11, From12, From13, From14, From15, From16, From17,
           From18, From19, From20, From21, From22, From23, Host!Start!vars
  <1> QED BY <1>1, <1>2

StartInv == part = "start" => Host!StartInv

LEMMA StartKept == Spec => []StartInv
  <1>1. Init => StartInv
    BY Host!StartInit, StartAssumption DEF Init, StartInv
  <1>2. StartInv /\ [Next]_vars => StartInv'
    BY StartStep, Host!StartNext, StartAssumption DEF StartInv
  <1> QED BY <1>1, <1>2, PTL DEF Spec

LEMMA StartTyped == ASSUME StartInv PROVE part = "start" => Host!Start!TypeOK
  BY DEF StartInv, Host!StartInv

-----------------------------------------------------------------------------
LEMMA ConnectStep ==
  ASSUME [Next]_vars PROVE part' = part /\ (part = "connect" => [Notice!Con!Next]_Notice!Con!vars)
  <1>1. CASE Next
    BY <1>1 DEF Next
  <1>2. CASE UNCHANGED vars
    BY <1>2 DEF vars, From9, From10, From11, From12, From13, From14, From15, From16, From17,
           From18, From19, From20, From21, From22, From23, Notice!Con!vars
  <1> QED BY <1>1, <1>2

ConnectInv == part = "connect" => Notice!Con!TypeOK

LEMMA ConnectKept == Spec => []ConnectInv
  <1>1. Init => ConnectInv
    BY Notice!ConTypeInit, ConAssumption DEF Init, ConnectInv
  <1>2. ConnectInv /\ [Next]_vars => ConnectInv'
    BY ConnectStep, Notice!ConTypeNext, ConAssumption DEF ConnectInv
  <1> QED BY <1>1, <1>2, PTL DEF Spec

LEMMA ConnectTyped == ASSUME ConnectInv PROVE part = "connect" => Notice!Con!TypeOK
  BY DEF ConnectInv

-----------------------------------------------------------------------------
LEMMA UninstallStep ==
  ASSUME [Next]_vars PROVE part' = part /\ (part = "uninstall" => [Notice!Un!Next]_Notice!Un!vars)
  <1>1. CASE Next
    BY <1>1 DEF Next
  <1>2. CASE UNCHANGED vars
    BY <1>2 DEF vars, From9, From10, From11, From12, From13, From14, From15, From16, From17,
           From18, From19, From20, From21, From22, From23, Notice!Un!vars, Notice!Un!left,
           Notice!Un!run
  <1> QED BY <1>1, <1>2

UninstallInv == part = "uninstall" => Notice!Un!TypeOK

LEMMA UninstallKept == Spec => []UninstallInv
  <1>1. Init => UninstallInv
    BY Notice!UnTypeInit, UnAssumption DEF Init, UninstallInv
  <1>2. UninstallInv /\ [Next]_vars => UninstallInv'
    BY UninstallStep, Notice!UnTypeNext, UnAssumption DEF UninstallInv
  <1> QED BY <1>1, <1>2, PTL DEF Spec

LEMMA UninstallTyped == ASSUME UninstallInv PROVE part = "uninstall" => Notice!Un!TypeOK
  BY DEF UninstallInv

-----------------------------------------------------------------------------
(* The components' invariants, all together. *)
Fits ==
  /\ InflightInv /\ FailoverInv /\ ApprovalsInv /\ OriginInv /\ TeardownInv
  /\ AttachInv /\ InputInv /\ ReloadInv /\ OpencodeInv /\ ControlInv
  /\ RoutingInv /\ GoalInv /\ AcceptanceInv /\ UpdateInv /\ EventLogInv
  /\ TurnsInv /\ MuteInv /\ ClockFits /\ ConfigInv /\ LimitInv
  /\ MemberInv /\ GateInv /\ PaneInv /\ AlwaysOnInv /\ VoiceInv
  /\ StartInv /\ ConnectInv /\ UninstallInv

LEMMA EachFits == Spec => []Fits
  BY InflightKept, FailoverKept, ApprovalsKept, OriginKept, TeardownKept, AttachKept,
     InputKept, ReloadKept, OpencodeKept, ControlKept, RoutingKept, GoalKept,
     AcceptanceKept, UpdateKept, EventLogKept, TurnsKept, MuteKept, ClockFitsKept,
     ConfigKept, LimitKept, MemberKept, GateKept, PaneKept, AlwaysOnKept, VoiceKept,
     StartKept, ConnectKept, UninstallKept, PTL DEF Fits

(* Whichever component runs, its variables have the values its module says   *)
(* they have, for every value of the constants: no counter leaves its bound, *)
(* no step or queue holds anything it should not.                            *)
THEOREM ComponentsTyped == Spec => []TypeOK
  <1>1. Fits => TypeOK
    BY InflightTyped, FailoverTyped, ApprovalsTyped, OriginTyped, TeardownTyped,
       AttachTyped, InputTyped, ReloadTyped, OpencodeTyped, ControlTyped, RoutingTyped,
       GoalTyped, AcceptanceTyped, UpdateTyped, EventLogTyped, TurnsTyped, MuteTyped,
       ClockTyped, ConfigTyped, LimitTyped, MemberTyped, GateTyped, PaneTyped,
       AlwaysOnTyped, VoiceTyped, StartTyped, ConnectTyped, UninstallTyped DEF Fits, TypeOK
  <1> QED BY <1>1, EachFits, PTL
=============================================================================
