--------------------------- MODULE LifespanProofs ---------------------------
(***************************************************************************)
(* What holds of the lifespan for any set of requests and any host.        *)
(*                                                                         *)
(* The lifespan's locals move in step with its place in the code, and the  *)
(* invariants below say how.  ClientPlace, ContextPlace and YieldPlace,    *)
(* with the types, are inductive together (LifespanInv) and hold for every *)
(* host; ContextPlace says more when log calls do not raise.  On top of    *)
(* them VerdictPlace, BracketPlace, RaisedPlace, CleanPlace,               *)
(* AnnouncedPlace and QuietPlace follow what is logged and what            *)
(* propagates, and DrainedPlace what requests see.  Requests only read the *)
(* lifespan's state, so their steps preserve all but the last at once.     *)
(***************************************************************************)
EXTENDS Lifespan, TLAPS

Locals == <<pc, context, client, entered_yield, shutdown_started,
            shutdown_reason, raised, emitted, body>>

(* The steps of the lifespan's coroutine.                                   *)
LifespanStep ==
  \/ Start \/ Construct \/ EnterFails
  \/ \E e \in Exceptions : ConstructFails(e) \/ CloseInterrupted(e)
  \/ \E k \in Exceptions \cup {"clean"} : EndYield(k)
  \/ AnnounceShutdown \/ DropContext \/ BeginClose \/ CloseReturns
  \/ CloseRaises \/ Report \/ Finish

(* A step of Next is one of the lifespan's steps, or leaves all of the      *)
(* lifespan's state alone.                                                  *)
LEMMA StepCases == [Next]_vars => LifespanStep \/ UNCHANGED Locals
  BY DEF Next, Startup, Teardown, LifespanStep, Locals, vars, lifespanVars,
         Stop, Arrive, RequestStep, Resolve, Call, CallEnds, CallAborted,
         Cancel, Move, Terminated

-----------------------------------------------------------------------------
(* Type correctness: no step takes a variable out of its range.             *)

(* Requests and the stop flag keep their types.                             *)
LEMMA RequestTypes ==
  ASSUME TypeOK, [Next]_vars
  PROVE  /\ req' \in [Requests -> Finished \cup Active \cup {"idle"}]
         /\ stopping' \in BOOLEAN
  <1>1. CASE \E r \in Requests : Arrive(r) \/ RequestStep(r)
    BY <1>1 DEF TypeOK, Arrive, RequestStep, Resolve, Call, CallEnds,
                CallAborted, Cancel, Move, Finished, Active
  <1>2. CASE Stop
    BY <1>2 DEF TypeOK, Stop
  <1>3. CASE UNCHANGED <<stopping, req>>
    BY <1>3 DEF TypeOK
  <1>4. QED
    BY <1>1, <1>2, <1>3 DEF Next, Startup, Teardown, vars, Terminated, Start,
       Construct, EnterFails, ConstructFails, EndYield, AnnounceShutdown,
       DropContext, BeginClose, CloseReturns, CloseRaises, CloseInterrupted,
       Report, Finish

(* The lifespan logs lifecycle events only.                                 *)
LEMMA EventTypes ==
  ASSUME TypeOK, LifespanStep
  PROVE  emitted' \subseteq Events
  <1> USE DEF TypeOK, Events, Verdicts
  <1>1. CASE Start \/ AnnounceShutdown \/ Construct
    BY <1>1 DEF Start, AnnounceShutdown, Construct
  <1>2. CASE CloseReturns \/ CloseRaises
    BY <1>2 DEF CloseReturns, CloseRaises
  <1>3. CASE Report
    BY <1>3 DEF Report, VerdictOf
  <1>4. CASE Finish
    BY <1>4 DEF Finish
  <1>5. CASE UNCHANGED emitted
    BY <1>5
  <1>6. QED
    BY <1>1, <1>2, <1>3, <1>4, <1>5
       DEF LifespanStep, EnterFails, ConstructFails, CloseInterrupted, EndYield,
           DropContext, BeginClose

(* The lifespan steps from a place to a place.                              *)
LEMMA PlaceTypes ==
  ASSUME TypeOK, LifespanStep
  PROVE  pc' \in Places
  BY DEF TypeOK, LifespanStep, Places, Start, Construct, EnterFails,
         ConstructFails, CloseInterrupted, EndYield, AnnounceShutdown,
         DropContext, BeginClose, CloseReturns, CloseRaises, Report, Finish

(* Exceptions and reasons keep their types.                                 *)
LEMMA ExceptionTypes ==
  ASSUME TypeOK, LifespanStep
  PROVE  /\ raised' \in Exceptions \cup {"none"}
         /\ body' \in Exceptions \cup {"clean", "none"}
         /\ shutdown_reason' \in Reasons
  BY DEF TypeOK, LifespanStep, Exceptions, Reasons, ReasonOf, Start, Construct,
         EnterFails, ConstructFails, CloseInterrupted, EndYield,
         AnnounceShutdown, DropContext, BeginClose, CloseReturns, CloseRaises,
         Report, Finish

(* The client, the context and the flags keep their types.                  *)
LEMMA FlagTypes ==
  ASSUME TypeOK, LifespanStep
  PROVE  /\ context' \in BOOLEAN
         /\ client' \in {"none", "orphaned", "open", "closed"}
         /\ entered_yield' \in BOOLEAN
         /\ shutdown_started' \in BOOLEAN
  BY DEF TypeOK, LifespanStep, Start, Construct, EnterFails, ConstructFails,
         CloseInterrupted, EndYield, AnnounceShutdown, DropContext, BeginClose,
         CloseReturns, CloseRaises, Report, Finish

(* Every step keeps the types.                                              *)
LEMMA TypeStep ==
  ASSUME TypeOK, [Next]_vars
  PROVE  TypeOK'
  <1>1. CASE LifespanStep
    BY <1>1, RequestTypes, EventTypes, PlaceTypes, ExceptionTypes, FlagTypes
       DEF TypeOK
  <1>2. CASE UNCHANGED Locals
    BY <1>2, RequestTypes DEF TypeOK, Locals
  <1>3. QED
    BY <1>1, <1>2, StepCases

(* Every variable stays in its range, for any requests, host and faults.    *)
THEOREM TypeCorrect == Spec => []TypeOK
  <1>1. Init => TypeOK
    BY DEF Init, TypeOK, Places, Reasons, Exceptions, Events, Finished, Active
  <1>2. TypeOK /\ [Next]_vars => TypeOK'
    BY TypeStep
  <1>3. QED
    BY <1>1, <1>2, PTL DEF Spec

-----------------------------------------------------------------------------
(* The inductive invariant, part by part.                                   *)

Entered == {"leaving", "dropping", "exiting", "closing"}
Unwound == {"unwinding", "finally", "done"}

(* The client is open exactly from the end of startup to __aexit__.         *)
ClientPlace ==
  /\ client = "open" <=> pc \in {"serving", "leaving", "dropping", "exiting"}
  /\ client = "closed" => pc \in {"closing"} \cup Unwound
  /\ pc = "closing" => client = "closed"

(* The context is published while the coroutine is in the yield or before   *)
(* the delattr, and, if log calls work, at no other time.                   *)
ContextPlace ==
  /\ pc \in {"serving", "leaving", "dropping"} => context
  /\ pc \in {"init", "constructing"} => ~context
  /\ ~LogFaults => (context => pc \in {"serving", "leaving", "dropping"})

(* entered_yield and the history of the yield agree with the place.         *)
YieldPlace ==
  /\ entered_yield <=> (pc = "serving" \/ body # "none")
  /\ pc \in {"init", "constructing", "serving"} => body = "none"
  /\ pc \in Entered => body # "none"
  /\ shutdown_started <=> body # "none"

(* Verdicts are logged on the way into "finally", and only there.           *)
VerdictPlace ==
  LET verdict == emitted \cap Verdicts
      due     == VerdictOf(raised, entered_yield)
  IN  /\ pc \notin {"finally", "done"} => verdict = {}
      /\ verdict \subseteq due
      /\ ~LogFaults /\ pc = "finally" => verdict = due
      /\ ~LogFaults /\ pc = "done" => verdict = due

(* With working logs the other lifecycle events follow the place as well.   *)
BracketPlace ==
  /\ "app_startup_completed" \in emitted <=> entered_yield
  /\ "app_shutdown_started" \in emitted <=> body # "none" /\ pc # "leaving"
  /\ "app_shutdown_completed" \in emitted <=> body # "none" /\ pc = "done"

(* With working logs nothing but a failing close replaces the exception     *)
(* that ended the yield.                                                    *)
RaisedPlace ==
  /\ pc \in Entered => raised = IF body = "clean" THEN "none" ELSE body
  /\ "ollama_client_failed" \in emitted =>
       /\ pc \in Unwound
       /\ raised = IF body = "clean" THEN "exception" ELSE body

(* Under a draining host no request is under way when the coroutine is not  *)
(* at the yield, unless a signal cut the drain short.                       *)
DrainedPlace ==
  HostDrains /\ body \in {"none", "clean"} =>
    \A r \in Requests :
      /\ req[r] \in Active => pc = "serving"
      /\ req[r] \notin {"unavailable", "use_after_close", "aborted"}

-----------------------------------------------------------------------------
(* Each part is preserved by a step of the lifespan.                        *)

(* The client changes only where the place does.                            *)
LEMMA ClientStep ==
  ASSUME TypeOK, ClientPlace, LifespanStep
  PROVE  ClientPlace'
  BY DEF ClientPlace, TypeOK, LifespanStep, Unwound, Start, Construct,
         EnterFails, ConstructFails, CloseInterrupted, EndYield,
         AnnounceShutdown, DropContext, BeginClose, CloseReturns, CloseRaises,
         Report, Finish

(* The context is set on the way into the yield and dropped after it.       *)
LEMMA ContextStep ==
  ASSUME TypeOK, ContextPlace, LifespanStep
  PROVE  ContextPlace'
  BY DEF ContextPlace, TypeOK, LifespanStep, Start, Construct,
         EnterFails, ConstructFails, CloseInterrupted, EndYield,
         AnnounceShutdown, DropContext, BeginClose, CloseReturns, CloseRaises,
         Report, Finish

(* What is known of the yield goes with the place.                          *)
LEMMA YieldStep ==
  ASSUME TypeOK, YieldPlace, LifespanStep
  PROVE  YieldPlace'
  BY DEF YieldPlace, TypeOK, LifespanStep, Entered, Exceptions, Start,
         Construct, EnterFails, ConstructFails, CloseInterrupted, EndYield,
         AnnounceShutdown, DropContext, BeginClose, CloseReturns, CloseRaises,
         Report, Finish

(* The client, the context and the yield flag go with the place.            *)
LifespanInv == TypeOK /\ ClientPlace /\ ContextPlace /\ YieldPlace

(* The invariant holds of every reachable state.                            *)
LEMMA LifespanInvariant == Spec => []LifespanInv
  <1>1. Init => LifespanInv
    BY DEF Init, LifespanInv, TypeOK, ClientPlace, ContextPlace, YieldPlace,
           Places, Reasons, Exceptions, Events, Finished, Active, Entered, Unwound
  <1>2. LifespanInv /\ [Next]_vars => LifespanInv'
    <2> SUFFICES ASSUME LifespanInv, [Next]_vars PROVE LifespanInv'
      OBVIOUS
    <2>1. TypeOK'
      BY TypeStep DEF LifespanInv
    <2>2. CASE LifespanStep
      BY <2>1, <2>2, ClientStep, ContextStep, YieldStep DEF LifespanInv
    <2>3. CASE UNCHANGED Locals
      BY <2>1, <2>3
         DEF LifespanInv, Locals, ClientPlace, ContextPlace, YieldPlace
    <2>4. QED
      BY <2>2, <2>3, StepCases
  <1>3. QED
    BY <1>1, <1>2, PTL DEF Spec

(* On every path out of the process the client that was entered has been    *)
(* closed, even with a host that never drains and logs that raise.          *)
THEOREM ClientNeverLeaks == Spec => []NoManagedLeak
  <1>1. LifespanInv => NoManagedLeak
    BY DEF LifespanInv, ClientPlace, NoManagedLeak
  <1>2. QED
    BY <1>1, LifespanInvariant, PTL

(* If log calls do not raise, the context is gone before __aexit__ starts:  *)
(* the drop precedes the close on every path.                               *)
THEOREM ContextDropsFirst ==
  ASSUME ~LogFaults
  PROVE  Spec => []NoTornDownContext
  <1>1. LifespanInv => NoTornDownContext
    BY DEF LifespanInv, ClientPlace, ContextPlace, NoTornDownContext, Unwound
  <1>2. QED
    BY <1>1, LifespanInvariant, PTL

-----------------------------------------------------------------------------
(* What is logged.                                                          *)

(* Only Report logs a verdict, and the one that is due.                     *)
LEMMA VerdictStep ==
  ASSUME LifespanInv, VerdictPlace, LifespanStep
  PROVE  VerdictPlace'
  <1> USE DEF LifespanInv, TypeOK, VerdictPlace
  <1>1. CASE UNCHANGED emitted /\ pc \notin {"unwinding", "finally", "done"}
                               /\ pc' \notin {"finally", "done"}
    BY <1>1
  <1>2. CASE Start \/ Construct \/ AnnounceShutdown \/ CloseReturns \/ CloseRaises
    BY <1>2 DEF Start, Construct, AnnounceShutdown, CloseReturns, CloseRaises, Verdicts
  <1>3. CASE Report
    BY <1>3 DEF Report, VerdictOf, Verdicts
  <1>4. CASE Finish
    BY <1>4 DEF Finish, Verdicts
  <1>5. QED
    BY <1>1, <1>2, <1>3, <1>4
       DEF LifespanStep, EnterFails, ConstructFails, CloseInterrupted, EndYield,
           DropContext, BeginClose

(* The line operators page on is right on every path: a raising log call    *)
(* can lose it and cannot misroute it.                                      *)
THEOREM VerdictNeverMisleads == Spec => []VerdictIsRight
  <1>1. Init => VerdictPlace
    BY DEF Init, VerdictPlace
  <1>2. LifespanInv /\ VerdictPlace /\ [Next]_vars => VerdictPlace'
    BY VerdictStep, StepCases DEF Locals, VerdictPlace
  <1>3. LifespanInv /\ VerdictPlace => VerdictIsRight
    BY DEF LifespanInv, YieldPlace, VerdictPlace, VerdictIsRight, VerdictOf
  <1>4. QED
    BY <1>1, <1>2, <1>3, LifespanInvariant, PTL DEF Spec

(* The bracketing events are logged where the place says.                   *)
LEMMA BracketStep ==
  ASSUME ~LogFaults, LifespanInv, BracketPlace, LifespanStep
  PROVE  BracketPlace'
  <1> USE DEF LifespanInv, TypeOK, BracketPlace, YieldPlace, Entered
  <1>1. CASE Start \/ Construct \/ AnnounceShutdown
    BY <1>1 DEF Start, Construct, AnnounceShutdown
  <1>2. CASE CloseReturns \/ CloseRaises \/ Finish
    BY <1>2 DEF CloseReturns, CloseRaises, Finish
  <1>3. CASE Report
    BY <1>3 DEF Report, VerdictOf
  <1>4. CASE \E k \in Exceptions \cup {"clean"} : EndYield(k)
    BY <1>4 DEF EndYield, Exceptions
  <1>5. CASE DropContext \/ BeginClose
    BY <1>5 DEF DropContext, BeginClose
  <1>6. CASE \E e \in Exceptions : ConstructFails(e) \/ CloseInterrupted(e)
    BY <1>6 DEF ConstructFails, CloseInterrupted
  <1>7. QED
    BY <1>1, <1>2, <1>3, <1>4, <1>5, <1>6 DEF LifespanStep, EnterFails

(* If log calls do not raise, a process that reported coming up reports     *)
(* going down, however it went down, and no other process does.             *)
THEOREM ShutdownIsBracketed ==
  ASSUME ~LogFaults
  PROVE  Spec => []ShutdownBracketed
  <1>1. Init => BracketPlace
    BY DEF Init, BracketPlace
  <1>2. LifespanInv /\ BracketPlace /\ [Next]_vars => BracketPlace'
    BY BracketStep, StepCases DEF Locals, BracketPlace
  <1>3. LifespanInv /\ BracketPlace => ShutdownBracketed
    BY DEF LifespanInv, YieldPlace, BracketPlace, ShutdownBracketed
  <1>4. QED
    BY <1>1, <1>2, <1>3, LifespanInvariant, PTL DEF Spec

(* Only a failing close changes what propagates.                            *)
LEMMA RaisedStep ==
  ASSUME ~LogFaults, LifespanInv, RaisedPlace, LifespanStep
  PROVE  RaisedPlace'
  <1> USE DEF LifespanInv, TypeOK, RaisedPlace, Entered, Unwound, YieldPlace
  <1>1. CASE Start \/ Construct \/ AnnounceShutdown
    BY <1>1 DEF Start, Construct, AnnounceShutdown
  <1>2. CASE CloseReturns
    BY <1>2 DEF CloseReturns
  <1>3. CASE CloseRaises
    BY <1>3 DEF CloseRaises
  <1>4. CASE Report
    BY <1>4 DEF Report, VerdictOf
  <1>5. CASE Finish
    BY <1>5 DEF Finish
  <1>6. CASE \E k \in Exceptions \cup {"clean"} : EndYield(k)
    BY <1>6 DEF EndYield, Exceptions
  <1>7. CASE DropContext \/ BeginClose
    BY <1>7 DEF DropContext, BeginClose
  <1>8. CASE \E e \in Exceptions : ConstructFails(e) \/ CloseInterrupted(e)
    BY <1>8 DEF ConstructFails, CloseInterrupted
  <1>9. QED
    BY <1>1, <1>2, <1>3, <1>4, <1>5, <1>6, <1>7, <1>8 DEF LifespanStep, EnterFails

(* If log calls do not raise, a close that fails never masks what ended the *)
(* yield, and is not swallowed when nothing did.                            *)
THEOREM BodyErrorSurvivesClose ==
  ASSUME ~LogFaults
  PROVE  Spec => []BodyErrorPreserved
  <1>1. Init => RaisedPlace
    BY DEF Init, RaisedPlace, Entered
  <1>2. LifespanInv /\ RaisedPlace /\ [Next]_vars => RaisedPlace'
    BY RaisedStep, StepCases DEF Locals, RaisedPlace
  <1>3. RaisedPlace => BodyErrorPreserved
    BY DEF RaisedPlace, BodyErrorPreserved
  <1>4. QED
    BY <1>1, <1>2, <1>3, LifespanInvariant, PTL DEF Spec

(* A shutdown that went well up to the close can only fail by it.           *)
CleanPlace ==
  /\ pc \in {"init", "constructing"} => raised = "none"
  /\ shutdown_reason = "clean" => body \in {"clean", "none"}
  /\ body \in {"clean", "none"} /\ raised = "exception" /\ entered_yield =>
       "ollama_client_failed" \in emitted
  /\ body \in {"clean", "none"} /\ "app_shutdown_failed" \in emitted =>
       "ollama_client_failed" \in emitted

(* Nothing but the close makes an exception of a clean yield.               *)
LEMMA CleanStep ==
  ASSUME ~LogFaults, LifespanInv, CleanPlace, RaisedPlace, LifespanStep
  PROVE  CleanPlace'
  <1> USE DEF LifespanInv, TypeOK, CleanPlace, YieldPlace
  <1>1. CASE Start \/ Construct \/ AnnounceShutdown
    BY <1>1 DEF Start, Construct, AnnounceShutdown
  <1>2. CASE CloseReturns \/ CloseRaises
    BY <1>2 DEF CloseReturns, CloseRaises
  <1>3. CASE Report
    BY <1>3 DEF Report, VerdictOf
  <1>4. CASE Finish
    BY <1>4 DEF Finish
  <1>5. CASE \E k \in Exceptions \cup {"clean"} : EndYield(k)
    BY <1>5 DEF EndYield, ReasonOf, Exceptions
  <1>6. CASE DropContext \/ BeginClose
    BY <1>6 DEF DropContext, BeginClose
  <1>7. CASE \E e \in Exceptions : ConstructFails(e) \/ CloseInterrupted(e)
    BY <1>7 DEF ConstructFails, CloseInterrupted
  <1>8. QED
    BY <1>1, <1>2, <1>3, <1>4, <1>5, <1>6, <1>7 DEF LifespanStep, EnterFails

(* If log calls do not raise, a completed shutdown with reason clean went   *)
(* cleanly, as the comments have it, but for a failing close.               *)
THEOREM OnlyAFailedCloseBelies ==
  ASSUME ~LogFaults
  PROVE  Spec => []("ollama_client_failed" \notin emitted => CompletedMeansClean)
  <1>1. Init => CleanPlace /\ RaisedPlace
    BY DEF Init, CleanPlace, RaisedPlace, Entered
  <1>2. LifespanInv /\ CleanPlace /\ RaisedPlace /\ [Next]_vars
          => CleanPlace' /\ RaisedPlace'
    BY CleanStep, RaisedStep, StepCases DEF Locals, CleanPlace, RaisedPlace
  <1>3. CleanPlace => ("ollama_client_failed" \notin emitted => CompletedMeansClean)
    BY DEF CleanPlace, CompletedMeansClean
  <1>4. QED
    BY <1>1, <1>2, <1>3, LifespanInvariant, PTL DEF Spec

(* The announcement, once logged, goes with the drop of the context.        *)
AnnouncedPlace ==
  /\ pc \in {"init", "constructing", "serving", "leaving"} =>
       "app_shutdown_started" \notin emitted
  /\ context /\ "app_shutdown_started" \in emitted => pc = "dropping"

(* Only AnnounceShutdown logs it, and then only DropContext can follow.     *)
LEMMA AnnouncedStep ==
  ASSUME LifespanInv, AnnouncedPlace, LifespanStep
  PROVE  AnnouncedPlace'
  <1> USE DEF LifespanInv, TypeOK, AnnouncedPlace, ContextPlace
  <1>1. CASE Start \/ Construct \/ AnnounceShutdown
    BY <1>1 DEF Start, Construct, AnnounceShutdown
  <1>2. CASE DropContext \/ BeginClose \/ CloseReturns \/ CloseRaises \/ Finish
    BY <1>2 DEF DropContext, BeginClose, CloseReturns, CloseRaises, Finish
  <1>3. CASE Report
    BY <1>3 DEF Report, VerdictOf
  <1>4. CASE \E k \in Exceptions \cup {"clean"} : EndYield(k)
    BY <1>4 DEF EndYield
  <1>5. CASE EnterFails \/ \E e \in Exceptions : ConstructFails(e) \/ CloseInterrupted(e)
    BY <1>5 DEF EnterFails, ConstructFails, CloseInterrupted
  <1>6. QED
    BY <1>1, <1>2, <1>3, <1>4, <1>5 DEF LifespanStep

(* Whatever log calls do, a process that got its shutdown announced hands   *)
(* out no closed client: of all the log calls of the teardown the           *)
(* announcement alone, which nothing suppresses, can leave the context up.  *)
THEOREM AnnouncedStopDropsFirst ==
  Spec => []("app_shutdown_started" \in emitted => NoTornDownContext)
  <1>1. Init => AnnouncedPlace
    BY DEF Init, AnnouncedPlace
  <1>2. LifespanInv /\ AnnouncedPlace /\ [Next]_vars => AnnouncedPlace'
    BY AnnouncedStep, StepCases DEF Locals, AnnouncedPlace
  <1>3. LifespanInv /\ AnnouncedPlace =>
          ("app_shutdown_started" \in emitted => NoTornDownContext)
    BY DEF LifespanInv, ClientPlace, AnnouncedPlace, NoTornDownContext, Unwound
  <1>4. QED
    BY <1>1, <1>2, <1>3, LifespanInvariant, PTL DEF Spec

(* A coroutine past its yield that no exception is leaving took every step  *)
(* of the teardown so far, and each of them well.                           *)
QuietPlace ==
  raised = "none" =>
    /\ pc \in Entered \cup Unwound => body = "clean"
    /\ pc \in {"dropping", "exiting", "closing"} \cup Unwound =>
         "app_shutdown_started" \in emitted
    /\ pc \in {"exiting", "closing"} \cup Unwound => ~context
    /\ pc \in Unwound => client = "closed" /\ "ollama_client_completed" \in emitted

(* No step of the teardown drops an exception.                              *)
LEMMA QuietStep ==
  ASSUME LifespanInv, QuietPlace, LifespanStep
  PROVE  QuietPlace'
  <1> USE DEF LifespanInv, TypeOK, QuietPlace, Entered, Unwound
  <1>1. CASE Start \/ Construct \/ AnnounceShutdown
    BY <1>1 DEF Start, Construct, AnnounceShutdown
  <1>2. CASE DropContext \/ BeginClose
    BY <1>2 DEF DropContext, BeginClose
  <1>3. CASE CloseReturns \/ CloseRaises
    BY <1>3 DEF CloseReturns, CloseRaises, ClientPlace
  <1>4. CASE Report
    BY <1>4 DEF Report, VerdictOf
  <1>5. CASE Finish
    BY <1>5 DEF Finish
  <1>6. CASE \E k \in Exceptions \cup {"clean"} : EndYield(k)
    BY <1>6 DEF EndYield, Exceptions
  <1>7. CASE EnterFails \/ \E e \in Exceptions : ConstructFails(e) \/ CloseInterrupted(e)
    BY <1>7 DEF EnterFails, ConstructFails, CloseInterrupted, Exceptions
  <1>8. QED
    BY <1>1, <1>2, <1>3, <1>4, <1>5, <1>6, <1>7 DEF LifespanStep

(* A process that lifespan() leaves without an exception really shut down:  *)
(* it had been stopped and not thrown out of its yield, withdrew the        *)
(* context, closed the client, and logged both.  Nothing on the way back    *)
(* from a failed startup, an interrupted close or a raising log call can    *)
(* make the exit look clean.                                                *)
THEOREM QuietExitIsClean ==
  Spec => [](pc = "done" /\ raised = "none" =>
               /\ body = "clean" /\ ~context /\ client = "closed"
               /\ {"app_shutdown_started", "ollama_client_completed"} \subseteq emitted)
  <1>1. Init => QuietPlace
    BY DEF Init, QuietPlace, Entered, Unwound
  <1>2. LifespanInv /\ QuietPlace /\ [Next]_vars => QuietPlace'
    BY QuietStep, StepCases DEF Locals, QuietPlace
  <1>3. QuietPlace =>
          (pc = "done" /\ raised = "none" =>
             /\ body = "clean" /\ ~context /\ client = "closed"
             /\ {"app_shutdown_started", "ollama_client_completed"} \subseteq emitted)
    BY DEF QuietPlace, Entered, Unwound
  <1>4. QED
    BY <1>1, <1>2, <1>3, LifespanInvariant, PTL DEF Spec

-----------------------------------------------------------------------------
(* What the requests see.                                                   *)

Requested(r) == Arrive(r) \/ RequestStep(r)

(* A request step keeps what a draining host promises.                      *)
LEMMA DrainedByRequest ==
  ASSUME LifespanInv, DrainedPlace, NEW r \in Requests, Requested(r)
  PROVE  DrainedPlace'
  <1> SUFFICES ASSUME HostDrains, body \in {"none", "clean"}, NEW s \in Requests
               PROVE  /\ req'[s] \in Active => pc = "serving"
                      /\ req'[s] \notin {"unavailable", "use_after_close", "aborted"}
    BY DEF DrainedPlace, Requested, RequestStep, Arrive, Resolve, Call, CallEnds,
           CallAborted, Cancel, Move, lifespanVars
  <1>1. CASE s # r
    BY <1>1 DEF DrainedPlace, LifespanInv, TypeOK, Requested, RequestStep, Arrive,
                Resolve, Call, CallEnds, CallAborted, Cancel, Move
  <1>2. CASE s = r
    <2> USE <1>2 DEF DrainedPlace, LifespanInv, TypeOK, Active
    <2>1. CASE Arrive(r)
      BY <2>1 DEF Arrive, Move
    <2>2. CASE Resolve(r)
      BY <2>2 DEF Resolve, Move, ContextPlace
    <2>3. CASE Call(r) \/ CallAborted(r)
      BY <2>3 DEF Call, CallAborted, Move, ClientPlace, Unwound
    <2>4. CASE CallEnds(r) \/ Cancel(r)
      BY <2>4 DEF CallEnds, Cancel, Move
    <2>5. QED
      BY <2>1, <2>2, <2>3, <2>4 DEF Requested, RequestStep
  <1>3. QED
    BY <1>1, <1>2

(* So does a step of the lifespan: the yield ends when nothing is active.   *)
LEMMA DrainedByLifespan ==
  ASSUME LifespanInv, DrainedPlace, LifespanStep, UNCHANGED req
  PROVE  DrainedPlace'
  <1> USE DEF DrainedPlace
  <1>1. CASE \E k \in Exceptions \cup {"clean"} : EndYield(k)
    BY <1>1 DEF EndYield, Exceptions, Active, LifespanInv, YieldPlace
  <1>2. CASE UNCHANGED body /\ pc # "serving"
    BY <1>2
  <1>3. QED
    BY <1>1, <1>2
       DEF LifespanStep, Start, Construct, EnterFails, ConstructFails,
           CloseInterrupted, AnnounceShutdown, DropContext, BeginClose,
           CloseReturns, CloseRaises, Report, Finish

(* Either the lifespan moves and the requests do not, or one request does,  *)
(* or neither.                                                              *)
LEMMA WhoMoves ==
  [Next]_vars =>
    \/ LifespanStep /\ UNCHANGED <<req, stopping>>
    \/ \E r \in Requests : Requested(r) /\ UNCHANGED Locals
    \/ UNCHANGED Locals /\ UNCHANGED req
  BY DEF Next, Startup, Teardown, LifespanStep, Locals, vars, lifespanVars,
         Stop, Requested, Arrive, RequestStep, Resolve, Call, CallEnds,
         CallAborted, Cancel, Move, Terminated, Start, Construct, EnterFails,
         ConstructFails, EndYield, AnnounceShutdown, DropContext, BeginClose,
         CloseReturns, CloseRaises, CloseInterrupted, Report, Finish

(* A server that drains its requests never lets one see the teardown, as    *)
(* long as no signal cuts the drain short, whether logs work or not.        *)
THEOREM DrainHidesTeardown == Spec => []GracefulStopIsInvisible
  <1>1. Init => DrainedPlace
    BY DEF Init, DrainedPlace, Active
  <1>2. LifespanInv /\ DrainedPlace /\ [Next]_vars => DrainedPlace'
    BY WhoMoves, DrainedByLifespan, DrainedByRequest DEF DrainedPlace, Locals
  <1>3. DrainedPlace => GracefulStopIsInvisible
    BY DEF DrainedPlace, GracefulStopIsInvisible
  <1>4. QED
    BY <1>1, <1>2, <1>3, LifespanInvariant, PTL DEF Spec

-----------------------------------------------------------------------------
(* The lifespan implements the resource scope.                              *)

(* A step of the lifespan is a step of the scope's owner, or none.          *)
LEMMA ScopeByLifespan ==
  ASSUME ~LogFaults, LifespanInv, LifespanInv', LifespanStep, UNCHANGED req
  PROVE  [Scope!Next]_(Scope!scopeVars)
  <1> DEFINE held == [r \in Requests |-> HoldingOf(req[r])]
  <1>1. held' = held
    OBVIOUS
  <1> HIDE DEF held
  <1>2. CASE UNCHANGED <<client, context>>
    BY <1>1, <1>2 DEF Scope!scopeVars, ScopePhase, held
  <1>3. CASE Construct
    <2>1. ScopePhase = "absent" /\ ScopePhase' = "offered"
      BY <1>3 DEF Construct, ScopePhase, LifespanInv, TypeOK, ClientPlace, Unwound
    <2>2. QED
      BY <1>1, <2>1 DEF Scope!Next, Scope!Advance, held
  <1>4. CASE EnterFails
    BY <1>4 DEF EnterFails
  <1>5. CASE DropContext
    <2>1. ScopePhase = "offered" /\ ScopePhase' = "withdrawn"
      BY <1>5 DEF DropContext, ScopePhase, LifespanInv, ClientPlace, ContextPlace
    <2>2. QED
      BY <1>1, <2>1 DEF Scope!Next, Scope!Advance, held
  <1>6. CASE BeginClose
    <2>1. ScopePhase = "withdrawn" /\ ScopePhase' = "released"
      BY <1>6 DEF BeginClose, ScopePhase, LifespanInv, ClientPlace, ContextPlace
    <2>2. QED
      BY <1>1, <2>1 DEF Scope!Next, Scope!Advance, held
  <1>7. QED
    BY <1>2, <1>3, <1>4, <1>5, <1>6
       DEF LifespanStep, Start, ConstructFails, CloseInterrupted, EndYield,
           AnnounceShutdown, CloseReturns, CloseRaises, Report, Finish

(* A step of a request is one of its steps in the scope, or none.           *)
LEMMA ScopeByRequest ==
  ASSUME ~LogFaults, LifespanInv, UNCHANGED Locals, NEW r \in Requests, Requested(r)
  PROVE  [Scope!Next]_(Scope!scopeVars)
  <1> DEFINE held == [s \in Requests |-> HoldingOf(req[s])]
  <1>1. ScopePhase' = ScopePhase
    BY DEF Locals, ScopePhase
  <1>2. ASSUME NEW from, NEW to, req[r] = from, req' = [req EXCEPT ![r] = to]
        PROVE  /\ held[r] = HoldingOf(from)
               /\ held' = [held EXCEPT ![r] = HoldingOf(to)]
    BY <1>2 DEF LifespanInv, TypeOK
  <1> HIDE DEF held
  <1>3. CASE Arrive(r)
    <2>1. held[r] = "nothing" /\ held' = [held EXCEPT ![r] = "asked"]
      BY <1>2, <1>3 DEF Arrive, Move, HoldingOf
    <2>2. QED
      BY <1>1, <2>1 DEF Scope!Next, Scope!Turn, held
  <1>4. CASE Resolve(r) /\ context
    <2>1. held[r] = "asked" /\ held' = [held EXCEPT ![r] = "handle"]
      BY <1>2, <1>4 DEF Resolve, Move, HoldingOf
    <2>2. ScopePhase = "offered"
      BY <1>4 DEF ScopePhase, LifespanInv, ClientPlace, ContextPlace
    <2>3. QED
      BY <1>1, <2>1, <2>2 DEF Scope!Next, Scope!Hand, Scope!Turn, held
  <1>5. CASE Resolve(r) /\ ~context
    <2>1. held[r] = "asked" /\ held' = [held EXCEPT ![r] = "refusal"]
      BY <1>2, <1>5 DEF Resolve, Move, HoldingOf
    <2>2. ScopePhase # "offered"
      BY <1>5 DEF ScopePhase
    <2>3. QED
      BY <1>1, <2>1, <2>2 DEF Scope!Next, Scope!Refuse, Scope!Turn, held
  <1>6. CASE Call(r) /\ client # "closed"
    <2>1. held[r] = "handle" /\ held' = [held EXCEPT ![r] = "handle"]
      BY <1>2, <1>6 DEF Call, Move, HoldingOf
    <2>2. held = [s \in Requests |-> held[s]]
      BY DEF held
    <2>3. held' = held
      <3>1. \A h : h = [s \in Requests |-> h[s]] /\ h[r] = "handle"
                     => [h EXCEPT ![r] = "handle"] = h
        OBVIOUS
      <3>2. QED
        BY <2>1, <2>2, <3>1
    <2>4. QED
      BY <1>1, <2>3 DEF Scope!scopeVars, held
  <1>7. CASE (Call(r) /\ client = "closed") \/ CallEnds(r) \/ CallAborted(r)
    <2>1. held[r] = "handle" /\ held' = [held EXCEPT ![r] = "left"]
      BY <1>2, <1>7 DEF Call, CallEnds, CallAborted, Move, HoldingOf
    <2>2. QED
      BY <1>1, <2>1 DEF Scope!Next, Scope!Leave, Scope!Turn, held
  <1>8. CASE Cancel(r)
    <2>1. PICK from \in Active : Move(r, from, "cancelled")
      BY <1>8 DEF Cancel
    <2>2. held[r] = HoldingOf(from) /\ held' = [held EXCEPT ![r] = HoldingOf("cancelled")]
      BY <1>2, <2>1 DEF Move
    <2>3. HoldingOf(from) \in {"asked", "handle"} /\ HoldingOf("cancelled") = "left"
      BY <2>1 DEF HoldingOf, Active
    <2>4. held[r] \in {"asked", "handle"} /\ held' = [held EXCEPT ![r] = "left"]
      BY <2>2, <2>3
    <2>5. QED
      BY <1>1, <2>4 DEF Scope!Next, Scope!Leave, Scope!Turn, held
  <1>9. QED
    BY <1>3, <1>4, <1>5, <1>6, <1>7, <1>8 DEF Requested, RequestStep

(* If log calls do not raise, the lifespan is a ResourceScope: withdrawn    *)
(* before it is released, once each, and handed out only while offered.     *)
THEOREM LifespanKeepsScope ==
  ASSUME ~LogFaults
  PROVE  Spec => ScopeContract
  <1>1. Init => Scope!Init
    BY DEF Init, Scope!Init, ScopePhase, HoldingOf
  <1>2. LifespanInv /\ LifespanInv' /\ [Next]_vars => [Scope!Next]_(Scope!scopeVars)
    <2> SUFFICES ASSUME LifespanInv, LifespanInv', [Next]_vars
                 PROVE  [Scope!Next]_(Scope!scopeVars)
      OBVIOUS
    <2>1. CASE LifespanStep /\ UNCHANGED <<req, stopping>>
      BY <2>1, ScopeByLifespan
    <2>2. CASE \E r \in Requests : Requested(r) /\ UNCHANGED Locals
      BY <2>2, ScopeByRequest
    <2>3. CASE UNCHANGED Locals /\ UNCHANGED req
      BY <2>3 DEF Locals, Scope!scopeVars, ScopePhase
    <2>4. QED
      BY <2>1, <2>2, <2>3, WhoMoves
  <1>3. QED
    BY <1>1, <1>2, LifespanInvariant, PTL DEF Spec, ScopeContract, Scope!Spec
=============================================================================
