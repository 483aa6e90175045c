------------------------------ MODULE Lifespan ------------------------------
(***************************************************************************)
(* The life of one process of the backend: the lifespan generator of       *)
(* app/main.py, the AsyncExitStack of api/lifespan_resources.py, the       *)
(* enter/close half of OllamaClient, and the requests that reach the       *)
(* client through the Depends factories of api/deps.py.                    *)
(*                                                                         *)
(* The lifespan runs on the event loop, so it is cut where something else  *)
(* can act: at its suspension points (LoopFree) for other coroutines, and  *)
(* between any two of its effects for get_app_state, a plain `def`         *)
(* dependency that FastAPI runs in a worker thread.                        *)
(*                                                                         *)
(* The ASGI server (uvicorn) and httpx are outside the repository: Arrive, *)
(* Stop, the end of the yield, and the outcomes of aclose() and of a call  *)
(* in flight are modelled from what the code expects of them.              *)
(***************************************************************************)
EXTENDS FiniteSets

CONSTANTS
  Requests,    \* the requests that ask for the client
  HostDrains,  \* TRUE: the server admits requests only while it serves, and
               \* drains them before a graceful stop (uvicorn).  FALSE: a bare
               \* ASGI host, as the test transports, which does neither
  LogFaults    \* TRUE: any log call may raise (the regression class the
               \* suppress(Exception) blocks of app/main.py guard against)

ASSUME HostAssumption == HostDrains \in BOOLEAN
ASSUME LogAssumption == LogFaults \in BOOLEAN

VARIABLES
  pc,                \* where the lifespan coroutine stands
  context,           \* is application.state.context set?
  client,            \* the OllamaClient built by lifespan_resources
  entered_yield,     \* local of lifespan()
  shutdown_started,  \* local of lifespan(): is it not None?
  shutdown_reason,   \* local of lifespan()
  raised,            \* the exception propagating through lifespan(), if any
  emitted,           \* the lifecycle events logged so far
  stopping,          \* has the server begun a graceful stop?
  req,               \* where each request stands
  body               \* history: how the yield ended

lifespanVars == <<pc, context, client, entered_yield, shutdown_started,
                  shutdown_reason, raised, emitted, body>>
vars == <<pc, context, client, entered_yield, shutdown_started,
          shutdown_reason, raised, emitted, stopping, req, body>>

-----------------------------------------------------------------------------

Places == {"init", "constructing", "serving", "leaving", "dropping",
           "exiting", "closing", "unwinding", "finally", "done"}

(* What can travel up an await: an Exception, a CancelledError, or a        *)
(* KeyboardInterrupt / SystemExit.                                          *)
Exceptions == {"exception", "cancelled", "interrupt"}

Reasons == {"clean", "cancelled", "exception"}

Verdicts == {"app_startup_failed", "app_startup_cancelled",
             "app_shutdown_failed", "app_shutdown_cancelled"}

Events == Verdicts \cup
          {"app_startup_started", "app_startup_completed",
           "app_shutdown_started", "app_shutdown_completed",
           "ollama_client_started", "ollama_client_completed",
           "ollama_client_failed"}

Finished == {"ended", "aborted", "use_after_close", "unavailable", "cancelled"}
Active == {"arrived", "resolved", "inflight"}

(* The places where the lifespan coroutine is suspended, or not running:    *)
(* only there can a handler's coroutine take a step.                        *)
LoopFree == pc \in {"init", "serving", "closing", "done"}

Init ==
  /\ pc = "init"
  /\ context = FALSE
  /\ client = "none"
  /\ entered_yield = FALSE
  /\ shutdown_started = FALSE
  /\ shutdown_reason = "clean"
  /\ raised = "none"
  /\ emitted = {}
  /\ stopping = FALSE
  /\ req = [r \in Requests |-> "idle"]
  /\ body = "none"

-----------------------------------------------------------------------------
(* Seeded bugs: each is what a plausible slip would make of the definition  *)
(* it is named after, for checking that the properties notice it.           *)

ReasonVerbatim(k) == k

ConstructUnpublished ==
  /\ pc = "constructing"
  /\ client' = "open" /\ entered_yield' = TRUE /\ pc' = "serving"
  /\ emitted' = emitted \cup {"ollama_client_started", "app_startup_completed"}
  /\ UNCHANGED <<context, shutdown_started, shutdown_reason, raised, stopping, req, body>>

ConstructUnflagged ==
  /\ pc = "constructing"
  /\ client' = "open" /\ context' = TRUE /\ pc' = "serving"
  /\ emitted' = emitted \cup {"ollama_client_started", "app_startup_completed"}
  /\ UNCHANGED <<entered_yield, shutdown_started, shutdown_reason, raised,
                 stopping, req, body>>

DropContextForgotten ==
  /\ pc = "dropping"
  /\ pc' = "exiting"
  /\ UNCHANGED <<context, client, entered_yield, shutdown_started, shutdown_reason,
                 raised, emitted, stopping, req, body>>

BeginCloseIfClean ==
  /\ pc = "exiting"
  /\ IF raised = "none"
     THEN client' = "closed" /\ pc' = "closing"
     ELSE client' = client /\ pc' = "unwinding"
  /\ UNCHANGED <<context, entered_yield, shutdown_started, shutdown_reason,
                 raised, emitted, stopping, req, body>>

BeginCloseWhenIdle ==
  /\ pc = "exiting"
  /\ \A r \in Requests : req[r] \notin {"resolved", "inflight"}
  /\ client' = "closed" /\ pc' = "closing"
  /\ UNCHANGED <<context, entered_yield, shutdown_started, shutdown_reason,
                 raised, emitted, stopping, req, body>>

CloseRaisesThrough ==
  /\ pc = "closing"
  /\ pc' = "unwinding" /\ raised' = "exception"
  /\ emitted' = emitted \cup {"ollama_client_failed"}
  /\ UNCHANGED <<context, client, entered_yield, shutdown_started,
                 shutdown_reason, stopping, req, body>>

FinishIfClean ==
  /\ pc = "finally"
  /\ pc' = "done"
  /\ emitted' = IF shutdown_started /\ raised = "none"
                THEN emitted \cup {"app_shutdown_completed"}
                ELSE emitted
  /\ UNCHANGED <<context, client, entered_yield, shutdown_started,
                 shutdown_reason, raised, stopping, req, body>>

ResolveWaits(r) ==
  /\ req[r] = "arrived" /\ context
  /\ req' = [req EXCEPT ![r] = "resolved"]
  /\ UNCHANGED <<lifespanVars, stopping>>

-----------------------------------------------------------------------------
(* The lifespan coroutine.                                                  *)

(* Up to the try: nothing is set up yet, so a failing log call leaves the   *)
(* generator with no verdict logged.                                        *)
Start ==
  /\ pc = "init"
  /\ \/ /\ pc' = "constructing"
        /\ emitted' = emitted \cup {"app_startup_started"}
        /\ raised' = raised
     \/ /\ LogFaults
        /\ pc' = "done"
        /\ raised' = "exception"
        /\ emitted' = emitted
  /\ UNCHANGED <<context, client, entered_yield, shutdown_started,
                 shutdown_reason, stopping, req, body>>

(* lifespan_resources enters the client and yields; the context is          *)
(* published and the startup reported, a report whose failure is            *)
(* suppressed.  No step of this suspends.                                   *)
Construct ==
  /\ pc = "constructing"
  /\ client' = "open"
  /\ context' = TRUE
  /\ entered_yield' = TRUE
  /\ pc' = "serving"
  /\ \/ emitted' = emitted \cup {"ollama_client_started",
                                 "app_startup_completed"}
     \/ /\ LogFaults
        /\ emitted' = emitted \cup {"ollama_client_started"}
  /\ UNCHANGED <<shutdown_started, shutdown_reason, raised, stopping, req, body>>

(* Entering the resources raises.  "cancelled" needs a resource that        *)
(* suspends while it is entered: the arm exists, OllamaClient does not.     *)
ConstructFails(e) ==
  /\ pc = "constructing"
  /\ raised' = e
  /\ pc' = "unwinding"
  /\ UNCHANGED <<context, client, entered_yield, shutdown_started,
                 shutdown_reason, emitted, stopping, req, body>>

(* __aenter__ logs ollama_client_started before the exit stack knows the    *)
(* client: if that call raises, no __aexit__ will ever run.                 *)
EnterFails ==
  /\ LogFaults
  /\ pc = "constructing"
  /\ client' = "orphaned"
  /\ raised' = "exception"
  /\ pc' = "unwinding"
  /\ UNCHANGED <<context, entered_yield, shutdown_started, shutdown_reason,
                 emitted, stopping, req, body>>

ReasonOf(k) ==
  CASE k = "clean"     -> "clean"
    [] k = "cancelled" -> "cancelled"
    [] OTHER           -> "exception"

(* The yield returns or raises: the inner except arms set the reason, the   *)
(* inner finally notes the time.  A draining server resumes the generator   *)
(* normally only after a graceful stop with no request left; a second       *)
(* signal, or the loop's own teardown, throws into it at any time.          *)
EndYield(k) ==
  /\ pc = "serving"
  /\ k = "clean" /\ HostDrains =>
       stopping /\ \A r \in Requests : req[r] \notin Active
  /\ body' = k
  /\ shutdown_reason' = ReasonOf(k)
  /\ raised' = IF k = "clean" THEN "none" ELSE k
  /\ shutdown_started' = TRUE
  /\ pc' = "leaving"
  /\ UNCHANGED <<context, client, entered_yield, emitted, stopping, req>>

(* The shutdown is announced by a log call that is not suppressed: if it    *)
(* raises, the rest of the finally block is skipped.                        *)
AnnounceShutdown ==
  /\ pc = "leaving"
  /\ \/ /\ pc' = "dropping"
        /\ emitted' = emitted \cup {"app_shutdown_started"}
        /\ raised' = raised
     \/ /\ LogFaults
        /\ pc' = "exiting"
        /\ raised' = "exception"
        /\ emitted' = emitted
  /\ UNCHANGED <<context, client, entered_yield, shutdown_started,
                 shutdown_reason, stopping, req, body>>

DropContext ==
  /\ pc = "dropping"
  /\ context' = FALSE
  /\ pc' = "exiting"
  /\ UNCHANGED <<client, entered_yield, shutdown_started, shutdown_reason,
                 raised, emitted, stopping, req, body>>

(* The exit stack calls OllamaClient.__aexit__, and httpx marks the client  *)
(* closed before it awaits its transport.                                   *)
BeginClose ==
  /\ pc = "exiting"
  /\ client' = "closed"
  /\ pc' = "closing"
  /\ UNCHANGED <<context, entered_yield, shutdown_started, shutdown_reason,
                 raised, emitted, stopping, req, body>>

(* aclose() returns, raises an Exception, or is interrupted.  __aexit__     *)
(* lets its own error through only if the body left none.                   *)
CloseReturns ==
  /\ pc = "closing"
  /\ pc' = "unwinding"
  /\ \/ /\ emitted' = emitted \cup {"ollama_client_completed"}
        /\ raised' = raised
     \/ /\ LogFaults
        /\ emitted' = emitted
        /\ raised' = "exception"
  /\ UNCHANGED <<context, client, entered_yield, shutdown_started,
                 shutdown_reason, stopping, req, body>>

CloseRaises ==
  /\ pc = "closing"
  /\ pc' = "unwinding"
  /\ \/ /\ emitted' = emitted \cup {"ollama_client_failed"}
        /\ raised' = IF raised = "none" THEN "exception" ELSE raised
     \/ /\ LogFaults
        /\ emitted' = emitted
        /\ raised' = "exception"
  /\ UNCHANGED <<context, client, entered_yield, shutdown_started,
                 shutdown_reason, stopping, req, body>>

CloseInterrupted(e) ==
  /\ pc = "closing"
  /\ pc' = "unwinding"
  /\ e # "exception"
  /\ raised' = e
  /\ UNCHANGED <<context, client, entered_yield, shutdown_started,
                 shutdown_reason, emitted, stopping, req, body>>

(* The outer except arms: a CancelledError and an Exception each log a      *)
(* verdict named after entered_yield and re-raise; anything else rides      *)
(* past both.                                                               *)
VerdictOf(e, entered) ==
  CASE e = "cancelled" /\ entered  -> {"app_shutdown_cancelled"}
    [] e = "cancelled" /\ ~entered -> {"app_startup_cancelled"}
    [] e = "exception" /\ entered  -> {"app_shutdown_failed"}
    [] e = "exception" /\ ~entered -> {"app_startup_failed"}
    [] OTHER                       -> {}

Report ==
  /\ pc = "unwinding"
  /\ pc' = "finally"
  /\ \/ /\ emitted' = emitted \cup VerdictOf(raised, entered_yield)
        /\ raised' = raised
     \/ /\ LogFaults
        /\ raised \in {"cancelled", "exception"}
        /\ emitted' = emitted
        /\ raised' = "exception"
  /\ UNCHANGED <<context, client, entered_yield, shutdown_started,
                 shutdown_reason, stopping, req, body>>

(* The outer finally: the completion line, suppressed like the startup's.   *)
Finish ==
  /\ pc = "finally"
  /\ pc' = "done"
  /\ \/ emitted' = IF shutdown_started
                   THEN emitted \cup {"app_shutdown_completed"}
                   ELSE emitted
     \/ LogFaults /\ emitted' = emitted
  /\ UNCHANGED <<context, client, entered_yield, shutdown_started,
                 shutdown_reason, raised, stopping, req, body>>

-----------------------------------------------------------------------------
(* The server and the requests.                                             *)

Stop ==
  /\ pc = "serving"
  /\ ~stopping
  /\ stopping' = TRUE
  /\ UNCHANGED <<lifespanVars, req>>

Move(r, from, to) ==
  /\ req[r] = from
  /\ req' = [req EXCEPT ![r] = to]
  /\ UNCHANGED <<lifespanVars, stopping>>

Arrive(r) ==
  /\ HostDrains => pc = "serving" /\ ~stopping
  /\ Move(r, "idle", "arrived")

(* get_app_state, in a worker thread: it can fall between any two effects   *)
(* of the lifespan.  Without a context it raises InternalError.             *)
Resolve(r) == Move(r, "arrived", IF context THEN "resolved" ELSE "unavailable")

(* _request: the is_closed test and the call to httpx have no await         *)
(* between them.  On a closed client it raises RuntimeError.                *)
Call(r) ==
  /\ LoopFree
  /\ Move(r, "resolved",
          IF client = "closed" THEN "use_after_close" ELSE "inflight")

(* A call in flight ends of its own (an answer, an error of Ollama's, or a  *)
(* timeout), or because the pool was closed under it.  It need not end:     *)
(* sending the body has no timeout.                                         *)
CallEnds(r) == LoopFree /\ Move(r, "inflight", "ended")

CallAborted(r) ==
  /\ LoopFree
  /\ client = "closed"
  /\ Move(r, "inflight", "aborted")

(* The consumer disconnects, or the loop cancels the request's task.        *)
Cancel(r) ==
  /\ LoopFree
  /\ \E from \in Active : Move(r, from, "cancelled")

(* Everything is over: not a step of the program.                           *)
Terminated ==
  /\ pc = "done"
  /\ \A r \in Requests : req[r] \notin Active
  /\ UNCHANGED vars

-----------------------------------------------------------------------------

Startup == Start \/ Construct \/ EnterFails \/ \E e \in Exceptions : ConstructFails(e)

Teardown ==
  \/ AnnounceShutdown \/ DropContext \/ BeginClose
  \/ CloseReturns \/ CloseRaises \/ \E e \in Exceptions : CloseInterrupted(e)
  \/ Report \/ Finish

RequestStep(r) ==
  Resolve(r) \/ Call(r) \/ CallEnds(r) \/ CallAborted(r) \/ Cancel(r)

Next ==
  \/ Startup
  \/ \E k \in Exceptions \cup {"clean"} : EndYield(k)
  \/ Teardown
  \/ Stop
  \/ \E r \in Requests : Arrive(r) \/ RequestStep(r)
  \/ Terminated

Spec == Init /\ [][Next]_vars

(* The event loop runs every coroutine that can run; aclose() returns in    *)
(* some way; and the server resumes the generator once a graceful stop has  *)
(* drained.  Nothing makes a request arrive, a signal come, or a call in    *)
(* flight end: Ollama may never read what it is sent.                       *)
Fairness ==
  /\ WF_vars(Startup)
  /\ WF_vars(Teardown)
  /\ WF_vars(stopping /\ EndYield("clean"))
  /\ \A r \in Requests : WF_vars(Resolve(r)) /\ WF_vars(Call(r))

FairSpec == Spec /\ Fairness

-----------------------------------------------------------------------------
(* Properties.                                                              *)

TypeOK ==
  /\ pc \in Places
  /\ context \in BOOLEAN
  /\ client \in {"none", "orphaned", "open", "closed"}
  /\ entered_yield \in BOOLEAN
  /\ shutdown_started \in BOOLEAN
  /\ shutdown_reason \in Reasons
  /\ raised \in Exceptions \cup {"none"}
  /\ emitted \subseteq Events
  /\ stopping \in BOOLEAN
  /\ req \in [Requests -> Finished \cup Active \cup {"idle"}]
  /\ body \in Exceptions \cup {"clean", "none"}

(* No request can be handed a client whose __aexit__ has begun: the context *)
(* is gone by then (the comment over the delattr in lifespan()).  Checked   *)
(* with working logs; a raising log call breaks it.                         *)
NoTornDownContext == client = "closed" => ~context

(* Under a draining server, a process that is up, or that was stopped       *)
(* gracefully, never shows a consumer its own teardown.                     *)
GracefulStopIsInvisible ==
  HostDrains /\ body \in {"none", "clean"} =>
    \A r \in Requests : req[r] \notin {"unavailable", "use_after_close", "aborted"}

(* What ended the yield is what leaves lifespan(), even if aclose() then    *)
(* raises too; and a failed close on its own is not swallowed (the body     *)
(* error preservation of OllamaClient.__aexit__).                           *)
BodyErrorPreserved ==
  pc = "done" /\ "ollama_client_failed" \in emitted =>
    raised = IF body = "clean" THEN "exception" ELSE body

(* With working logs a process reports going down if and only if it         *)
(* reported coming up, whichever way it went down.                          *)
ShutdownBracketed ==
  pc = "done" => ( "app_startup_completed" \in emitted
                     <=> {"app_shutdown_started", "app_shutdown_completed"} \subseteq emitted )

(* The exit stack closes the client it holds on every path out of the       *)
(* process, whatever the telemetry does on the way.  (A client whose enter  *)
(* raised it never held: EnterFails leaves that one open.)                  *)
NoManagedLeak == pc = "done" => client # "open"

(* The one line operators page on names the exception that left lifespan()  *)
(* and the phase it broke: startup if and only if the yield was not         *)
(* reached.  A failing log call may lose the line, never misroute it.       *)
VerdictIsRight ==
  pc = "done" =>
    LET verdict == emitted \cap Verdicts
        due     == VerdictOf(raised, body # "none")
    IN  /\ verdict \subseteq due
        /\ ~LogFaults => verdict = due

(* A call that never ends, as one whose body Ollama does not read: nothing  *)
(* bounds the sending of it, and nothing the drain.                         *)
HangsInCall(r) == [](req[r] = "inflight")

(* A graceful stop ends the process, unless a call never ends: the drain,   *)
(* the close and the unwinding cannot get stuck on one another, and nothing *)
(* but an endless call holds them up.                                       *)
StopCompletes == stopping ~> (pc = "done" \/ \E r \in Requests : HangsInCall(r))

(* Every request that arrived is answered or given up, whatever the         *)
(* lifespan does meanwhile, unless it hangs in its call: none waits for     *)
(* another, and none gets lost between the client it was handed and the     *)
(* teardown.                                                                *)
RequestsFinish ==
  \A r \in Requests : req[r] \in Active ~> (req[r] \in Finished \/ HangsInCall(r))

(* The lifespan, seen from the requests, is a ResourceScope.                *)
ScopePhase ==
  CASE client = "closed"            -> "released"
    [] client = "open" /\ context   -> "offered"
    [] client = "open" /\ ~context  -> "withdrawn"
    [] OTHER                        -> "absent"

HoldingOf(place) ==
  CASE place = "idle"                      -> "nothing"
    [] place = "arrived"                   -> "asked"
    [] place \in {"resolved", "inflight"}  -> "handle"
    [] place = "unavailable"               -> "refusal"
    [] OTHER                               -> "left"

Scope == INSTANCE ResourceScope WITH
  Users <- Requests,
  phase <- ScopePhase,
  holds <- [r \in Requests |-> HoldingOf(req[r])]

(* The withdrawal of the context precedes the release of the client, each   *)
(* happens once, and a request gets the client only in between: the order   *)
(* lifespan() gives its inner finally and its async with.                   *)
ScopeContract == Scope!Spec

(* What comments of app/main.py say, and the program does not do.           *)

(* app_shutdown_completed with reason "clean" tells operators that the      *)
(* shutdown finished cleanly (the comment over app_startup_completed).      *)
CompletedMeansClean ==
  "app_shutdown_completed" \in emitted /\ shutdown_reason = "clean" =>
    "app_shutdown_failed" \notin emitted
=============================================================================
