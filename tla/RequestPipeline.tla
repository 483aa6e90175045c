--------------------------- MODULE RequestPipeline ---------------------------
(***************************************************************************)
(* HTTP requests through the backend's stack, from the consumer to the     *)
(* route and back:                                                         *)
(*                                                                         *)
(*   ServerErrorMiddleware > RequestIdMiddleware > ExceptionMiddleware     *)
(*     > route                                                             *)
(*                                                                         *)
(* The requests of this model are served one after the other in one        *)
(* contextvars context, so what one leaves bound is there when the next    *)
(* arrives.  (asyncio copies the context per task: requests in different   *)
(* tasks do not share one.)  A request may also reach an app whose         *)
(* RequestIdMiddleware is missing, which the handlers provide for.         *)
(*                                                                         *)
(* Starlette's two error middlewares and the routes are outside the        *)
(* repository: what they do is modelled from what the handlers rely on.    *)
(***************************************************************************)
EXTENDS Integers, Sequences

CONSTANT Ids   \* request ids: UUIDs, three at least

ASSUME IdsAssumption == {"none", "garbage"} \cap Ids = {}

VARIABLES
  pc,         \* where the request stands
  request,    \* the request being served, or the last one served
  ctx,        \* the structlog contextvars
  state_id,   \* scope["state"]["request_id"]
  captured,   \* local of RequestIdMiddleware.__call__: captured_status
  unhandled,  \* local of RequestIdMiddleware.__call__: unhandled_exc
  started,    \* has a response start been attempted?  (both of Starlette's
              \* error middlewares keep this flag)
  response,   \* the problem+json response an exception handler returned
  wire,       \* what the consumer has received
  access      \* the request_completed line of this request

vars == <<pc, request, ctx, state_id, captured, unhandled, started, response,
          wire, access>>

-----------------------------------------------------------------------------

Places == {"idle", "refusing", "inside", "streaming", "answering", "flushing",
           "finally", "outside", "apologising", "apology"}

(* What a route, or the router, raises for a handler other than the         *)
(* catch-all: a DomainError of either class of status, FastAPI's            *)
(* validation error, or an HTTPException, whose status may be any.          *)
DomainErrors == { [status |-> 429, code |-> "RATE_LIMITED"],
                  [status |-> 504, code |-> "INFERENCE_TIMEOUT"] }
HttpStatuses == {304, 404, 405, 415, 503}

(* What reaches no handler of ExceptionMiddleware: a bug, a CancelledError  *)
(* (the consumer went away), a KeyboardInterrupt or SystemExit.             *)
Escapes == {"exception", "cancelled", "interrupt"}

Paths == {"/health", "/route", "*"}   \* "*" stands for OPTIONS *: no leading /
Offers == {"absent", "valid", "malformed"}   \* of the X-Request-ID header

NoContext == [request_id |-> "none", source |-> "none", error_code |-> "none"]
NoResponse == [status |-> 0, code |-> "none", id |-> "none", headers |-> <<>>]
NoWire == [status |-> 0, code |-> "none", id |-> "none", headers |-> <<>>,
           complete |-> FALSE, lost |-> FALSE]
NoAccess == [status |-> 0, error_code |-> "none", id |-> "none", source |-> "none"]

Init ==
  /\ pc = "idle"
  /\ request = [id |-> "none", path |-> "/route", guarded |-> TRUE,
                source |-> "none", bound |-> {}, raised |-> "none"]
  /\ ctx = NoContext
  /\ state_id = "none"
  /\ captured = 0
  /\ unhandled = "none"
  /\ started = FALSE
  /\ response = NoResponse
  /\ wire = NoWire
  /\ access = NoAccess

-----------------------------------------------------------------------------
(* Seeded bugs: what a plausible slip would make of the definition each is  *)
(* named after, for checking that the properties notice it.                 *)

StampAppended(headers) == Append(headers, request.id)

ResolveStatusLast(status, exc) ==
  CASE exc = "none"      -> status
    [] exc = "cancelled" -> IF status = 0 THEN 499 ELSE status
    [] OTHER             -> 500

ResolveStatusUniform(status, exc) == IF status # 0 \/ exc = "none" THEN status ELSE 500

ClearedRoutingOnly == [ctx EXCEPT !.request_id = "none", !.source = "none"]

InitialCodeForStatusOnly(s) ==
  CASE s = 404   -> "NOT_FOUND"
    [] s = 405   -> "METHOD_NOT_ALLOWED"
    [] s >= 500  -> "INTERNAL_ERROR"
    [] OTHER     -> "HTTP_ERROR"

CodeForStatusUntyped(s) == IF s = 404 THEN "NOT_FOUND" ELSE "HTTP Error"

HandleStampsIfMissed(code, problem, always) ==
  /\ IF state_id \in Ids
     THEN /\ ctx' = [ctx EXCEPT !.error_code = code]
          /\ response' = [status |-> problem.status, code |-> problem.code,
                          id |-> state_id, headers |-> <<>>]
     ELSE \E i \in Ids :
            /\ i \notin {ctx.request_id, request.id}
            /\ ctx' = [request_id |-> i, source |-> "fallback", error_code |-> code]
            /\ response' = [status |-> problem.status, code |-> problem.code,
                            id |-> i, headers |-> <<i>>]
  /\ request' = [request EXCEPT !.bound = @ \cup {code}]

SuppressedByPath(status) == request.path = "/health"

-----------------------------------------------------------------------------
(* RequestIdMiddleware, on the way in.                                      *)

Cleared == NoContext

(* A fresh uuid4 repeats nothing in sight.                                  *)
Fresh(i) == i \notin {ctx.request_id, request.id, state_id}

(* The entry of the middleware, up to the size guard: the context is        *)
(* cleared, the consumer's id is taken if it is a UUID and replaced if not, *)
(* and the id is bound and parked on the scope.                             *)
Enter(path, offer, oversize) ==
  \E i \in Ids :
    /\ pc = "idle"
    /\ offer # "valid" => Fresh(i)
    /\ LET source == IF offer = "valid" THEN "client" ELSE "generated"
       IN  /\ request' = [id |-> i, path |-> path, guarded |-> TRUE,
                          source |-> source, bound |-> {}, raised |-> "none"]
           /\ ctx' = [Cleared EXCEPT !.request_id = i, !.source = source]
    /\ state_id' = i
    /\ captured' = 0 /\ unhandled' = "none"
    /\ started' = FALSE /\ response' = NoResponse
    /\ wire' = NoWire /\ access' = NoAccess
    /\ pc' = IF oversize THEN "refusing" ELSE "inside"

(* A scope that is not http passes through a cleared context; what runs     *)
(* under it may bind an error_code of its own.                              *)
PassThrough ==
  /\ pc = "idle"
  /\ \E code \in {"none", "INTERNAL_ERROR"} : ctx' = [Cleared EXCEPT !.error_code = code]
  /\ UNCHANGED <<pc, request, state_id, captured, unhandled, started, response,
                 wire, access>>

(* The misconfigured app: the request goes straight to ExceptionMiddleware. *)
EnterBare(path) ==
  /\ pc = "idle"
  /\ request' = [id |-> "none", path |-> path, guarded |-> FALSE,
                 source |-> "none", bound |-> {}, raised |-> "none"]
  /\ state_id' = "none"
  /\ captured' = 0 /\ unhandled' = "none"
  /\ started' = FALSE /\ response' = NoResponse
  /\ wire' = NoWire /\ access' = NoAccess
  /\ pc' = "inside"
  /\ UNCHANGED ctx

(* Where an exception that leaves ExceptionMiddleware, or the size guard,   *)
(* goes: the except arm of RequestIdMiddleware, or straight out of a bare   *)
(* app.                                                                     *)
Escape(e) ==
  /\ request' = [request EXCEPT !.raised = e]
  /\ unhandled' = IF request.guarded THEN e ELSE unhandled
  /\ pc' = IF request.guarded THEN "finally"
           ELSE IF e = "exception" THEN "outside"
           ELSE "idle"

(* send_with_request_id replaces any X-Request-ID header by its own.        *)
Stamp(headers) == <<request.id>>

Stamped(message) ==
  IF request.guarded THEN [message EXCEPT !.headers = Stamp(@)] ELSE message

OnTheWire(message) ==
  [status |-> message.status, code |-> message.code, id |-> message.id,
   headers |-> message.headers, complete |-> FALSE, lost |-> FALSE]

(* A send fails because the consumer is gone, or the task is cancelled.     *)
SendFails ==
  /\ wire' = [wire EXCEPT !.lost = TRUE]
  /\ \E e \in {"exception", "cancelled"} : Escape(e)

(* The start of a response, sent from inside the middleware: the status is  *)
(* captured before the message is handed on.                                *)
SendStart(message, next) ==
  /\ started' = TRUE
  /\ captured' = IF request.guarded THEN message.status ELSE captured
  /\ \/ /\ wire' = OnTheWire(message)
        /\ pc' = next
        /\ UNCHANGED <<request, unhandled>>
     \/ SendFails

(* The body after it ends the exchange, if it gets through.                 *)
SendBody ==
  /\ \/ /\ wire' = [wire EXCEPT !.complete = TRUE]
        /\ pc' = IF request.guarded THEN "finally" ELSE "idle"
        /\ UNCHANGED <<request, unhandled>>
     \/ SendFails
  /\ UNCHANGED <<ctx, state_id, captured, started, response, access>>

(* The size guard: the 413 body carries the path, and ProblemDetails wants  *)
(* a leading "/" in it; without one it raises.                              *)
Send413 ==
  IF request.path = "*"
  THEN Escape("exception") /\ UNCHANGED <<started, wire>>
  ELSE \/ /\ started' = TRUE
          /\ wire' = OnTheWire([status |-> 413, code |-> "REQUEST_TOO_LARGE",
                                id |-> request.id, headers |-> <<request.id>>])
          /\ pc' = "flushing"
          /\ UNCHANGED <<request, unhandled>>
       \/ /\ started' = TRUE
          /\ SendFails

Refuse ==
  /\ pc = "refusing"
  /\ captured' = 413
  /\ Send413
  /\ UNCHANGED <<ctx, state_id, response, access>>

-----------------------------------------------------------------------------
(* The route.                                                               *)

(* No route matches "*": there the router raises its 404.                   *)
RouteStarts ==
  /\ pc = "inside"
  /\ request.path # "*"
  /\ \E headers \in {<<>>, <<"foreign">>} :
       SendStart(Stamped([status |-> 200, code |-> "none", id |-> "none",
                          headers |-> headers]), "streaming")
  /\ UNCHANGED <<ctx, state_id, response, access>>

RouteEnds == pc = "streaming" /\ SendBody

(* Something on the route overwrites request.state.request_id, by a UUID,   *)
(* which the handlers take for the request's, or by what is none: the case  *)
(* _resolve_request_id re-validates against.                                *)
RouteClobbers ==
  /\ pc = "inside"
  /\ request.path # "*"
  /\ state_id' \in Ids \cup {"garbage"}
  /\ UNCHANGED <<pc, request, ctx, captured, unhandled, started, response, wire, access>>

(* An exception no handler takes, or any exception once the response has    *)
(* started: ExceptionMiddleware then raises a RuntimeError instead.         *)
RouteEscapes(e) ==
  /\ pc \in {"inside", "streaming"}
  /\ request.path = "*" => e # "exception"
  /\ Escape(e)
  /\ UNCHANGED <<ctx, state_id, captured, started, response, wire, access>>

-----------------------------------------------------------------------------
(* The exception handlers.                                                  *)

CodeForStatus(s) ==
  CASE s = 404  -> "NOT_FOUND"
    [] s = 405  -> "METHOD_NOT_ALLOWED"
    [] s >= 500 -> "INTERNAL_ERROR"
    [] OTHER    -> "HTTP_ERROR"

Internal == [status |-> 500, code |-> "INTERNAL_ERROR"]

(* _build_problem_payload falls back to InternalError when the path does    *)
(* not make an `instance`.                                                  *)
Payload(problem) == IF request.path = "*" THEN Internal ELSE problem

(* Any handler: bind the code, resolve the id (a parked UUID, or else a     *)
(* fresh one that is bound over the other), build the problem.  The header  *)
(* is stamped here only if the parked id was missed, except that the        *)
(* catch-all always stamps it.                                              *)
Handle(code, problem, always) ==
  /\ IF state_id \in Ids
     THEN /\ ctx' = [ctx EXCEPT !.error_code = code]
          /\ response' = [status |-> problem.status, code |-> problem.code,
                          id |-> state_id,
                          headers |-> IF always THEN <<state_id>> ELSE <<>>]
     ELSE \E i \in Ids :
            /\ Fresh(i)
            /\ ctx' = [request_id |-> i, source |-> "fallback", error_code |-> code]
            /\ response' = [status |-> problem.status, code |-> problem.code,
                            id |-> i, headers |-> <<i>>]
  /\ request' = [request EXCEPT !.bound = @ \cup {code}]

(* ExceptionMiddleware finds a handler for the error the route, or for "*"  *)
(* the router, raised.                                                      *)
RouteRaises(code, problem) ==
  /\ pc = "inside"
  /\ Handle(code, problem, FALSE)
  /\ pc' = "answering"
  /\ UNCHANGED <<state_id, captured, unhandled, started, wire, access>>

HandleDomainError(e) ==
  request.path # "*" /\ RouteRaises(e.code, Payload(e))

HandleValidationError ==
  /\ request.path # "*"
  /\ RouteRaises("VALIDATION_FAILED", Payload([status |-> 422, code |-> "VALIDATION_FAILED"]))

InitialCode(s) == IF s < 400 THEN "INTERNAL_ERROR" ELSE CodeForStatus(s)

(* An HTTPException that is no error, or a 5xx, is wrapped in               *)
(* InternalError.                                                           *)
HandleHttpException(s) ==
  /\ request.path = "*" => s = 404
  /\ RouteRaises(InitialCode(s),
       IF s < 400 \/ s >= 500 THEN Internal
       ELSE Payload([status |-> s, code |-> InitialCode(s)]))

Answer ==
  /\ pc = "answering"
  /\ SendStart(Stamped(response), "flushing")
  /\ UNCHANGED <<ctx, state_id, response, access>>

AnswerEnds == pc = "flushing" /\ SendBody

-----------------------------------------------------------------------------
(* RequestIdMiddleware, on the way out, and the catch-all outside it.       *)

ResolveStatus(status, exc) ==
  IF status # 0 \/ exc = "none" THEN status
  ELSE IF exc = "cancelled" THEN 499
  ELSE 500

Suppressed(status) == request.path = "/health" /\ status >= 200 /\ status < 400

(* The finally block: one access line, with what the context holds now.     *)
(* source is the middleware's local; the id comes from the context.         *)
Leave ==
  /\ pc = "finally"
  /\ LET status == ResolveStatus(captured, unhandled)
     IN  access' = IF Suppressed(status) THEN NoAccess
                   ELSE [status |-> status, error_code |-> ctx.error_code,
                         id |-> ctx.request_id, source |-> request.source]
  /\ pc' = IF unhandled = "exception" THEN "outside" ELSE "idle"
  /\ UNCHANGED <<request, ctx, state_id, captured, unhandled, started, response, wire>>

(* ServerErrorMiddleware calls the catch-all for any Exception ...          *)
CatchAll ==
  /\ pc = "outside"
  /\ Handle("INTERNAL_ERROR", Internal, TRUE)
  /\ pc' = "apologising"
  /\ UNCHANGED <<state_id, captured, unhandled, started, wire, access>>

(* ... and sends its answer unless a response was started; then it raises   *)
(* the exception again, and the server drops it.                            *)
Apologise ==
  /\ pc = "apologising"
  /\ IF started
     THEN pc' = "idle" /\ UNCHANGED <<started, wire>>
     ELSE /\ started' = TRUE
          /\ \/ /\ wire' = OnTheWire(response)
                /\ pc' = "apology"
             \/ /\ wire' = [wire EXCEPT !.lost = TRUE]
                /\ pc' = "idle"
  /\ UNCHANGED <<request, ctx, state_id, captured, unhandled, response, access>>

ApologyEnds ==
  /\ pc = "apology"
  /\ \/ wire' = [wire EXCEPT !.complete = TRUE]
     \/ wire' = [wire EXCEPT !.lost = TRUE]
  /\ pc' = "idle"
  /\ UNCHANGED <<request, ctx, state_id, captured, unhandled, started, response, access>>

-----------------------------------------------------------------------------

Serve ==
  \/ Refuse \/ RouteStarts \/ RouteEnds \/ Answer \/ AnswerEnds
  \/ \E e \in Escapes : RouteEscapes(e)
  \/ \E e \in DomainErrors : HandleDomainError(e)
  \/ HandleValidationError
  \/ \E s \in HttpStatuses : HandleHttpException(s)
  \/ Leave \/ CatchAll \/ Apologise \/ ApologyEnds

Arrive ==
  \/ \E path \in Paths, offer \in Offers, oversize \in BOOLEAN : Enter(path, offer, oversize)
  \/ \E path \in Paths : EnterBare(path)
  \/ PassThrough

Next == Arrive \/ RouteClobbers \/ Serve

Spec == Init /\ [][Next]_vars

-----------------------------------------------------------------------------
(* Properties.                                                              *)

Maybe(S) == S \cup {"none"}
Codes == {"RATE_LIMITED", "INFERENCE_TIMEOUT", "VALIDATION_FAILED", "NOT_FOUND",
          "METHOD_NOT_ALLOWED", "HTTP_ERROR", "INTERNAL_ERROR", "REQUEST_TOO_LARGE"}
Statuses == {0, 200, 404, 405, 413, 415, 422, 429, 499, 500, 504}
Headers == {<<>>, <<"foreign">>} \cup { <<i>> : i \in Ids }

TypeOK ==
  /\ pc \in Places
  /\ request \in [id : Maybe(Ids), path : Paths, guarded : BOOLEAN,
                  source : Maybe({"client", "generated"}),
                  bound : SUBSET Codes, raised : Maybe(Escapes)]
  /\ ctx \in [request_id : Maybe(Ids), error_code : Maybe(Codes),
              source : Maybe({"client", "generated", "fallback"})]
  /\ state_id \in Maybe(Ids) \cup {"garbage"}
  /\ captured \in Statuses
  /\ unhandled \in Maybe(Escapes)
  /\ started \in BOOLEAN
  /\ response \in [status : Statuses, code : Maybe(Codes), id : Maybe(Ids),
                   headers : Headers]
  /\ wire \in [status : Statuses, code : Maybe(Codes), id : Maybe(Ids),
               headers : Headers, complete : BOOLEAN, lost : BOOLEAN]
  /\ access \in [status : Statuses, error_code : Maybe(Codes), id : Maybe(Ids),
                 source : Maybe({"client", "generated"})]

Logged == access.status # 0

Overwritten == state_id # request.id

(* One id ties an exchange together: the response carries it in exactly one *)
(* header, a problem body repeats it, and the access line does, whichever   *)
(* of the three senders (the wrapper, the size guard, the catch-all) set it *)
(* and whatever the route put in its own headers.  A route that overwrites  *)
(* request.state.request_id breaks that: the body then has another id.      *)
(* What is left under the middleware is the one header, with the request's  *)
(* own id on any response that is sent from inside it, and an access line   *)
(* by the request's id or the body's.                                       *)
OneRequestId ==
  wire.status # 0 /\ (request.guarded \/ wire.status # 200) =>
    /\ Overwritten \/
         \E i \in Ids :
           /\ wire.headers = <<i>>
           /\ wire.id \in {"none", i}
           /\ request.guarded => request.id = i /\ (Logged => access.id = i)
    /\ request.guarded =>
         /\ Len(wire.headers) = 1
         /\ captured # 0 => wire.headers = <<request.id>>
         /\ Logged => access.id \in {request.id, wire.id}

(* The access line gives the status the consumer got, also when the         *)
(* response comes from the catch-all after the line was written, and when   *)
(* the route fails in the middle of its response.                           *)
AccessTellsWire ==
  Logged /\ wire.status # 0 /\ ~(captured = 413 /\ request.path = "*") =>
    access.status = wire.status

(* The error_code of an access line was bound for this request: none is     *)
(* left over from what ran in the context before.                           *)
NoStaleErrorCode ==
  Logged => access.error_code \in Maybe(request.bound)

(* When a typed handler answered, the access line names the code that the   *)
(* body it sent carries.  (Not for OPTIONS *, whose body falls back to      *)
(* INTERNAL_ERROR after the code of its 404 was bound.)                     *)
CodeIsCorrelated ==
  Logged /\ captured \notin {0, 413} /\ wire.status # 0 /\ request.path # "*" =>
    access.error_code = wire.code

(* A request the middleware served leaves an access line, except for a      *)
(* health probe that succeeded.                                             *)
NoSilentRequest ==
  pc = "idle" /\ request.guarded /\ request.id # "none" /\ ~Logged =>
    request.path = "/health" /\ wire.status \in {0, 200} /\ captured = 200

(* A consumer that goes away before its response starts is not counted as a *)
(* server error.                                                            *)
CancelIsNotServerError ==
  Logged /\ request.raised = "cancelled" /\ ~started => access.status = 499

(* Whatever goes wrong with the route, a consumer that is still there gets  *)
(* a whole problem+json answer with an id, in a header too, unless the      *)
(* route had begun one of its own.  (An app without the middleware leaves   *)
(* the header out if the route wrote the id.)                               *)
EveryErrorIsAnswered ==
  pc = "idle" /\ ~wire.lost /\ (request.raised = "exception" \/ request.bound # {}) =>
    \/ wire.status = 200
    \/ /\ wire.complete /\ wire.code # "none" /\ wire.id # "none"
       /\ Len(wire.headers) = 1 \/ (~request.guarded /\ Overwritten)

(* What the comments of the two modules say, and the program does not do.   *)

(* Any error a handler reported is named on the access line (the head of    *)
(* exception_handler_registry.py).                                          *)
ErrorCodeOnAccessLine ==
  pc = "idle" /\ Logged /\ request.bound # {} => access.error_code # "none"

(* An exception before any response start shows as a 5xx on the access line *)
(* (_resolve_access_log_status).                                            *)
RaisedBeforeStartIs5xx ==
  Logged /\ request.raised = "exception" /\ ~started => access.status >= 500
=============================================================================
