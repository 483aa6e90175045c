----------------------- MODULE RequestPipelineProofs -----------------------
(***************************************************************************)
(* What holds of the requests through the middleware stack for any set of  *)
(* ids and any number of requests in one context.                          *)
(*                                                                         *)
(* PipeInv is inductive.  None of the properties is so by itself: what the *)
(* access line may say is settled when the finally block runs, from        *)
(* captured_status, the exception and the context, and the response may    *)
(* still change after it.  StageInv says what these hold at each place,    *)
(* IdInv whose id the scope and the context carry, ResponseInv what an     *)
(* exception handler has built, WireInv what the consumer has got of it,   *)
(* and LineInv what the access line was written from.                      *)
(***************************************************************************)
EXTENDS RequestPipeline, TLAPS

(* The context carries the request's own id until a handler that finds no   *)
(* UUID in the scope binds a fresh one over it, which is then the id of the *)
(* body it builds.  The size guard runs before any route can write the      *)
(* scope.                                                                   *)
IdInv ==
  /\ request.guarded /\ pc # "idle" => request.id \in Ids
  /\ ~request.guarded => request.id = "none"
  /\ request.guarded /\ pc # "idle" => ctx.error_code \in Maybe(request.bound)
  /\ request.guarded /\ pc \in {"refusing", "inside"} => ctx.request_id = request.id
  /\ request.guarded /\ (pc = "refusing" \/ (captured # 0 /\ ~started)) =>
       state_id = request.id
  /\ request.guarded /\ pc \in {"streaming", "answering", "flushing", "finally"} =>
       /\ state_id \in Ids \/ pc = "streaming" \/ (pc = "finally" /\ ~started) =>
            ctx.request_id = request.id
       /\ pc = "answering" => ctx.request_id \in {request.id, response.id}
       /\ pc # "answering" /\ wire.status # 0 => ctx.request_id \in {request.id, wire.id}

(* A handler's response is a whole problem under the parked id, if it is a  *)
(* UUID, with a header that is either there or left to the send wrapper.    *)
ResponseInv ==
  pc \in {"answering", "apologising"} =>
    /\ response.status \notin {0, 200}
    /\ response.code # "none"
    /\ response.id \in Ids
    /\ state_id \in Ids => response.id = state_id
    /\ state_id \notin Ids \/ pc = "apologising" => response.headers = <<response.id>>
    /\ pc = "apologising" => response.status = 500

WireInv ==
  /\ OneRequestId
  /\ wire.status \notin {0, 200} =>
       /\ wire.code # "none" /\ wire.id # "none"
       /\ Len(wire.headers) = 1 \/ (~request.guarded /\ Overwritten)

(* Nothing has been sent or raised yet.                                     *)
Untouched ==
  /\ captured = 0 /\ ~started /\ wire = NoWire
  /\ unhandled = "none" /\ request.raised = "none"
  /\ access = NoAccess

(* A response is being sent.                                                *)
Sending ==
  /\ started /\ ~wire.lost
  /\ request.guarded => captured = wire.status
  /\ unhandled = "none" /\ request.raised = "none"
  /\ access = NoAccess

(* How an exchange can stand when it is over as far as the middleware is    *)
(* concerned: no response was started, or one was and got through or not.   *)
Ended ==
  /\ ~started =>
       /\ wire = NoWire
       /\ request.raised # "none"
       /\ \/ captured = 0
          \/ captured = 413 /\ request.path = "*" /\ request.raised = "exception"
  /\ started =>
       /\ request.guarded => captured # 0 /\ wire.status \in {0, captured}
       /\ \/ wire.lost
          \/ wire.status = 200
          \/ wire.status # 0 /\ wire.complete /\ request.raised = "none"
  /\ request.raised \in {"cancelled", "interrupt"} => request.bound = {} \/ wire.lost

StageInv ==
  /\ ~request.guarded => pc \notin {"refusing", "finally"} /\ access = NoAccess
  /\ pc \in {"refusing", "inside"} =>
       /\ Untouched /\ request.bound = {}
       /\ request.guarded => ctx.error_code = "none"
  /\ pc = "answering" =>
       /\ Untouched
       /\ request.guarded /\ request.path # "*" => ctx.error_code = response.code
  /\ pc = "streaming" =>
       /\ Sending /\ wire.status = 200 /\ wire.code = "none" /\ request.bound = {}
       /\ request.guarded => ctx.error_code = "none"
  /\ pc = "flushing" =>
       /\ Sending /\ wire.status \notin {0, 200}
       /\ request.guarded /\ captured # 413 /\ request.path # "*" => ctx.error_code = wire.code
  /\ pc = "finally" =>
       /\ Ended /\ access = NoAccess /\ unhandled = request.raised
       /\ captured \notin {0, 413} /\ wire.status # 0 /\ request.path # "*" =>
            ctx.error_code = wire.code
  /\ pc \in {"outside", "apologising"} =>
       /\ request.raised = "exception" /\ Ended
       /\ request.guarded => unhandled = "exception"
  /\ pc = "apology" =>
       /\ request.raised = "exception" /\ started /\ ~wire.lost
       /\ wire.status = 500
       /\ request.guarded =>
            /\ unhandled = "exception"
            /\ captured = 0 \/ (captured = 413 /\ request.path = "*")

(* The access line, once it is written, and the exchange it was written of. *)
LineInv ==
  /\ AccessTellsWire
  /\ NoStaleErrorCode
  /\ CodeIsCorrelated
  /\ CancelIsNotServerError
  /\ request.guarded /\ request.id # "none" /\ ~Logged
       /\ pc \in {"idle", "outside", "apologising", "apology"} =>
       /\ request.path = "/health" /\ captured = 200
       /\ started /\ wire.status \in {0, 200}
  /\ Logged /\ pc # "idle" => access.status = ResolveStatus(captured, "exception")
  /\ Logged /\ (state_id \in Ids \/ ~started) => access.id = request.id

PipeInv ==
  /\ TypeOK /\ IdInv /\ ResponseInv /\ WireInv /\ StageInv /\ LineInv
  /\ EveryErrorIsAnswered
-----------------------------------------------------------------------------
(* The steps.                                                               *)

(* What a typed handler is given: a code, and a problem of an error status  *)
(* whose code is the same unless the path made it fall back.                *)
Raises(code, status, body) == RouteRaises(code, [status |-> status, code |-> body])

Raising ==
  \E code, body \in Codes, status \in Statuses \ {0, 200} :
    /\ Raises(code, status, body)
    /\ request.path # "*" => body = code

(* The handlers differ only in that code and that problem.                  *)
LEMMA HandlersRaise ==
  ASSUME \/ \E e \in DomainErrors : HandleDomainError(e)
         \/ HandleValidationError
         \/ \E s \in HttpStatuses : HandleHttpException(s)
  PROVE  Raising
  <1>1. ASSUME NEW code \in Codes, NEW body \in Codes, NEW status \in Statuses \ {0, 200},
               Raises(code, status, body),
               request.path # "*" => body = code
        PROVE  Raising
    BY <1>1 DEF Raising
  <1>2. CASE \E e \in DomainErrors : HandleDomainError(e)
    <2>1. \/ Raises("RATE_LIMITED", 429, "RATE_LIMITED")
          \/ Raises("INFERENCE_TIMEOUT", 504, "INFERENCE_TIMEOUT")
      BY <1>2 DEF Raises, HandleDomainError, DomainErrors, Payload
    <2>2. QED
      BY <1>1, <2>1 DEF Codes, Statuses
  <1>3. CASE HandleValidationError
    <2>1. Raises("VALIDATION_FAILED", 422, "VALIDATION_FAILED")
      BY <1>3 DEF Raises, HandleValidationError, Payload
    <2>2. QED
      BY <1>1, <2>1 DEF Codes, Statuses
  <1>4. CASE \E s \in HttpStatuses : HandleHttpException(s)
    <2>1. PICK s \in HttpStatuses : HandleHttpException(s)
      BY <1>4
    <2>2. CASE s \in {304, 503}
      <3>1. Raises("INTERNAL_ERROR", 500, "INTERNAL_ERROR")
        BY <2>1, <2>2 DEF Raises, HandleHttpException, InitialCode, CodeForStatus, Internal
      <3>2. QED
        BY <1>1, <3>1 DEF Codes, Statuses
    <2>3. CASE s = 404
      <3>1. CASE request.path = "*"
        <4>1. Raises("NOT_FOUND", 500, "INTERNAL_ERROR")
          BY <2>1, <2>3, <3>1 DEF Raises, HandleHttpException, InitialCode, CodeForStatus, Payload, Internal
        <4>2. QED
          BY <1>1, <3>1, <4>1 DEF Codes, Statuses
      <3>2. CASE request.path # "*"
        <4>1. Raises("NOT_FOUND", 404, "NOT_FOUND")
          BY <2>1, <2>3, <3>2 DEF Raises, HandleHttpException, InitialCode, CodeForStatus, Payload
        <4>2. QED
          BY <1>1, <4>1 DEF Codes, Statuses
      <3>3. QED
        BY <3>1, <3>2
    <2>4. CASE s \in {405, 415}
      <3>1. \/ Raises("METHOD_NOT_ALLOWED", 405, "METHOD_NOT_ALLOWED")
            \/ Raises("HTTP_ERROR", 415, "HTTP_ERROR")
        BY <2>1, <2>4 DEF Raises, HandleHttpException, InitialCode, CodeForStatus, Payload
      <3>2. QED
        BY <1>1, <3>1 DEF Codes, Statuses
    <2>5. QED
      BY <2>1, <2>2, <2>3, <2>4 DEF HttpStatuses
  <1>5. QED
    BY <1>2, <1>3, <1>4

Entering ==
  \/ \E path \in Paths, offer \in Offers, oversize \in BOOLEAN : Enter(path, offer, oversize)
  \/ \E path \in Paths : EnterBare(path)

Escaping == \E e \in Escapes : RouteEscapes(e)

(* The steps of Next, the handlers taken together.                          *)
LEMMA StepCases ==
  ASSUME [Next]_vars
  PROVE  \/ Entering \/ PassThrough \/ RouteClobbers
         \/ Refuse \/ RouteStarts \/ RouteEnds \/ Answer \/ AnswerEnds
         \/ Escaping \/ Raising
         \/ Leave \/ CatchAll \/ Apologise \/ ApologyEnds
         \/ UNCHANGED vars
  BY HandlersRaise DEF Next, Arrive, Serve, Entering, Escaping

(* What every way in sets.                                                  *)
LEMMA Entered ==
  ASSUME Entering
  PROVE  /\ captured' = 0 /\ unhandled' = "none" /\ started' = FALSE
         /\ response' = NoResponse /\ wire' = NoWire /\ access' = NoAccess
         /\ request'.bound = {} /\ request'.raised = "none"
         /\ \/ /\ pc' \in {"refusing", "inside"}
               /\ request'.guarded = TRUE
               /\ request'.id \in Ids
               /\ state_id' = request'.id
               /\ ctx'.request_id = request'.id
               /\ ctx'.error_code = "none"
            \/ /\ pc' = "inside"
               /\ request'.guarded = FALSE
               /\ request'.id = "none"
               /\ state_id' = "none"
  <1>1. ASSUME NEW path \in Paths, NEW offer \in Offers, NEW oversize \in BOOLEAN,
               Enter(path, offer, oversize)
        PROVE  /\ request'.bound = {} /\ request'.raised = "none"
               /\ pc' \in {"refusing", "inside"}
               /\ request'.guarded = TRUE
               /\ request'.id \in Ids
               /\ state_id' = request'.id
               /\ ctx'.request_id = request'.id
               /\ ctx'.error_code = "none"
    <2> DEFINE source == IF offer = "valid" THEN "client" ELSE "generated"
    <2>1. PICK i \in Ids :
            /\ request' = [id |-> i, path |-> path, guarded |-> TRUE,
                           source |-> source, bound |-> {}, raised |-> "none"]
            /\ ctx' = [Cleared EXCEPT !.request_id = i, !.source = source]
            /\ state_id' = i
            /\ pc' = IF oversize THEN "refusing" ELSE "inside"
      BY <1>1 DEF Enter
    <2> HIDE DEF source
    <2>2. QED
      BY <2>1 DEF Cleared, NoContext
  <1>2. ASSUME NEW path \in Paths, EnterBare(path)
        PROVE  /\ request'.bound = {} /\ request'.raised = "none"
               /\ pc' = "inside"
               /\ request'.guarded = FALSE
               /\ request'.id = "none"
               /\ state_id' = "none"
    BY <1>2 DEF EnterBare
  <1>3. /\ captured' = 0 /\ unhandled' = "none" /\ started' = FALSE
        /\ response' = NoResponse /\ wire' = NoWire /\ access' = NoAccess
    BY DEF Entering, Enter, EnterBare
  <1>4. QED
    BY <1>1, <1>2, <1>3 DEF Entering

(* The steps on the way in and out of the route that send or escape.        *)
Moving == Refuse \/ RouteStarts \/ RouteEnds \/ Answer \/ AnswerEnds \/ Escaping

SameRequest ==
  /\ request'.id = request.id /\ request'.guarded = request.guarded
  /\ request'.path = request.path /\ request'.source = request.source
  /\ request'.bound = request.bound

(* An escape changes nothing of the request but what it raised, and leads   *)
(* to the finally block if there is one.                                    *)
LEMMA Escaped ==
  ASSUME TypeOK, NEW e \in Escapes, Escape(e)
  PROVE  /\ SameRequest
         /\ request'.raised = e
         /\ \/ pc' = "finally" /\ request.guarded
            \/ pc' \in {"outside", "idle"} /\ ~request.guarded
  <1>1. request' = [request EXCEPT !.raised = e]
    BY DEF Escape
  <1>2. SameRequest /\ request'.raised = e
    BY <1>1 DEF TypeOK, SameRequest
  <1>3. \/ pc' = "finally" /\ request.guarded
        \/ pc' \in {"outside", "idle"} /\ ~request.guarded
    BY DEF Escape
  <1>4. QED
    BY <1>2, <1>3

(* They change nothing of the request but what it raised, and a request     *)
(* under the middleware goes on to its finally block.                       *)
LEMMA Moved ==
  ASSUME TypeOK, Moving
  PROVE  /\ UNCHANGED <<ctx, state_id, response, access>>
         /\ SameRequest
         /\ pc \in {"refusing", "inside", "streaming", "answering", "flushing"}
         /\ pc' \in {"streaming", "flushing", "finally", "outside", "idle"}
         /\ pc' = "finally" => request.guarded
         /\ pc' \in {"outside", "idle"} => ~request.guarded
  <1> DEFINE Onward == \/ pc' \in {"streaming", "flushing"}
                       \/ pc' = "finally" /\ request.guarded
                       \/ pc' \in {"outside", "idle"} /\ ~request.guarded
  <1>1. ASSUME \E e \in Escapes : Escape(e)
        PROVE  SameRequest /\ Onward
    BY <1>1, Escaped
  <1>2. ASSUME UNCHANGED request, Onward
        PROVE  SameRequest /\ Onward
    BY <1>2 DEF SameRequest
  <1>3. ASSUME SendFails
        PROVE  SameRequest /\ Onward
    BY <1>1, <1>3 DEF SendFails, Escapes
  <1>4. CASE Refuse
    <2>1. SameRequest /\ Onward
      BY <1>1, <1>2, <1>3, <1>4 DEF Refuse, Send413, Escapes
    <2>2. QED
      BY <1>4, <2>1 DEF Refuse
  <1>5. CASE RouteStarts
    <2>1. SameRequest /\ Onward
      BY <1>2, <1>3, <1>5 DEF RouteStarts, SendStart
    <2>2. QED
      BY <1>5, <2>1 DEF RouteStarts
  <1>6. CASE RouteEnds \/ AnswerEnds
    <2>1. SameRequest /\ Onward
      BY <1>2, <1>3, <1>6 DEF RouteEnds, AnswerEnds, SendBody
    <2>2. QED
      BY <1>6, <2>1 DEF RouteEnds, AnswerEnds, SendBody
  <1>7. CASE Answer
    <2>1. SameRequest /\ Onward
      BY <1>2, <1>3, <1>7 DEF Answer, SendStart
    <2>2. QED
      BY <1>7, <2>1 DEF Answer
  <1>8. CASE Escaping
    <2>1. SameRequest /\ Onward
      BY <1>1, <1>8 DEF Escaping, RouteEscapes
    <2>2. QED
      BY <1>8, <2>1 DEF Escaping, RouteEscapes
  <1>9. QED
    BY <1>4, <1>5, <1>6, <1>7, <1>8 DEF Moving

SameMessage ==
  /\ wire'.status = wire.status /\ wire'.code = wire.code
  /\ wire'.id = wire.id /\ wire'.headers = wire.headers

(* What a step that sends can add to what the consumer has.                 *)
LEMMA Sent ==
  ASSUME TypeOK, Moving
  PROVE  \/ SameMessage
         \/ /\ pc = "refusing"
            /\ wire'.status = 413 /\ wire'.code = "REQUEST_TOO_LARGE"
            /\ wire'.id = request.id /\ wire'.headers = <<request.id>>
         \/ /\ pc = "inside"
            /\ wire'.status = 200 /\ wire'.id = "none"
            /\ request.guarded => wire'.headers = <<request.id>>
         \/ /\ pc = "answering"
            /\ wire'.status = response.status /\ wire'.code = response.code
            /\ wire'.id = response.id
            /\ wire'.headers = IF request.guarded THEN <<request.id>> ELSE response.headers
  <1> USE DEF TypeOK, SameMessage, Escape, SendFails, OnTheWire, Stamped, Stamp
  <1>1. CASE Refuse
    BY <1>1 DEF Refuse, Send413
  <1>2. CASE RouteStarts
    BY <1>2 DEF RouteStarts, SendStart
  <1>3. CASE RouteEnds \/ AnswerEnds
    BY <1>3 DEF RouteEnds, AnswerEnds, SendBody
  <1>4. CASE Answer
    BY <1>4 DEF Answer, SendStart
  <1>5. CASE Escaping
    BY <1>5 DEF Escaping, RouteEscapes
  <1>6. QED
    BY <1>1, <1>2, <1>3, <1>4, <1>5 DEF Moving

-----------------------------------------------------------------------------
(* Every step keeps each part of the invariant.                             *)

(* Where an exchange stands, what it has sent and what it has caught.       *)
LEMMA StageStep ==
  ASSUME PipeInv, [Next]_vars
  PROVE  StageInv'
  <1> USE DEF PipeInv, StageInv, Untouched, Sending, Ended
  <1>1. CASE Entering
    BY <1>1, Entered
  <1>2. CASE PassThrough
    BY <1>2 DEF PassThrough
  <1>3. CASE RouteClobbers
    BY <1>3 DEF RouteClobbers
  <1>4. CASE Refuse
    BY <1>4 DEF Refuse, Send413, SendFails, Escape, OnTheWire, NoWire, TypeOK
  <1>5. CASE RouteStarts
    BY <1>5 DEF RouteStarts, SendStart, SendFails, Escape, OnTheWire, Stamped, NoWire, TypeOK
  <1>6. CASE RouteEnds
    BY <1>6 DEF RouteEnds, SendBody, SendFails, Escape, TypeOK
  <1>7. CASE Answer
    BY <1>7 DEF Answer, SendStart, SendFails, Escape, OnTheWire, Stamped, NoWire, TypeOK, ResponseInv
  <1>8. CASE AnswerEnds
    BY <1>8 DEF AnswerEnds, SendBody, SendFails, Escape, TypeOK
  <1>9. CASE Escaping
    BY <1>9 DEF Escaping, RouteEscapes, Escape, Escapes, TypeOK
  <1>10. CASE Raising
    BY <1>10 DEF Raising, Raises, RouteRaises, Handle, TypeOK
  <1>11. CASE Leave
    BY <1>11 DEF Leave
  <1>12. CASE CatchAll
    BY <1>12 DEF CatchAll, Handle, TypeOK
  <1>13. CASE Apologise
    BY <1>13 DEF Apologise, OnTheWire, ResponseInv, TypeOK
  <1>14. CASE ApologyEnds
    BY <1>14 DEF ApologyEnds
  <1>15. CASE UNCHANGED vars
    BY <1>15 DEF vars
  <1>16. QED
    BY <1>1, <1>2, <1>3, <1>4, <1>5, <1>6, <1>7, <1>8, <1>9, <1>10, <1>11, <1>12,
       <1>13, <1>14, <1>15, StepCases

(* What any handler does to the ids, and what it leaves of the request.     *)
Handling ==
  /\ response'.id \in Ids
  /\ state_id \in Ids => response'.id = state_id /\ ctx'.request_id = ctx.request_id
  /\ state_id \notin Ids =>
       ctx'.request_id = response'.id /\ response'.headers = <<response'.id>>
  /\ ctx'.error_code \in request'.bound
  /\ request'.id = request.id /\ request'.guarded = request.guarded
  /\ UNCHANGED <<state_id, captured, started, wire, access>>

LEMMA Raised ==
  ASSUME TypeOK, Raising
  PROVE  /\ Handling
         /\ response'.status \notin {0, 200} /\ response'.code # "none"
         /\ pc = "inside" /\ pc' = "answering"
  <1>1. PICK code \in Codes, body \in Codes, status \in Statuses \ {0, 200} :
          Raises(code, status, body)
    BY DEF Raising
  <1>2. CASE state_id \in Ids
    BY <1>1, <1>2 DEF Raises, RouteRaises, Handle, Handling, TypeOK, Codes
  <1>3. CASE state_id \notin Ids
    BY <1>1, <1>3 DEF Raises, RouteRaises, Handle, Handling, TypeOK, Codes
  <1>4. QED
    BY <1>2, <1>3

LEMMA Caught ==
  ASSUME TypeOK, CatchAll
  PROVE  /\ Handling
         /\ response'.status = 500 /\ response'.code # "none"
         /\ response'.headers = <<response'.id>>
         /\ pc = "outside" /\ pc' = "apologising"
  <1>1. CASE state_id \in Ids
    BY <1>1 DEF CatchAll, Handle, Handling, Internal, TypeOK
  <1>2. CASE state_id \notin Ids
    BY <1>2 DEF CatchAll, Handle, Handling, Internal, TypeOK
  <1>3. QED
    BY <1>1, <1>2

(* Whose id is where.                                                       *)
LEMMA IdStep ==
  ASSUME PipeInv, [Next]_vars
  PROVE  IdInv'
  <1> TypeOK /\ IdInv /\ StageInv /\ ResponseInv
    BY DEF PipeInv
  <1> USE DEF IdInv
  <1>1. CASE Entering
    BY <1>1, Entered DEF Maybe
  <1>2. CASE Moving
    <2>1. /\ UNCHANGED <<ctx, state_id, response>> /\ SameRequest
          /\ pc \in {"refusing", "inside", "streaming", "answering", "flushing"}
          /\ pc' \in {"streaming", "flushing", "finally", "outside", "idle"}
          /\ pc' \in {"finally"} => request.guarded
          /\ pc' \in {"outside", "idle"} => ~request.guarded
      BY <1>2, Moved
    <2>2. /\ pc \in {"refusing", "inside", "answering"} => wire.status = 0
          /\ pc \in {"streaming", "flushing"} => started
      BY DEF StageInv, Untouched, Sending, NoWire
    <2>3. /\ pc' = "streaming" => pc = "inside"
          /\ pc' = "flushing" => pc \in {"refusing", "answering"}
          /\ pc \in {"answering", "streaming", "flushing"} => started'
          /\ captured' # captured => pc = "refusing" \/ started'
      <3>1. CASE Refuse
        BY <3>1 DEF Refuse, Send413, SendFails, Escape
      <3>2. CASE RouteStarts
        BY <3>2 DEF RouteStarts, SendStart, SendFails, Escape
      <3>3. CASE RouteEnds \/ AnswerEnds
        BY <2>2, <3>3 DEF RouteEnds, AnswerEnds, SendBody, SendFails, Escape
      <3>4. CASE Answer
        BY <3>4 DEF Answer, SendStart, SendFails, Escape
      <3>5. CASE Escaping
        BY <2>2, <3>5 DEF Escaping, RouteEscapes, Escape
      <3>6. QED
        BY <1>2, <3>1, <3>2, <3>3, <3>4, <3>5 DEF Moving
    <2>4. started => started'
      BY <1>2 DEF Moving, Refuse, Send413, RouteStarts, SendStart, RouteEnds, AnswerEnds,
                  SendBody, Answer, Escaping, RouteEscapes, SendFails, Escape
    <2>5. \/ wire'.status = wire.status /\ wire'.id = wire.id
          \/ pc = "refusing" /\ wire'.id = request.id
          \/ pc = "inside"
          \/ pc = "answering" /\ wire'.id = response.id
      BY <1>2, Sent DEF SameMessage
    <2>6. QED
      BY <2>1, <2>2, <2>3, <2>4, <2>5 DEF SameRequest
  <1>3. CASE PassThrough
    BY <1>3 DEF PassThrough
  <1>4. CASE RouteClobbers
    BY <1>4 DEF RouteClobbers, StageInv, Untouched
  <1>5. CASE Raising
    <2>1. captured = 0
      BY <1>5, Raised DEF StageInv, Untouched
    <2>2. QED
      BY <1>5, <2>1, Raised DEF Handling, Maybe
  <1>6. CASE Leave \/ Apologise \/ ApologyEnds \/ UNCHANGED vars
    BY <1>6 DEF Leave, Apologise, ApologyEnds, vars
  <1>7. CASE CatchAll
    BY <1>7, Caught DEF Handling, Maybe
  <1>8. QED
    BY <1>1, <1>2, <1>3, <1>4, <1>5, <1>6, <1>7, StepCases DEF Moving

(* What the handlers build.                                                 *)
LEMMA ResponseStep ==
  ASSUME PipeInv, [Next]_vars
  PROVE  ResponseInv'
  <1> TypeOK /\ ResponseInv
    BY DEF PipeInv
  <1> USE DEF ResponseInv
  <1>1. CASE Entering
    BY <1>1, Entered
  <1>2. CASE Moving
    BY <1>2, Moved
  <1>3. CASE PassThrough \/ RouteClobbers
    BY <1>3 DEF PassThrough, RouteClobbers
  <1>4. CASE Raising
    BY <1>4, Raised DEF Handling
  <1>5. CASE CatchAll
    BY <1>5, Caught DEF Handling
  <1>6. CASE Leave \/ Apologise \/ ApologyEnds \/ UNCHANGED vars
    BY <1>6 DEF Leave, Apologise, ApologyEnds, vars
  <1>7. QED
    BY <1>1, <1>2, <1>3, <1>4, <1>5, <1>6, StepCases DEF Moving

(* What has been sent stays as good as it was while what it is compared     *)
(* with stands.                                                             *)
LEMMA WireKept ==
  ASSUME WireInv, SameMessage, state_id' = state_id,
         request'.id = request.id, request'.guarded = request.guarded,
         wire.status # 0 => captured' = captured /\ access' = access
  PROVE  WireInv'
  BY DEF WireInv, OneRequestId, Overwritten, Logged, SameMessage

(* A message sent from inside the middleware carries the request's own id,  *)
(* and its body too, unless the route wrote another.                        *)
LEMMA WireSet ==
  ASSUME state_id' = state_id, access' = NoAccess,
         request'.id = request.id, request'.guarded = request.guarded,
         request.guarded => request.id \in Ids /\ wire'.headers = <<request.id>>,
         ~request.guarded => request.id = "none",
         \/ wire'.status = 200 /\ wire'.id = "none"
         \/ /\ wire'.code # "none" /\ wire'.id \in Ids
            /\ state_id \in Ids => wire'.id = state_id
            /\ ~request.guarded /\ state_id \notin Ids => wire'.headers = <<wire'.id>>
  PROVE  WireInv'
  <1>1. wire'.status # 0 /\ (request.guarded \/ wire'.status # 200) => OneRequestId'
    <2> SUFFICES ASSUME request.guarded \/ wire'.status # 200
                 PROVE  OneRequestId'
      OBVIOUS
    <2>1. CASE request.guarded
      <3>1. Len(wire'.headers) = 1 /\ wire'.headers = <<request.id>> /\ request.id \in Ids
        BY <2>1
      <3>2. state_id = request.id => wire'.id \in {"none", request.id}
        BY <3>1
      <3>3. QED
        BY <2>1, <3>1, <3>2 DEF OneRequestId, Overwritten, Logged, NoAccess
    <2>2. CASE ~request.guarded
      <3>1. state_id = request.id => wire'.headers = <<wire'.id>> /\ wire'.id \in Ids
        BY <2>2, IdsAssumption
      <3>2. QED
        BY <2>2, <3>1 DEF OneRequestId, Overwritten
    <2>3. QED
      BY <2>1, <2>2
  <1>2. OneRequestId'
    BY <1>1 DEF OneRequestId
  <1>3. wire'.status \notin {0, 200} =>
          /\ wire'.code # "none" /\ wire'.id # "none"
          /\ Len(wire'.headers) = 1 \/ (~request'.guarded /\ Overwritten')
    BY IdsAssumption DEF Overwritten
  <1>4. QED
    BY <1>2, <1>3 DEF WireInv

(* What reaches the consumer carries the id of its request.                 *)
LEMMA WireStep ==
  ASSUME PipeInv, [Next]_vars
  PROVE  WireInv'
  <1> TypeOK /\ IdInv /\ ResponseInv /\ WireInv /\ StageInv /\ LineInv
    BY DEF PipeInv
  <1>1. ASSUME wire'.status = 0
        PROVE  WireInv'
    BY <1>1 DEF WireInv, OneRequestId
  <1>2. CASE Entering
    BY <1>1, <1>2, Entered DEF NoWire
  <1>3. CASE Moving
    <2>1. /\ UNCHANGED <<state_id, response, access>> /\ SameRequest
          /\ pc \in {"refusing", "inside", "streaming", "answering", "flushing"}
      BY <1>3, Moved
    <2>2. /\ access' = NoAccess
          /\ request.guarded => request.id \in Ids
          /\ ~request.guarded => request.id = "none"
          /\ request'.id = request.id /\ request'.guarded = request.guarded
      BY <2>1 DEF StageInv, Untouched, Sending, IdInv, SameRequest
    <2>3. CASE SameMessage
      <3>1. wire.status # 0 => pc \in {"streaming", "flushing"}
        BY <2>1 DEF StageInv, Untouched, NoWire
      <3>2. wire.status # 0 => captured' = captured
        BY <1>3, <3>1 DEF Moving, Refuse, RouteStarts, RouteEnds, AnswerEnds, SendBody, Answer,
                          Escaping, RouteEscapes
      <3>3. QED
        BY <2>1, <2>2, <2>3, <3>2, WireKept
    <2>4. CASE pc = "refusing" /\ wire'.status = 413 /\ wire'.code = "REQUEST_TOO_LARGE"
               /\ wire'.id = request.id /\ wire'.headers = <<request.id>>
      <3>1. request.guarded /\ state_id = request.id
        BY <2>4 DEF StageInv, IdInv
      <3>2. QED
        BY <2>1, <2>2, <2>4, <3>1, WireSet
    <2>5. CASE /\ wire'.status = 200 /\ wire'.id = "none"
               /\ request.guarded => wire'.headers = <<request.id>>
      BY <2>1, <2>2, <2>5, WireSet
    <2>6. CASE /\ pc = "answering"
               /\ wire'.status = response.status /\ wire'.code = response.code
               /\ wire'.id = response.id
               /\ wire'.headers = IF request.guarded THEN <<request.id>> ELSE response.headers
      BY <2>1, <2>2, <2>6, WireSet DEF ResponseInv
    <2>7. QED
      BY <1>3, <2>3, <2>4, <2>5, <2>6, Sent
  <1>4. CASE PassThrough \/ UNCHANGED vars
    BY <1>4, WireKept DEF PassThrough, vars, SameMessage
  <1>5. CASE RouteClobbers
    BY <1>1, <1>5 DEF RouteClobbers, StageInv, Untouched, NoWire
  <1>6. CASE Raising
    BY <1>1, <1>6 DEF Raising, Raises, RouteRaises, StageInv, Untouched, NoWire
  <1>7. CASE Leave
    <2>1. /\ UNCHANGED <<request, state_id, captured, wire>> /\ pc = "finally"
          /\ request.guarded
      BY <1>7 DEF Leave, StageInv
    <2>2. wire.status # 0 => ctx.request_id \in {request.id, wire.id}
      BY <2>1 DEF IdInv
    <2>3. state_id \in Ids => ctx.request_id = request.id
      BY <2>1 DEF IdInv
    <2>4. access'.status = 0 \/ access'.id = ctx.request_id
      BY <1>7 DEF Leave, NoAccess
    <2>5. QED
      BY <2>1, <2>2, <2>3, <2>4 DEF WireInv, OneRequestId, Overwritten, Logged
  <1>8. CASE CatchAll
    BY <1>8, Caught, WireKept DEF Handling, SameMessage
  <1>9. CASE Apologise
    <2>1. UNCHANGED <<request, state_id, captured, access>> /\ pc = "apologising"
      BY <1>9 DEF Apologise
    <2>2. CASE ~started /\ wire' = OnTheWire(response)
      <3>1. /\ wire'.status = 500 /\ wire'.code # "none" /\ wire'.id = response.id
            /\ wire'.headers = <<response.id>> /\ response.id \in Ids
            /\ state_id \in Ids => response.id = state_id
        BY <2>1, <2>2 DEF OnTheWire, ResponseInv
      <3>2. request.guarded /\ captured # 0 => response.id = request.id
        BY <2>1, <2>2, <3>1 DEF IdInv
      <3>3. request.guarded /\ Logged => access.id = request.id
        BY <2>2 DEF LineInv
      <3>4. ~request.guarded => ~Logged
        BY DEF StageInv, Logged, NoAccess
      <3>5. request.guarded /\ ~Overwritten => response.id = request.id
        BY <2>1, <3>1 DEF IdInv, Overwritten
      <3>6. OneRequestId'
        BY <2>1, <3>1, <3>2, <3>3, <3>4, <3>5 DEF OneRequestId, Overwritten, Logged
      <3>7. QED
        BY <3>1, <3>6, IdsAssumption DEF WireInv
    <2>3. CASE SameMessage
      BY <2>1, <2>3, WireKept
    <2>4. CASE wire' = [wire EXCEPT !.lost = TRUE]
      BY <2>3, <2>4 DEF SameMessage, TypeOK
    <2>5. QED
      BY <1>9, <2>2, <2>3, <2>4 DEF Apologise, SameMessage
  <1>10. CASE ApologyEnds
    <2>1. SameMessage
      BY <1>10 DEF ApologyEnds, SameMessage, TypeOK
    <2>2. QED
      BY <1>10, <2>1, WireKept DEF ApologyEnds
  <1>11. QED
    BY <1>2, <1>3, <1>4, <1>5, <1>6, <1>7, <1>8, <1>9, <1>10, StepCases DEF Moving

(* What the access line says stays true of the exchange.                    *)
LEMMA LineStep ==
  ASSUME PipeInv, [Next]_vars
  PROVE  LineInv'
  <1> USE DEF PipeInv, LineInv, AccessTellsWire, NoStaleErrorCode, CodeIsCorrelated,
              CancelIsNotServerError, Logged
  <1>1. CASE Entering
    <2>1. access' = NoAccess /\ pc' \in {"refusing", "inside"}
      BY <1>1, Entered
    <2>2. access'.status = 0
      BY <2>1 DEF NoAccess
    <2>3. QED
      BY <2>1, <2>2
  <1>2. CASE Moving
    <2>1. /\ access' = access /\ SameRequest
          /\ pc \in {"refusing", "inside", "streaming", "answering", "flushing"}
          /\ pc' \in {"streaming", "flushing", "finally", "outside", "idle"}
          /\ pc' \in {"outside", "idle"} => ~request.guarded
      BY <1>2, Moved
    <2>2. access' = NoAccess
      BY <2>1 DEF StageInv, Untouched, Sending
    <2>3. QED
      BY <2>1, <2>2 DEF SameRequest, NoAccess
  <1>3. CASE PassThrough \/ UNCHANGED vars
    BY <1>3 DEF PassThrough, vars
  <1>4. CASE RouteClobbers
    BY <1>4 DEF RouteClobbers, StageInv, Untouched, NoAccess
  <1>5. CASE Raising
    BY <1>5 DEF Raising, Raises, RouteRaises, StageInv, Untouched, NoAccess
  <1>6. CASE Leave
    <2>1. /\ request.guarded /\ Ended /\ unhandled = request.raised
          /\ captured \in Statuses /\ unhandled \in Maybe(Escapes)
      BY <1>6 DEF Leave, StageInv, TypeOK
    <2>2. /\ UNCHANGED <<request, ctx, state_id, captured, unhandled, started, wire>>
          /\ pc' = IF unhandled = "exception" THEN "outside" ELSE "idle"
      BY <1>6 DEF Leave
    <2>3. CASE Suppressed(ResolveStatus(captured, unhandled))
      <3>1. access' = NoAccess
        BY <1>6, <2>3 DEF Leave
      <3>2. /\ request.path = "/health"
            /\ ResolveStatus(captured, unhandled) >= 200
            /\ ResolveStatus(captured, unhandled) < 400
        BY <2>3 DEF Suppressed
      <3>3. captured = 200
        BY <2>1, <3>2 DEF ResolveStatus, Statuses
      <3>4. started /\ wire.status \in {0, 200}
        BY <2>1, <3>3 DEF Ended
      <3>5. QED
        BY <2>2, <3>1, <3>2, <3>3, <3>4 DEF NoAccess
    <2>4. CASE ~Suppressed(ResolveStatus(captured, unhandled))
      <3>1. access' = [status |-> ResolveStatus(captured, unhandled), error_code |-> ctx.error_code,
                       id |-> ctx.request_id, source |-> request.source]
        BY <1>6, <2>4 DEF Leave
      <3>2. ResolveStatus(captured, unhandled) # 0
        BY <2>1 DEF ResolveStatus, Ended
      <3>3. pc = "finally"
        BY <1>6 DEF Leave
      <3>4. AccessTellsWire' /\ CancelIsNotServerError'
        BY <2>1, <2>2, <3>1 DEF ResolveStatus, Ended, NoWire
      <3>5. NoStaleErrorCode' /\ CodeIsCorrelated'
        BY <2>1, <2>2, <3>1, <3>3 DEF IdInv, StageInv
      <3>6. /\ access'.status # 0 /\ (state_id \in Ids \/ ~started => access'.id = request.id)
            /\ pc' # "idle" => access'.status = ResolveStatus(captured, "exception")
        BY <2>1, <2>2, <3>1, <3>2, <3>3 DEF IdInv
      <3>7. QED
        BY <2>2, <3>4, <3>5, <3>6 DEF ResolveStatus
    <2>5. QED
      BY <2>3, <2>4
  <1>7. CASE CatchAll
    BY <1>7 DEF CatchAll, Handle, TypeOK, Maybe
  <1>8. CASE Apologise
    BY <1>8 DEF Apologise, OnTheWire, ResponseInv, StageInv, Ended, ResolveStatus, TypeOK
  <1>9. CASE ApologyEnds
    BY <1>9 DEF ApologyEnds, TypeOK
  <1>10. QED
    BY <1>1, <1>2, <1>3, <1>4, <1>5, <1>6, <1>7, <1>8, <1>9, StepCases DEF Moving

(* What is answered when all is over.                                       *)
LEMMA AnsweredStep ==
  ASSUME PipeInv, [Next]_vars
  PROVE  EveryErrorIsAnswered'
  <1> USE DEF PipeInv, EveryErrorIsAnswered
  <1>1. CASE Entering
    BY <1>1, Entered
  <1>2. CASE RouteEnds \/ AnswerEnds
    <2>1. pc \in {"streaming", "flushing"} /\ wire.status # 0
      BY <1>2 DEF RouteEnds, AnswerEnds, StageInv
    <2>2. CASE SendFails
      BY <2>2 DEF SendFails, TypeOK
    <2>3. CASE wire' = [wire EXCEPT !.complete = TRUE] /\ UNCHANGED request
      <3>1. /\ wire'.status = wire.status /\ wire'.complete = TRUE
            /\ wire'.code = wire.code /\ wire'.id = wire.id /\ wire'.headers = wire.headers
        BY <2>3 DEF TypeOK
      <3>2. \/ wire.status = 200
            \/ /\ wire.code # "none" /\ wire.id # "none"
               /\ Len(wire.headers) = 1 \/ (~request.guarded /\ Overwritten)
        BY <2>1 DEF WireInv
      <3>3. UNCHANGED <<request, state_id>>
        BY <1>2, <2>3 DEF RouteEnds, AnswerEnds, SendBody
      <3>4. QED
        BY <3>1, <3>2, <3>3 DEF Overwritten
    <2>4. QED
      BY <1>2, <2>2, <2>3 DEF RouteEnds, AnswerEnds, SendBody
  <1>3. CASE Refuse \/ RouteStarts \/ Answer
    BY <1>3 DEF Refuse, Send413, RouteStarts, Answer, SendStart, SendFails, Escape, StageInv, TypeOK
  <1>4. CASE Escaping
    BY <1>4 DEF Escaping, RouteEscapes, Escape, StageInv, TypeOK
  <1>5. CASE PassThrough \/ UNCHANGED vars
    BY <1>5 DEF PassThrough, vars, Overwritten
  <1>6. CASE RouteClobbers \/ Raising \/ CatchAll
    BY <1>6 DEF RouteClobbers, Raising, Raises, RouteRaises, CatchAll
  <1>7. CASE Leave
    BY <1>7 DEF Leave, StageInv, Ended, WireInv, TypeOK, Maybe, Escapes
  <1>8. CASE Apologise
    BY <1>8 DEF Apologise, StageInv, Ended, TypeOK
  <1>9. CASE ApologyEnds
    <2>1. wire.status = 500 /\ ~wire.lost
      BY <1>9 DEF ApologyEnds, StageInv
    <2>2. /\ wire.code # "none" /\ wire.id # "none"
          /\ Len(wire.headers) = 1 \/ (~request.guarded /\ Overwritten)
          /\ UNCHANGED <<request, state_id>>
      BY <1>9, <2>1 DEF ApologyEnds, WireInv
    <2>3. CASE wire' = [wire EXCEPT !.complete = TRUE]
      <3>1. /\ wire'.complete = TRUE
            /\ wire'.code = wire.code /\ wire'.id = wire.id /\ wire'.headers = wire.headers
        BY <2>3 DEF TypeOK
      <3>2. QED
        BY <2>2, <3>1 DEF Overwritten
    <2>4. CASE wire' = [wire EXCEPT !.lost = TRUE]
      BY <2>4 DEF TypeOK
    <2>5. QED
      BY <1>9, <2>3, <2>4 DEF ApologyEnds
  <1>10. QED
    BY <1>1, <1>2, <1>3, <1>4, <1>5, <1>6, <1>7, <1>8, <1>9, StepCases

(* The ranges of the records in TypeOK.                                     *)
Requests == [id : Maybe(Ids), path : Paths, guarded : BOOLEAN,
             source : Maybe({"client", "generated"}),
             bound : SUBSET Codes, raised : Maybe(Escapes)]
Messages == [status : Statuses, code : Maybe(Codes), id : Maybe(Ids), headers : Headers]
Wires == [status : Statuses, code : Maybe(Codes), id : Maybe(Ids), headers : Headers,
          complete : BOOLEAN, lost : BOOLEAN]

LEMMA RecordTypes ==
  ASSUME TypeOK
  PROVE  request \in Requests /\ response \in Messages /\ wire \in Wires
  BY DEF TypeOK, Requests, Messages, Wires

LEMMA OnTheWireType ==
  ASSUME NEW message \in Messages
  PROVE  OnTheWire(message) \in Wires
  BY DEF OnTheWire, Messages, Wires

(* The wrapper's stamp is a header of the request's own id.                 *)
LEMMA StampedType ==
  ASSUME NEW message \in Messages, request.guarded => request.id \in Ids
  PROVE  Stamped(message) \in Messages
  <1>1. CASE request.guarded
    <2>1. <<request.id>> \in Headers
      BY <1>1 DEF Headers
    <2>2. Stamped(message) = [message EXCEPT !.headers = <<request.id>>]
      BY <1>1 DEF Stamped, Stamp
    <2>3. QED
      BY <2>1, <2>2 DEF Messages
  <1>2. CASE ~request.guarded
    BY <1>2 DEF Stamped
  <1>3. QED
    BY <1>1, <1>2

LEMMA EscapeType ==
  ASSUME TypeOK, NEW e \in Escapes, Escape(e)
  PROVE  request' \in Requests /\ unhandled' \in Maybe(Escapes) /\ pc' \in Places
  <1>1. request' = [request EXCEPT !.raised = e] /\ e \in Maybe(Escapes)
    BY DEF Escape, Maybe
  <1>2. request' \in Requests
    BY <1>1, RecordTypes DEF Requests
  <1>3. unhandled' \in Maybe(Escapes) /\ pc' \in Places
    BY <1>1 DEF Escape, TypeOK, Places
  <1>4. QED
    BY <1>2, <1>3

(* What a step that sends or escapes may change, and its range.             *)
Moves == /\ pc' \in Places /\ request' \in Requests /\ unhandled' \in Maybe(Escapes)
         /\ wire' \in Wires

LEMMA SendFailsType ==
  ASSUME TypeOK, SendFails
  PROVE  Moves
  <1>1. wire' \in Wires
    BY RecordTypes DEF SendFails, Wires
  <1>2. PICK e \in {"exception", "cancelled"} : Escape(e)
    BY DEF SendFails
  <1>3. QED
    BY <1>1, <1>2, EscapeType DEF Moves, Escapes

LEMMA SendStartType ==
  ASSUME TypeOK, NEW message \in Messages, NEW next \in Places, SendStart(message, next)
  PROVE  Moves /\ started' \in BOOLEAN /\ captured' \in Statuses
  <1>1. started' \in BOOLEAN /\ captured' \in Statuses
    BY DEF SendStart, TypeOK, Messages
  <1>2. CASE SendFails
    BY <1>1, <1>2, SendFailsType
  <1>3. CASE wire' = OnTheWire(message) /\ pc' = next /\ UNCHANGED <<request, unhandled>>
    BY <1>1, <1>3, OnTheWireType, RecordTypes DEF Moves, TypeOK
  <1>4. QED
    BY <1>2, <1>3 DEF SendStart

LEMMA SendBodyType ==
  ASSUME TypeOK, SendBody
  PROVE  Moves
  <1>1. CASE SendFails
    BY <1>1, SendFailsType
  <1>2. CASE /\ wire' = [wire EXCEPT !.complete = TRUE]
             /\ pc' = IF request.guarded THEN "finally" ELSE "idle"
             /\ UNCHANGED <<request, unhandled>>
    <2>1. wire' \in Wires
      BY <1>2, RecordTypes DEF Wires
    <2>2. QED
      BY <1>2, <2>1, RecordTypes DEF Moves, TypeOK, Places
  <1>3. QED
    BY <1>1, <1>2 DEF SendBody

(* The other variables of TypeOK, for a step that moves.                    *)
LEMMA MovesType ==
  ASSUME TypeOK, Moves, started' \in BOOLEAN, captured' \in Statuses,
         UNCHANGED <<ctx, state_id, response, access>>
  PROVE  TypeOK'
  BY DEF TypeOK, Moves, Requests, Wires

LEMMA EnterType ==
  ASSUME Entering, TypeOK
  PROVE  TypeOK'
  <1>1. /\ captured' \in Statuses /\ unhandled' \in Maybe(Escapes) /\ started' \in BOOLEAN
        /\ pc' \in Places
    <2>1. /\ captured' = 0 /\ unhandled' = "none" /\ started' = FALSE
          /\ pc' \in {"refusing", "inside"}
      BY Entered
    <2>2. QED
      BY <2>1 DEF Statuses, Maybe, Places
  <1>2. response' \in Messages /\ wire' \in Wires
    <2>1. response' = NoResponse /\ wire' = NoWire
      BY Entered
    <2>2. QED
      BY <2>1 DEF Messages, Wires, NoResponse, NoWire, Maybe, Statuses, Headers
  <1>3. access' \in [status : Statuses, error_code : Maybe(Codes), id : Maybe(Ids),
                     source : Maybe({"client", "generated"})]
    BY Entered DEF NoAccess, Maybe, Statuses
  <1> DEFINE Admitted == /\ request' \in Requests
                         /\ ctx' \in [request_id : Maybe(Ids), error_code : Maybe(Codes),
                                      source : Maybe({"client", "generated", "fallback"})]
                         /\ state_id' \in Maybe(Ids)
  <1>4. Admitted
    <2>1. ASSUME NEW path \in Paths, NEW offer \in Offers, NEW oversize \in BOOLEAN,
                 Enter(path, offer, oversize)
          PROVE  Admitted
      <3> DEFINE source == IF offer = "valid" THEN "client" ELSE "generated"
      <3>1. PICK i \in Ids :
              /\ request' = [id |-> i, path |-> path, guarded |-> TRUE,
                             source |-> source, bound |-> {}, raised |-> "none"]
              /\ ctx' = [Cleared EXCEPT !.request_id = i, !.source = source]
              /\ state_id' = i
        BY <2>1 DEF Enter
      <3>2. source \in {"client", "generated"}
        OBVIOUS
      <3> HIDE DEF source
      <3>3. ctx' = [request_id |-> i, source |-> source, error_code |-> "none"]
        BY <3>1 DEF Cleared, NoContext
      <3>4. QED
        BY <3>1, <3>2, <3>3 DEF Requests, Maybe
    <2>2. ASSUME NEW path \in Paths, EnterBare(path)
          PROVE  Admitted
      BY <2>2 DEF EnterBare, Requests, Maybe, TypeOK
    <2>3. QED
      BY <2>1, <2>2 DEF Entering
  <1>5. QED
    BY <1>1, <1>2, <1>3, <1>4 DEF TypeOK, Requests, Messages, Wires

(* Every variable stays in its range.                                       *)
LEMMA TypeStep ==
  ASSUME PipeInv, [Next]_vars
  PROVE  TypeOK'
  <1> TypeOK /\ IdInv /\ StageInv
    BY DEF PipeInv
  <1>1. CASE Entering
    BY <1>1, EnterType
  <1>2. CASE PassThrough
    BY <1>2 DEF PassThrough, Cleared, NoContext, Maybe, Codes, TypeOK
  <1>3. CASE RouteClobbers
    BY <1>3 DEF RouteClobbers, TypeOK, Maybe
  <1>4. CASE Refuse
    <2>1. request.id \in Ids
      BY <1>4 DEF Refuse, StageInv, IdInv
    <2>2. Moves /\ started' \in BOOLEAN
      <3>1. CASE Escape("exception") /\ UNCHANGED <<started, wire>>
        BY <3>1, EscapeType, RecordTypes DEF Moves, Escapes, TypeOK
      <3>2. CASE started' = TRUE /\ SendFails
        BY <3>2, SendFailsType
      <3>3. CASE /\ started' = TRUE
                 /\ wire' = OnTheWire([status |-> 413, code |-> "REQUEST_TOO_LARGE",
                                       id |-> request.id, headers |-> <<request.id>>])
                 /\ pc' = "flushing"
                 /\ UNCHANGED <<request, unhandled>>
        <4>1. <<request.id>> \in Headers
          BY <2>1 DEF Headers
        <4>2. [status |-> 413, code |-> "REQUEST_TOO_LARGE",
               id |-> request.id, headers |-> <<request.id>>] \in Messages
          BY <2>1, <4>1 DEF Messages, Statuses, Maybe, Codes
        <4>3. QED
          BY <3>3, <4>2, OnTheWireType, RecordTypes DEF Moves, TypeOK, Places
      <3>4. QED
        BY <1>4, <3>1, <3>2, <3>3 DEF Refuse, Send413
    <2>3. captured' \in Statuses
      BY <1>4 DEF Refuse, Statuses
    <2>4. QED
      BY <1>4, <2>2, <2>3, MovesType DEF Refuse
  <1>5. CASE RouteStarts
    <2>1. request.guarded => request.id \in Ids
      BY <1>5 DEF RouteStarts, IdInv
    <2>2. PICK headers \in {<<>>, <<"foreign">>} :
            SendStart(Stamped([status |-> 200, code |-> "none", id |-> "none",
                               headers |-> headers]), "streaming")
      BY <1>5 DEF RouteStarts
    <2>3. [status |-> 200, code |-> "none", id |-> "none", headers |-> headers] \in Messages
      BY DEF Messages, Statuses, Maybe, Headers
    <2>4. QED
      BY <1>5, <2>1, <2>2, <2>3, StampedType, SendStartType, MovesType DEF RouteStarts, Places
  <1>6. CASE RouteEnds \/ AnswerEnds
    <2>1. SendBody
      BY <1>6 DEF RouteEnds, AnswerEnds
    <2>2. QED
      BY <2>1, SendBodyType, MovesType DEF SendBody, TypeOK
  <1>7. CASE Answer
    <2>1. request.guarded => request.id \in Ids
      BY <1>7 DEF Answer, IdInv
    <2>2. QED
      BY <1>7, <2>1, RecordTypes, StampedType, SendStartType, MovesType DEF Answer, Places
  <1>8. CASE Escaping
    <2>1. Moves
      BY <1>8, EscapeType, RecordTypes DEF Escaping, RouteEscapes, Moves
    <2>2. QED
      BY <1>8, <2>1, MovesType DEF Escaping, RouteEscapes, TypeOK
  <1>9. CASE Raising
    BY <1>9 DEF Raising, Raises, RouteRaises, Handle, Maybe, Places, Headers, TypeOK
  <1>10. CASE Leave
    BY <1>10 DEF Leave, ResolveStatus, NoAccess, Maybe, Places, Statuses, StageInv, TypeOK
  <1>11. CASE CatchAll
    BY <1>11 DEF CatchAll, Handle, Internal, Maybe, Places, Statuses, Codes, Headers, TypeOK
  <1>12. CASE Apologise
    <2>1. wire' \in Wires
      BY <1>12, OnTheWireType, RecordTypes DEF Apologise, Wires
    <2>2. QED
      BY <1>12, <2>1 DEF Apologise, Places, TypeOK, Wires
  <1>13. CASE ApologyEnds
    BY <1>13 DEF ApologyEnds, Places, TypeOK
  <1>14. CASE UNCHANGED vars
    BY <1>14 DEF vars, TypeOK
  <1>15. QED
    BY <1>1, <1>2, <1>3, <1>4, <1>5, <1>6, <1>7, <1>8, <1>9, <1>10, <1>11, <1>12,
       <1>13, <1>14, StepCases

-----------------------------------------------------------------------------
(* The theorems.                                                            *)

(* The parts of the invariant hold of every reachable state.                *)
THEOREM PipeInvariant == Spec => []PipeInv
  <1>1. Init => PipeInv
    <2> SUFFICES ASSUME Init PROVE PipeInv
      OBVIOUS
    <2> USE DEF Init, NoContext, NoResponse, NoWire, NoAccess
    <2>1. TypeOK
      BY DEF TypeOK, Maybe, Places, Paths, Statuses, Headers
    <2>2. IdInv /\ ResponseInv /\ StageInv
      BY IdsAssumption DEF IdInv, ResponseInv, StageInv
    <2>3. WireInv
      BY DEF WireInv, OneRequestId
    <2>4. LineInv
      BY DEF LineInv, AccessTellsWire, NoStaleErrorCode, CodeIsCorrelated,
             CancelIsNotServerError, Logged
    <2>5. EveryErrorIsAnswered
      BY DEF EveryErrorIsAnswered
    <2>6. QED
      BY <2>1, <2>2, <2>3, <2>4, <2>5 DEF PipeInv
  <1>2. PipeInv /\ [Next]_vars => PipeInv'
    BY TypeStep, IdStep, ResponseStep, WireStep, StageStep, LineStep, AnsweredStep DEF PipeInv
  <1>3. QED
    BY <1>1, <1>2, PTL DEF Spec

(* For any set of ids and any number of requests, every variable stays in   *)
(* its range.                                                               *)
THEOREM PipeTypes == Spec => []TypeOK
  BY PipeInvariant, PTL DEF PipeInv

(* For any number of requests, one id ties an exchange together, whichever  *)
(* of the three senders set it; and if the route wrote another over it, the *)
(* response still has one header, the request's own if it came from inside  *)
(* the middleware, and the line goes by that id or the body's.              *)
THEOREM OneIdPerRequest == Spec => []OneRequestId
  <1>1. PipeInv => OneRequestId
    BY DEF PipeInv, WireInv
  <1>2. QED
    BY <1>1, PipeInvariant, PTL

(* For any number of requests, an access line gives the status its consumer *)
(* got, also when the catch-all answers after the line is written.          *)
THEOREM AccessLineTellsWire == Spec => []AccessTellsWire
  <1>1. PipeInv => AccessTellsWire
    BY DEF PipeInv, LineInv
  <1>2. QED
    BY <1>1, PipeInvariant, PTL

(* Whatever earlier requests left bound in the context, no access line      *)
(* carries a code of theirs.                                                *)
THEOREM CodesAreFresh == Spec => []NoStaleErrorCode
  <1>1. PipeInv => NoStaleErrorCode
    BY DEF PipeInv, LineInv
  <1>2. QED
    BY <1>1, PipeInvariant, PTL

(* For any number of requests, line and body of a handled error name the    *)
(* same code.                                                               *)
THEOREM CodesAreCorrelated == Spec => []CodeIsCorrelated
  <1>1. PipeInv => CodeIsCorrelated
    BY DEF PipeInv, LineInv
  <1>2. QED
    BY <1>1, PipeInvariant, PTL

(* For any number of requests, none but a health probe that succeeded goes  *)
(* unlogged.                                                                *)
THEOREM RequestsAreLogged == Spec => []NoSilentRequest
  <1>1. PipeInv => NoSilentRequest
    BY DEF PipeInv, LineInv, NoSilentRequest
  <1>2. QED
    BY <1>1, PipeInvariant, PTL

(* For any number of requests, a consumer that left before its response is  *)
(* logged as 499.                                                           *)
THEOREM CancelsAreNotErrors == Spec => []CancelIsNotServerError
  <1>1. PipeInv => CancelIsNotServerError
    BY DEF PipeInv, LineInv
  <1>2. QED
    BY <1>1, PipeInvariant, PTL

(* For any number of requests, with or without RequestIdMiddleware, an      *)
(* error of the route ends in a whole answer, if the consumer is there.     *)
THEOREM ErrorsAreAnswered == Spec => []EveryErrorIsAnswered
  <1>1. PipeInv => EveryErrorIsAnswered
    BY DEF PipeInv
  <1>2. QED
    BY <1>1, PipeInvariant, PTL

-----------------------------------------------------------------------------
(* Where the program departs from its comments, and that it does nowhere    *)
(* else.                                                                    *)

(* An exception under the middleware is not over before the catch-all has   *)
(* tried to answer it.                                                      *)
ApologyTried == pc = "idle" /\ Logged /\ request.raised = "exception" => started

(* Only a cancelled or interrupted request goes past the catch-all.          *)
LEMMA ApologyStep ==
  ASSUME PipeInv, ApologyTried, [Next]_vars
  PROVE  ApologyTried'
  <1> USE DEF PipeInv, ApologyTried, Logged
  <1>1. CASE Entering
    BY <1>1, Entered
  <1>2. CASE Moving
    <2>1. /\ access' = access /\ SameRequest
          /\ pc \in {"refusing", "inside", "streaming", "answering", "flushing"}
      BY <1>2, Moved
    <2>2. access = NoAccess
      BY <2>1 DEF StageInv, Untouched, Sending
    <2>3. QED
      BY <2>1, <2>2 DEF NoAccess
  <1>3. CASE PassThrough \/ RouteClobbers \/ Raising \/ CatchAll \/ UNCHANGED vars
    BY <1>3 DEF PassThrough, RouteClobbers, Raising, Raises, RouteRaises, CatchAll, vars
  <1>4. CASE Leave
    BY <1>4 DEF Leave, StageInv
  <1>5. CASE Apologise \/ ApologyEnds
    BY <1>5 DEF Apologise, ApologyEnds, StageInv
  <1>6. QED
    BY <1>1, <1>2, <1>3, <1>4, <1>5, StepCases DEF Moving

(* Whatever the requests, an exception before the response start shows as a *)
(* 5xx on the access line, as the comments have it, but for the one case    *)
(* the size guard makes: an oversize OPTIONS *, logged as 413.              *)
THEOREM OnlyOversizeStarIsMisfiled ==
  Spec => [](~(captured = 413 /\ request.path = "*") => RaisedBeforeStartIs5xx)
  <1>1. Init => ApologyTried
    BY DEF Init, ApologyTried, Logged, NoAccess
  <1>2. PipeInv /\ ApologyTried /\ [Next]_vars => ApologyTried'
    BY ApologyStep
  <1>3. ASSUME PipeInv, ApologyTried, ~(captured = 413 /\ request.path = "*"),
               Logged, request.raised = "exception", ~started
        PROVE  access.status >= 500
    <2>1. request.guarded
      BY <1>3 DEF PipeInv, StageInv, Logged, NoAccess
    <2>2. pc \in {"outside", "apologising"}
      BY <1>3, <2>1
         DEF PipeInv, TypeOK, Places, StageInv, Untouched, Sending, ApologyTried, Logged, NoAccess
    <2>3. captured = 0
      BY <1>3, <2>2 DEF PipeInv, StageInv, Ended
    <2>4. access.status = ResolveStatus(captured, "exception")
      BY <1>3, <2>2 DEF PipeInv, LineInv
    <2>5. QED
      BY <2>3, <2>4 DEF ResolveStatus
  <1>4. PipeInv /\ ApologyTried =>
          (~(captured = 413 /\ request.path = "*") => RaisedBeforeStartIs5xx)
    BY <1>3 DEF RaisedBeforeStartIs5xx
  <1>5. QED
    BY <1>1, <1>2, <1>4, PipeInvariant, PTL DEF Spec

(* A code that was bound before the access line is written is on it; the    *)
(* catch-all alone binds later.                                             *)
CodedInv ==
  request.guarded =>
    /\ pc \in {"answering", "flushing", "finally"} /\ request.bound # {} =>
         ctx.error_code # "none"
    /\ Logged /\ access.error_code = "none" =>
         \/ request.bound = {}
         \/ /\ pc # "outside"
            /\ request.raised = "exception"
            /\ request.bound = {"INTERNAL_ERROR"}

(* The code is bound before the answer is sent, or by the catch-all.         *)
LEMMA CodedStep ==
  ASSUME PipeInv, CodedInv, [Next]_vars
  PROVE  CodedInv'
  <1> USE DEF PipeInv, CodedInv, Logged
  <1>1. CASE Entering
    BY <1>1, Entered
  <1>2. CASE Moving
    <2>1. /\ UNCHANGED <<ctx, access>> /\ SameRequest
          /\ pc \in {"refusing", "inside", "streaming", "answering", "flushing"}
      BY <1>2, Moved
    <2>2. access = NoAccess
      BY <2>1 DEF StageInv, Untouched, Sending
    <2>3. pc \in {"refusing", "inside", "streaming"} => request.bound = {}
      BY DEF StageInv
    <2>4. QED
      BY <2>1, <2>2, <2>3 DEF NoAccess, SameRequest
  <1>3. CASE PassThrough \/ RouteClobbers \/ Leave \/ Apologise \/ ApologyEnds \/ UNCHANGED vars
    BY <1>3 DEF PassThrough, RouteClobbers, Leave, Apologise, ApologyEnds, NoAccess, vars
  <1>4. CASE Raising
    <2>1. access' = NoAccess /\ pc' = "answering"
      BY <1>4 DEF Raising, Raises, RouteRaises, StageInv, Untouched
    <2>2. ctx'.error_code \in Codes
      BY <1>4 DEF Raising, Raises, RouteRaises, Handle, TypeOK
    <2>3. QED
      BY <2>1, <2>2 DEF NoAccess, Codes
  <1>5. CASE CatchAll
    <2>1. /\ access' = access /\ pc = "outside" /\ pc' = "apologising"
          /\ request' = [request EXCEPT !.bound = @ \cup {"INTERNAL_ERROR"}]
      BY <1>5 DEF CatchAll, Handle
    <2>2. /\ request'.bound = request.bound \cup {"INTERNAL_ERROR"}
          /\ request'.raised = request.raised /\ request'.guarded = request.guarded
      BY <2>1 DEF TypeOK
    <2>3. request.raised = "exception"
      BY <2>1 DEF StageInv
    <2>4. QED
      BY <2>1, <2>2, <2>3
  <1>6. QED
    BY <1>1, <1>2, <1>3, <1>4, <1>5, StepCases DEF Moving

(* Whatever the requests, an error that a handler reported is named on its  *)
(* access line, as the comments have it, but for an exception that only the *)
(* catch-all took.                                                          *)
THEOREM OnlyTheCatchAllIsLate ==
  Spec => []( request.raised # "exception" \/ request.bound # {"INTERNAL_ERROR"}
                => ErrorCodeOnAccessLine )
  <1>1. Init => CodedInv
    BY DEF Init, CodedInv, Logged, NoAccess
  <1>2. PipeInv /\ CodedInv /\ [Next]_vars => CodedInv'
    BY CodedStep
  <1>3. PipeInv /\ CodedInv =>
          ( request.raised # "exception" \/ request.bound # {"INTERNAL_ERROR"}
              => ErrorCodeOnAccessLine )
    BY DEF PipeInv, StageInv, CodedInv, ErrorCodeOnAccessLine, Logged, NoAccess
  <1>4. QED
    BY <1>1, <1>2, <1>3, PipeInvariant, PTL DEF Spec
=============================================================================
