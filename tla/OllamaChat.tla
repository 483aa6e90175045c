----------------------------- MODULE OllamaChat -----------------------------
(***************************************************************************)
(* OllamaClient.chat under concurrent callers: the call and the lines it   *)
(* logs, over the client's connection pool of one slot.                    *)
(*                                                                         *)
(* httpx and httpcore are outside the repository: the pool hands its slot  *)
(* to the waiter that asked first, and each stage of an exchange ends as   *)
(* it does under the timeouts and limits the client is built with.  Time   *)
(* is abstract: a timeout may strike whenever its stage lasts.             *)
(***************************************************************************)
EXTENDS OllamaTranslation, Sequences, FiniteSets, Integers, SequencesExt

CONSTANTS
  Calls,        \* the consumers, each with at most one call under way
  Prompts,      \* the lists of messages they send, each as the set of them
  Replies,      \* the answers Ollama, or a proxy before it, may give
  DaemonReads   \* TRUE: Ollama always reads the requests sent to it.  FALSE:
                \* a wedged daemon may accept a connection and never read on

ASSUME CallsAssumption == IsFiniteSet(Calls)
ASSUME PromptsAssumption == Prompts \subseteq SUBSET Message
ASSUME RepliesAssumption == Replies \subseteq Reply
ASSUME DaemonAssumption == DaemonReads \in BOOLEAN

VARIABLES
  pc,        \* where each call stands
  queue,     \* the calls that wait for a connection, in the pool's order
  holders,   \* the calls that have one
  idle,      \* is a kept-alive connection at rest in the pool?
  closed,    \* has aclose() been called on the client?
  severed,   \* the calls whose connection aclose() has closed
  cause,     \* why a call raised, if it did
  reply,     \* the answer a call got, if it got one
  events     \* the ollama_call_* lines of each consumer's current call

vars == <<pc, queue, holders, idle, closed, severed, cause, reply, events>>

-----------------------------------------------------------------------------

OnWire == {"dialing", "writing", "reading"}
UnderWay == {"waiting"} \cup OnWire
Over == {"returned", "raised", "cancelled"}

(* What makes a call raise, and what the exception is an instance of.       *)
Causes == {"unsupported_media", "use_after_close", "pool_timeout", "connect",
           "write", "read", "severed", "status", "not_a_frame", "frame_rejected"}

Instance(why) ==
  CASE why = "unsupported_media" -> {"NotImplementedError", "RuntimeError"}
    [] why = "use_after_close"   -> {"RuntimeError"}
    [] why = "status"          -> {"HTTPStatusError"}
    [] why = "not_a_frame"     -> {"ValueError"}
    [] why = "frame_rejected"  -> {"PydanticValidationError", "ValueError"}
    [] OTHER                   -> {"RequestError"}

NoReply == [status |-> "none"]

Categories == {"http_status", "transport", "unsupported_input",
               "malformed_frame", "unknown"}

Init ==
  /\ pc = [c \in Calls |-> "absent"]
  /\ queue = <<>>
  /\ holders = {}
  /\ idle = FALSE
  /\ closed = FALSE
  /\ severed = {}
  /\ cause = [c \in Calls |-> "none"]
  /\ reply = [c \in Calls |-> NoReply]
  /\ events = [c \in Calls |-> <<>>]

-----------------------------------------------------------------------------
(* Seeded bugs: what a plausible slip would make of the definition each is  *)
(* named after, for checking that the properties notice it.                 *)

MaxConnectionsUnset == 2

CategoryRuntimeErrorFirst(why) ==
  CASE "RuntimeError" \in Instance(why)      -> "unknown"
    [] "RequestError" \in Instance(why)      -> "transport"
    [] "HTTPStatusError" \in Instance(why)   -> "http_status"
    [] "ValueError" \in Instance(why)        -> "malformed_frame"
    [] OTHER                                 -> "unknown"

ExceptExceptionTypeName(c, why, logged) ==
  /\ pc' = [pc EXCEPT ![c] = "raised"]
  /\ cause' = [cause EXCEPT ![c] = why]
  /\ \E type \in Instance(why) : events' = [events EXCEPT ![c] = Append(logged, type)]

ExceptCancelledSilent(c) ==
  /\ pc' = [pc EXCEPT ![c] = "cancelled"]
  /\ UNCHANGED <<cause, events>>

(* The cancelled call's place in the pool is not released.                  *)
LeavePoolKeepsPlace(c) ==
  /\ holders' = holders \ {c}
  /\ severed' = severed \ {c}
  /\ queue' = queue

(* read=None: the client never gives up on an answer.                       *)
ReadFailsNever(c) == FALSE

(* A closed client is opened again on use instead of refused.               *)
ChatReopens(c) ==
  /\ pc[c] = "absent"
  /\ closed
  /\ closed' = FALSE
  /\ events' = [events EXCEPT ![c] = <<"started">>]
  /\ pc' = [pc EXCEPT ![c] = "waiting"]
  /\ queue' = Append(queue, c)
  /\ UNCHANGED <<holders, idle, severed, cause, reply>>

(* The slot goes to whoever of the waiting calls asks for it first.         *)
GrantToAnyone(c) ==
  /\ pc[c] = "waiting"
  /\ Cardinality(holders \ severed) = 0
  /\ holders' = holders \cup {c}
  /\ idle' = FALSE
  /\ pc' = [pc EXCEPT ![c] = "dialing"]
  /\ \E i \in DOMAIN queue : queue[i] = c /\ queue' = RemoveAt(queue, i)
  /\ UNCHANGED <<closed, severed, cause, reply, events>>

-----------------------------------------------------------------------------
(* The pool.                                                                *)

MaxConnections == 1

(* The pool no longer counts the connections that aclose() has closed.      *)
Room == Cardinality(holders \ severed) < MaxConnections

(* A call that leaves the pool gives up its connection and its place.       *)
LeavePool(c) ==
  /\ holders' = holders \ {c}
  /\ severed' = severed \ {c}
  /\ \/ \E i \in DOMAIN queue : queue[i] = c /\ queue' = RemoveAt(queue, i)
     \/ c \notin ToSet(queue) /\ queue' = queue

(* A connection for call c: the kept-alive one if there is one, and else a  *)
(* new one to dial.                                                         *)
Connect(c) ==
  /\ holders' = holders \cup {c}
  /\ idle' = FALSE
  /\ pc' = [pc EXCEPT ![c] = IF idle THEN "writing" ELSE "dialing"]

Grant(c) ==
  /\ pc[c] = "waiting"
  /\ queue # <<>> /\ Head(queue) = c
  /\ Room
  /\ queue' = Tail(queue)
  /\ Connect(c)
  /\ UNCHANGED <<closed, severed, cause, reply, events>>

-----------------------------------------------------------------------------
(* chat() and the ways it ends.                                             *)

Category(why) ==
  CASE "HTTPStatusError" \in Instance(why)       -> "http_status"
    [] "RequestError" \in Instance(why)          -> "transport"
    [] "InvalidURL" \in Instance(why)            -> "transport"
    [] "NotImplementedError" \in Instance(why)   -> "unsupported_input"
    [] {"ValueError", "PydanticValidationError"} \cap Instance(why) # {}
                                                 -> "malformed_frame"
    [] OTHER                                     -> "unknown"

(* The three ways out: the line each logs, and what the caller sees.        *)
ExceptException(c, why, logged) ==
  /\ pc' = [pc EXCEPT ![c] = "raised"]
  /\ cause' = [cause EXCEPT ![c] = why]
  /\ events' = [events EXCEPT ![c] = Append(logged, Category(why))]

ExceptCancelled(c) ==
  /\ pc' = [pc EXCEPT ![c] = "cancelled"]
  /\ events' = [events EXCEPT ![c] = Append(@, "cancelled")]
  /\ UNCHANGED cause

Return(c) ==
  /\ pc' = [pc EXCEPT ![c] = "returned"]
  /\ events' = [events EXCEPT ![c] = Append(@, "completed")]
  /\ UNCHANGED cause

(* chat() up to its first suspension: the started line, the translation of  *)
(* the messages, the is_closed test, and the request put to the pool.       *)
Chat(c) ==
  /\ pc[c] = "absent"
  /\ \E messages \in Prompts :
       \/ /\ Unsupported(messages)
          /\ ExceptException(c, "unsupported_media", <<"started">>)
          /\ UNCHANGED <<queue, holders, idle>>
       \/ /\ ~Unsupported(messages) /\ closed
          /\ ExceptException(c, "use_after_close", <<"started">>)
          /\ UNCHANGED <<queue, holders, idle>>
       \/ /\ ~Unsupported(messages) /\ ~closed
          /\ events' = [events EXCEPT ![c] = <<"started">>]
          /\ cause' = cause
          /\ IF queue = <<>> /\ Room
             THEN Connect(c) /\ queue' = queue
             ELSE /\ queue' = Append(queue, c)
                  /\ pc' = [pc EXCEPT ![c] = "waiting"]
                  /\ UNCHANGED <<holders, idle>>
  /\ UNCHANGED <<closed, severed, reply>>

Raise(c, why) ==
  /\ ExceptException(c, why, events[c])
  /\ LeavePool(c)
  /\ UNCHANGED <<idle, closed, reply>>

PoolTimeout(c) == pc[c] = "waiting" /\ Raise(c, "pool_timeout")

(* The connection cannot be made within the connect timeout.                *)
DialFails(c) == pc[c] = "dialing" /\ Raise(c, "connect")

Dial(c) ==
  /\ pc[c] = "dialing"
  /\ c \notin severed
  /\ pc' = [pc EXCEPT ![c] = "writing"]
  /\ UNCHANGED <<queue, holders, idle, closed, severed, cause, reply, events>>

(* Sending the body has no timeout (write=None): it ends if Ollama reads    *)
(* it, or drops the connection.                                             *)
Write(c) ==
  /\ pc[c] = "writing"
  /\ c \notin severed
  /\ pc' = [pc EXCEPT ![c] = "reading"]
  /\ UNCHANGED <<queue, holders, idle, closed, severed, cause, reply, events>>

WriteFails(c) == pc[c] = "writing" /\ Raise(c, "write")

ReadFails(c) == pc[c] = "reading" /\ Raise(c, "read")

(* The stage a call is in fails when aclose() has closed its connection.    *)
Sever(c) == c \in severed /\ Raise(c, "severed")

(* A whole answer: the connection goes back to the pool, if Ollama keeps it *)
(* alive and it is still the pool's, before the answer is looked at and     *)
(* taken or raised on.                                                      *)
Answer(c) ==
  /\ pc[c] = "reading"
  /\ \E r \in Replies :
       /\ reply' = [reply EXCEPT ![c] = r]
       /\ \/ Verdict(r) = "accepted" /\ Return(c)
          \/ Verdict(r) # "accepted" /\ ExceptException(c, Verdict(r), events[c])
  /\ LeavePool(c)
  /\ idle' \in IF c \in severed THEN {idle} ELSE BOOLEAN
  /\ UNCHANGED closed

(* The consumer disconnects.  httpcore closes the connection of a cancelled *)
(* call.                                                                    *)
Cancel(c) ==
  /\ pc[c] \in UnderWay
  /\ ExceptCancelled(c)
  /\ LeavePool(c)
  /\ UNCHANGED <<idle, closed, reply>>

(* The consumer is done with a call and may make another.                   *)
Forget(c) ==
  /\ pc[c] \in Over
  /\ pc' = [pc EXCEPT ![c] = "absent"]
  /\ cause' = [cause EXCEPT ![c] = "none"]
  /\ reply' = [reply EXCEPT ![c] = NoReply]
  /\ events' = [events EXCEPT ![c] = <<>>]
  /\ UNCHANGED <<queue, holders, idle, closed, severed>>

(* OllamaClient.close: the client is closed, and with it the connections    *)
(* there are; a call that waits for one is not told.                        *)
Close ==
  /\ ~closed
  /\ closed' = TRUE
  /\ idle' = FALSE
  /\ severed' = holders
  /\ UNCHANGED <<pc, queue, holders, cause, reply, events>>

(* Ollama, or the keepalive expiry, ends a connection at rest.              *)
Expire ==
  /\ idle
  /\ idle' = FALSE
  /\ UNCHANGED <<pc, queue, holders, closed, severed, cause, reply, events>>

-----------------------------------------------------------------------------

Next ==
  \/ \E c \in Calls :
       \/ Chat(c) \/ Grant(c) \/ PoolTimeout(c)
       \/ Dial(c) \/ DialFails(c) \/ Write(c) \/ WriteFails(c)
       \/ Answer(c) \/ ReadFails(c)
       \/ Sever(c) \/ Cancel(c) \/ Forget(c)
  \/ Close
  \/ Expire

Spec == Init /\ [][Next]_vars

(* What DEFAULT_TIMEOUT gives: a stage with a timeout that does not end     *)
(* otherwise is ended by it (for the read: Ollama sends its one-object      *)
(* answer without pauses of its own).  Sending the body has none, and ends  *)
(* only if Ollama reads.  The pool grants a free slot, and a closed         *)
(* connection is noticed.                                                   *)
Fairness ==
  \A c \in Calls :
    /\ WF_vars(Grant(c))
    /\ WF_vars(PoolTimeout(c))
    /\ WF_vars(DialFails(c))
    /\ WF_vars(DaemonReads /\ Write(c))
    /\ WF_vars(ReadFails(c))
    /\ WF_vars(Sever(c))

FairSpec == Spec /\ Fairness

-----------------------------------------------------------------------------
(* Properties.                                                              *)

Lines == {"started", "completed", "cancelled"} \cup Categories

TypeOK ==
  /\ pc \in [Calls -> {"absent"} \cup UnderWay \cup Over]
  /\ queue \in Seq(Calls)
  /\ holders \subseteq Calls
  /\ idle \in BOOLEAN
  /\ closed \in BOOLEAN
  /\ severed \subseteq Calls
  /\ cause \in [Calls -> Causes \cup {"none"}]
  /\ reply \in [Calls -> Replies \cup {NoReply}]
  /\ events \in [Calls -> Seq(Lines)]

(* Two calls never dial or talk to Ollama at once, also when calls are      *)
(* cancelled, time out or find the client closed under them: of the calls   *)
(* on the wire all but one have a connection that is closed already (the    *)
(* limits the client is built with: one in-flight slot).                    *)
OneInFlight ==
  \A c, d \in Calls \ severed : pc[c] \in OnWire /\ pc[d] \in OnWire => c = d

(* The slot and the queue hold exactly the calls that are under way: none   *)
(* leaves its place behind, whichever way it ended, and none waits outside  *)
(* the queue or in it twice.                                                *)
PoolIsExact ==
  /\ holders = { c \in Calls : pc[c] \in OnWire }
  /\ ToSet(queue) = { c \in Calls : pc[c] = "waiting" }
  /\ \A i, j \in DOMAIN queue : queue[i] = queue[j] => i = j

(* Every call that started logs one terminal line, and the one that says    *)
(* what its caller saw.                                                     *)
OneTerminalLine ==
  \A c \in Calls :
    /\ pc[c] \in UnderWay => events[c] = <<"started">>
    /\ pc[c] \in Over =>
         \E line \in Lines \ {"started"} :
           /\ events[c] = <<"started", line>>
           /\ line = "completed" <=> pc[c] = "returned"
           /\ line = "cancelled" <=> pc[c] = "cancelled"

(* The failure category on that line tells a consumer's bad input from an   *)
(* Ollama that answers badly and from one that does not answer, and only a  *)
(* use after close is "unknown".                                            *)
CategoryTellsCause ==
  \A c \in Calls : pc[c] = "raised" =>
    LET category == events[c][Len(events[c])]
    IN  /\ category = "unknown" <=> cause[c] = "use_after_close"
        /\ category = "unsupported_input" <=> cause[c] = "unsupported_media"
        /\ category = "http_status" <=> cause[c] = "status"
        /\ category = "malformed_frame" <=> cause[c] \in {"not_a_frame", "frame_rejected"}

(* What Ollama must have answered for chat() to return it: one terminal     *)
(* JSON object with a text of bounded size, or with a content that stands   *)
(* for none, and no count that is not one.                                  *)
Whole(r) ==
  /\ r.status = "success" /\ r.mediaType = "json" /\ r.body = "object"
  /\ r.done \notin {"false", "null"}
  /\ r.error # "text"
  /\ r.message \in {"text", "not_a_string"}
  /\ r.prompt_eval_count \in {"absent", "in_range"}
  /\ r.eval_count \in {"absent", "in_range"}

Answered(c) == reply[c] # NoReply

LastLine(c) == events[c][Len(events[c])]

(* A call returns exactly when it got a whole answer, and its line blames   *)
(* an answer exactly when it got one that is not: by its status if that was *)
(* no success, whatever the body, and else as malformed.  No call that was  *)
(* cut off before, and none that a close or a timeout ended, does either.   *)
AnswerIsJudged ==
  \A c \in Calls :
    /\ pc[c] = "returned" <=> Answered(c) /\ Whole(reply[c])
    /\ Answered(c) => pc[c] \in {"returned", "raised"}
    /\ pc[c] = "raised" =>
         /\ LastLine(c) = "http_status" <=> Answered(c) /\ reply[c].status # "success"
         /\ LastLine(c) = "malformed_frame" <=>
              Answered(c) /\ reply[c].status = "success" /\ ~Whole(reply[c])

(* The client keeps the promise of InFlightSlot.  A connection that aclose  *)
(* has closed is a slot given back; and whatever timeouts, cancellations    *)
(* and failures thin the queue, nobody overtakes: no call that comes later, *)
(* and none that waits behind, has the slot before one that came earlier.   *)
Slot == INSTANCE InFlightSlot
          WITH open <- ~closed, waiting <- queue, inside <- holders \ severed

SlotContract == Slot!Spec

(* A call that is under way comes to an end, with an Ollama that reads.     *)
EveryCallEnds == \A c \in Calls : pc[c] \in UnderWay ~> pc[c] \notin UnderWay

(* Once the client is closed the pool empties and stays empty: the          *)
(* is_closed test keeps new calls out, and those that were waiting are not  *)
(* forgotten.                                                               *)
CloseDrains == closed ~> [](holders = {} /\ queue = <<>>)

(* What a comment of ollama_client.py says, and the program does not do: a  *)
(* wedged daemon eventually releases the slot (the read timeout).           *)
WedgedDaemonReleasesSlot == \A c \in Calls : c \in holders ~> c \notin holders
=============================================================================
