-------------------------- MODULE OllamaChatProofs --------------------------
(***************************************************************************)
(* What holds of the client's calls for any set of consumers.              *)
(*                                                                         *)
(* ChatInv is inductive and has four parts that say something.  QueueInv:  *)
(* the queue holds the waiting calls, each once.  SlotInv: the holders are *)
(* the calls on the wire, and all of them but one have a severed           *)
(* connection; it is kept because a connection is only handed out when     *)
(* there is room.  LogInv: a call's lines are those of the place it stands *)
(* at, and when it raised, its category is that of its cause.  ReplyInv: a *)
(* call that got an answer ended as the answer's verdict says.             *)
(***************************************************************************)
EXTENDS OllamaChat, FiniteSetTheorems, SequenceTheorems, TLAPS

CallStep(c) ==
  \/ Chat(c) \/ Grant(c) \/ PoolTimeout(c)
  \/ Dial(c) \/ DialFails(c) \/ Write(c) \/ WriteFails(c)
  \/ Answer(c) \/ ReadFails(c)
  \/ Sever(c) \/ Cancel(c) \/ Forget(c)

(* A step of Next is a step of one call, or one of the client's own.        *)
LEMMA StepCases == [Next]_vars <=> (\E c \in Calls : CallStep(c)) \/ Close \/ Expire \/ UNCHANGED vars
  BY DEF Next, CallStep

-----------------------------------------------------------------------------
(* Sequences without repetitions.                                           *)

Distinct(s) == \A i, j \in DOMAIN s : s[i] = s[j] => i = j

(* The places of a sequence are numbered from 1.                            *)
LEMMA Places ==
  ASSUME NEW S, NEW s \in Seq(S)
  PROVE  /\ Len(s) \in Nat
         /\ DOMAIN s = 1 .. Len(s)
         /\ ToSet(s) = { s[k] : k \in 1 .. Len(s) }
         /\ Distinct(s) <=> \A j, k \in 1 .. Len(s) : s[j] = s[k] => j = k
  BY LenProperties DEF ToSet, Distinct

(* Taking one element out of a sequence closes the gap.                     *)
LEMMA RemoveAtProperties ==
  ASSUME NEW S, NEW s \in Seq(S), NEW i \in 1 .. Len(s)
  PROVE  /\ RemoveAt(s, i) \in Seq(S)
         /\ Len(RemoveAt(s, i)) = Len(s) - 1
         /\ \A k \in 1 .. Len(s) - 1 :
              RemoveAt(s, i)[k] = IF k < i THEN s[k] ELSE s[k + 1]
  <1> DEFINE front == SubSeq(s, 1, i - 1)
             back == SubSeq(s, i + 1, Len(s))
  <1>1. Len(s) \in Nat /\ \A k \in 1 .. Len(s) : s[k] \in S
    BY LenProperties
  <1>2. /\ front \in Seq(S) /\ Len(front) = i - 1
        /\ \A k \in 1 .. i - 1 : front[k] = s[k]
    <2>1. 1 \in Int /\ i - 1 \in Int /\ \A k \in 1 .. i - 1 : s[k] \in S
      BY <1>1
    <2>2. /\ front \in Seq(S)
          /\ Len(front) = IF 1 <= i - 1 THEN (i - 1) - 1 + 1 ELSE 0
          /\ \A k \in 1 .. (i - 1) - 1 + 1 : front[k] = s[1 + k - 1]
      BY <2>1, SubSeqProperties
    <2>3. QED
      BY <1>1, <2>2
  <1>3. /\ back \in Seq(S) /\ Len(back) = Len(s) - i
        /\ \A k \in 1 .. Len(s) - i : back[k] = s[i + k]
    <2>1. /\ i + 1 \in Int /\ Len(s) \in Int
          /\ \A k \in i + 1 .. Len(s) : s[k] \in S
      BY <1>1
    <2>2. /\ back \in Seq(S)
          /\ Len(back) = IF i + 1 <= Len(s) THEN Len(s) - (i + 1) + 1 ELSE 0
          /\ \A k \in 1 .. Len(s) - (i + 1) + 1 : back[k] = s[i + 1 + k - 1]
      BY <2>1, SubSeqProperties
    <2>3. QED
      BY <1>1, <2>2
  <1>4. RemoveAt(s, i) = front \o back
    BY DEF RemoveAt
  <1> HIDE DEF front, back
  <1>5. /\ front \o back \in Seq(S)
        /\ Len(front \o back) = Len(front) + Len(back)
        /\ \A k \in 1 .. Len(front) + Len(back) :
             (front \o back)[k] = IF k <= Len(front) THEN front[k] ELSE back[k - Len(front)]
    BY <1>2, <1>3, ConcatProperties
  <1>6. ASSUME NEW k \in 1 .. Len(s) - 1
        PROVE  (front \o back)[k] = IF k < i THEN s[k] ELSE s[k + 1]
    <2>1. CASE k < i
      BY <1>1, <1>2, <1>3, <1>5, <2>1
    <2>2. CASE k >= i
      <3>1. (front \o back)[k] = back[k - (i - 1)]
        BY <1>1, <1>2, <1>3, <1>5, <2>2
      <3>2. k - (i - 1) \in 1 .. Len(s) - i /\ i + (k - (i - 1)) = k + 1
        BY <1>1, <2>2
      <3>3. QED
        BY <1>3, <3>1, <3>2, <2>2
    <2>3. k < i \/ k >= i
      BY <1>1
    <2>4. QED
      BY <2>1, <2>2, <2>3
  <1>7. QED
    BY <1>1, <1>2, <1>3, <1>4, <1>5, <1>6

(* Taking one element out of a sequence without repetitions takes it out of *)
(* its set, and leaves no repetition behind.                                *)
LEMMA RemoveAtExact ==
  ASSUME NEW S, NEW s \in Seq(S), Distinct(s), NEW i \in 1 .. Len(s)
  PROVE  /\ RemoveAt(s, i) \in Seq(S)
         /\ Distinct(RemoveAt(s, i))
         /\ ToSet(RemoveAt(s, i)) = ToSet(s) \ {s[i]}
  <1> DEFINE t == RemoveAt(s, i)
             n == Len(s)
  <1>1. /\ n \in Nat /\ t \in Seq(S) /\ Len(t) = n - 1
        /\ \A k \in 1 .. n - 1 : t[k] = IF k < i THEN s[k] ELSE s[k + 1]
    BY RemoveAtProperties, LenProperties
  <1> HIDE DEF t
  <1>2. \A j, k \in 1 .. n : s[j] = s[k] => j = k
    BY Places
  <1>3. ToSet(t) = { t[k] : k \in 1 .. n - 1 } /\ ToSet(s) = { s[k] : k \in 1 .. n }
    BY Places, <1>1
  <1>4. Distinct(t)
    <2>1. \A j, k \in 1 .. n - 1 : t[j] = t[k] => j = k
      BY <1>1, <1>2
    <2>2. QED
      BY <2>1, <1>1, Places
  <1>5. \A k \in 1 .. n - 1 : t[k] \in ToSet(s) /\ t[k] # s[i]
    BY <1>1, <1>2, <1>3
  <1>6. ASSUME NEW j \in 1 .. n, j # i
        PROVE  \E k \in 1 .. n - 1 : t[k] = s[j]
    <2>1. CASE j < i
      BY <1>1, <2>1
    <2>2. CASE j > i
      <3>1. j - 1 \in 1 .. n - 1 /\ ~(j - 1 < i) /\ (j - 1) + 1 = j
        BY <1>1, <2>2
      <3>2. QED
        BY <1>1, <3>1
    <2>3. QED
      BY <1>1, <1>6, <2>1, <2>2
  <1>7. ToSet(t) = ToSet(s) \ {s[i]}
    BY <1>3, <1>5, <1>6
  <1>8. QED
    BY <1>1, <1>4, <1>7 DEF t

(* Taking the head off the queue takes it out of its set.                   *)
LEMMA TailExact ==
  ASSUME NEW S, NEW s \in Seq(S), Distinct(s), s # <<>>
  PROVE  /\ Tail(s) \in Seq(S)
         /\ Distinct(Tail(s))
         /\ ToSet(Tail(s)) = ToSet(s) \ {Head(s)}
  <1> DEFINE t == Tail(s)
             n == Len(s)
  <1>1. /\ n \in Nat /\ n >= 1 /\ t \in Seq(S) /\ Len(t) = n - 1
        /\ \A k \in 1 .. n - 1 : t[k] = s[k + 1]
    BY HeadTailProperties, LenProperties, EmptySeq
  <1>2. Head(s) = s[1]
    OBVIOUS
  <1> HIDE DEF t
  <1>3. \A j, k \in 1 .. n : s[j] = s[k] => j = k
    BY Places
  <1>4. ToSet(t) = { t[k] : k \in 1 .. n - 1 } /\ ToSet(s) = { s[k] : k \in 1 .. n }
    BY Places, <1>1
  <1>5. Distinct(t)
    <2>1. \A j, k \in 1 .. n - 1 : t[j] = t[k] => j = k
      BY <1>1, <1>3
    <2>2. QED
      BY <2>1, <1>1, Places
  <1>6. \A k \in 1 .. n - 1 : t[k] \in ToSet(s) /\ t[k] # s[1]
    BY <1>1, <1>3, <1>4
  <1>7. ASSUME NEW j \in 1 .. n, j # 1
        PROVE  \E k \in 1 .. n - 1 : t[k] = s[j]
    <2>1. j - 1 \in 1 .. n - 1 /\ (j - 1) + 1 = j
      BY <1>1, <1>7
    <2>2. QED
      BY <1>1, <2>1
  <1>8. ToSet(t) = ToSet(s) \ {s[1]}
    <2>1. ToSet(t) \subseteq ToSet(s) \ {s[1]}
      BY <1>4, <1>6
    <2>2. ASSUME NEW e \in ToSet(s), e # s[1]
          PROVE  e \in ToSet(t)
      <3>1. PICK j \in 1 .. n : e = s[j]
        BY <1>4
      <3>2. j # 1
        BY <2>2, <3>1
      <3>3. PICK k \in 1 .. n - 1 : t[k] = s[j]
        BY <1>7, <3>2
      <3>4. QED
        BY <1>4, <3>1, <3>3
    <2>3. QED
      BY <2>1, <2>2
  <1>9. QED
    BY <1>1, <1>2, <1>5, <1>8 DEF t

(* A new element at the end of the queue is added to its set.               *)
LEMMA AppendExact ==
  ASSUME NEW S, NEW s \in Seq(S), Distinct(s), NEW e \in S, e \notin ToSet(s)
  PROVE  /\ Append(s, e) \in Seq(S)
         /\ Distinct(Append(s, e))
         /\ ToSet(Append(s, e)) = ToSet(s) \cup {e}
  <1> DEFINE t == Append(s, e)
             n == Len(s)
  <1>1. /\ n \in Nat /\ t \in Seq(S) /\ Len(t) = n + 1
        /\ \A k \in 1 .. n : t[k] = s[k]
        /\ t[n + 1] = e
    BY AppendProperties, LenProperties
  <1> HIDE DEF t
  <1>2. \A j, k \in 1 .. n : s[j] = s[k] => j = k
    BY Places
  <1>3. ToSet(t) = { t[k] : k \in 1 .. n + 1 } /\ ToSet(s) = { s[k] : k \in 1 .. n }
    BY Places, <1>1
  <1>4. \A k \in 1 .. n : s[k] # e
    BY <1>3
  <1>5. \A k \in 1 .. n + 1 : k \in 1 .. n \/ k = n + 1
    BY <1>1
  <1>6. Distinct(t)
    <2>1. \A j, k \in 1 .. n + 1 : t[j] = t[k] => j = k
      BY <1>1, <1>2, <1>4, <1>5
    <2>2. QED
      BY <2>1, <1>1, Places
  <1>7. \A k \in 1 .. n : k \in 1 .. n + 1
    BY <1>1
  <1>8. n + 1 \in 1 .. n + 1
    BY <1>1
  <1>9. ToSet(t) = ToSet(s) \cup {e}
    BY <1>1, <1>3, <1>5, <1>7, <1>8
  <1>10. QED
    BY <1>1, <1>6, <1>9 DEF t

-----------------------------------------------------------------------------
(* The queue and the calls that wait in it.                                 *)

(* What a call leaves in the queue when it goes.                            *)
LEMMA LeavingQueue ==
  ASSUME queue \in Seq(Calls), Distinct(queue), NEW c \in Calls, LeavePool(c)
  PROVE  /\ queue' \in Seq(Calls)
         /\ Distinct(queue')
         /\ ToSet(queue') = ToSet(queue) \ {c}
  <1>1. CASE \E i \in DOMAIN queue : queue[i] = c /\ queue' = RemoveAt(queue, i)
    <2>1. PICK i \in 1 .. Len(queue) : queue[i] = c /\ queue' = RemoveAt(queue, i)
      BY <1>1, Places
    <2>2. QED
      BY <2>1, RemoveAtExact
  <1>2. CASE c \notin ToSet(queue) /\ queue' = queue
    BY <1>2
  <1>3. QED
    BY <1>1, <1>2 DEF LeavePool

(* The queue holds the calls that wait, each once.                          *)
QueueInv ==
  /\ queue \in Seq(Calls)
  /\ Distinct(queue)
  /\ ToSet(queue) = { c \in Calls : pc[c] = "waiting" }

PcType == pc \in [Calls -> {"absent"} \cup UnderWay \cup Over]

Leaving(c) ==
  \/ PoolTimeout(c) \/ DialFails(c) \/ WriteFails(c) \/ ReadFails(c)
  \/ Sever(c) \/ Answer(c) \/ Cancel(c)

(* Every way out of the pool ends the call.                                 *)
LEMMA LeavingEnds ==
  ASSUME PcType, NEW c \in Calls, Leaving(c)
  PROVE  /\ LeavePool(c)
         /\ closed' = closed
         /\ \E over \in Over : pc' = [pc EXCEPT ![c] = over]
  BY DEF Leaving, PoolTimeout, DialFails, WriteFails, ReadFails, Sever, Answer,
         Cancel, Raise, ExceptException, ExceptCancelled, Return, Over

(* A step of one call moves no other call.                                  *)
LEMMA PcStep ==
  ASSUME PcType, NEW c \in Calls, CallStep(c)
  PROVE  \E place \in {"absent"} \cup UnderWay \cup Over :
           pc' = [pc EXCEPT ![c] = place]
  <1> USE DEF UnderWay, OnWire, Over
  <1>1. CASE Leaving(c)
    BY <1>1, LeavingEnds
  <1>2. CASE Chat(c)
    BY <1>2 DEF Chat, ExceptException, Connect
  <1>3. CASE Grant(c)
    BY <1>3 DEF Grant, Connect
  <1>4. CASE Dial(c) \/ Write(c) \/ Forget(c)
    BY <1>4 DEF Dial, Write, Forget
  <1>5. QED
    BY <1>1, <1>2, <1>3, <1>4 DEF CallStep, Leaving

(* Every step keeps the places of the calls in range.                       *)
LEMMA PcTypeStep ==
  ASSUME PcType, [Next]_vars
  PROVE  PcType'
  <1>1. CASE \E c \in Calls : CallStep(c)
    BY <1>1, PcStep DEF PcType
  <1>2. CASE Close \/ Expire \/ UNCHANGED vars
    BY <1>2 DEF PcType, Close, Expire, vars
  <1>3. QED
    BY <1>1, <1>2, StepCases

(* The steps that put a call in the queue or take it out keep QueueInv.     *)
LEMMA QueueStep ==
  ASSUME PcType, QueueInv, [Next]_vars
  PROVE  QueueInv'
  <1> USE DEF QueueInv, PcType, UnderWay, OnWire, Over
  <1>1. ASSUME NEW c \in Calls, Chat(c)
        PROVE  QueueInv'
    <2>1. pc[c] = "absent"
      BY <1>1 DEF Chat
    <2>2. CASE queue' = queue
      BY <1>1, <2>1, <2>2 DEF Chat, ExceptException, Connect
    <2>3. CASE queue' = Append(queue, c) /\ pc' = [pc EXCEPT ![c] = "waiting"]
      <3>1. c \notin ToSet(queue)
        BY <2>1
      <3>2. /\ queue' \in Seq(Calls) /\ Distinct(queue')
            /\ ToSet(queue') = ToSet(queue) \cup {c}
        BY <2>3, <3>1, AppendExact
      <3>3. QED
        BY <2>3, <3>2
    <2>4. QED
      BY <1>1, <2>2, <2>3 DEF Chat
  <1>2. ASSUME NEW c \in Calls, Grant(c)
        PROVE  QueueInv'
    <2>1. queue # <<>> /\ Head(queue) = c /\ queue' = Tail(queue)
      BY <1>2 DEF Grant
    <2>2. /\ queue' \in Seq(Calls) /\ Distinct(queue')
          /\ ToSet(queue') = ToSet(queue) \ {c}
      BY <2>1, TailExact
    <2>3. pc' = [pc EXCEPT ![c] = "writing"] \/ pc' = [pc EXCEPT ![c] = "dialing"]
      BY <1>2 DEF Grant, Connect
    <2>4. QED
      BY <2>2, <2>3
  <1>3. ASSUME NEW c \in Calls, Leaving(c)
        PROVE  QueueInv'
    <2>1. LeavePool(c)
      BY <1>3, LeavingEnds
    <2>2. PICK over \in Over : pc' = [pc EXCEPT ![c] = over]
      BY <1>3, LeavingEnds
    <2>3. /\ queue' \in Seq(Calls) /\ Distinct(queue')
          /\ ToSet(queue') = ToSet(queue) \ {c}
      BY <2>1, LeavingQueue
    <2>4. QED
      BY <2>2, <2>3
  <1>4. ASSUME NEW c \in Calls, Dial(c) \/ Write(c) \/ Forget(c)
        PROVE  QueueInv'
    BY <1>4 DEF Dial, Write, Forget
  <1>5. CASE Close \/ Expire \/ UNCHANGED vars
    BY <1>5 DEF Close, Expire, vars
  <1>6. QED
    BY <1>1, <1>2, <1>3, <1>4, <1>5, StepCases DEF CallStep, Leaving

-----------------------------------------------------------------------------
(* The slot.                                                                *)

SlotInv ==
  /\ holders = { c \in Calls : pc[c] \in OnWire }
  /\ severed \subseteq holders
  /\ \A c, d \in holders \ severed : c = d

(* With room in the pool, no live connection is out.                        *)
LEMMA RoomMeansFree ==
  ASSUME SlotInv, Room
  PROVE  holders \subseteq severed
  <1>1. IsFiniteSet(holders \ severed)
    BY CallsAssumption, FS_Subset DEF SlotInv
  <1>2. Cardinality(holders \ severed) \in Nat
    BY <1>1, FS_CardinalityType
  <1>3. Cardinality(holders \ severed) = 0
    BY <1>2 DEF Room, MaxConnections
  <1>4. holders \ severed = {}
    BY <1>1, <1>3, FS_EmptySet
  <1>5. QED
    BY <1>4

(* A connection goes only to a call that had none, when there is room, and  *)
(* a call that leaves takes its own place with it.                          *)
LEMMA SlotStep ==
  ASSUME PcType, SlotInv, [Next]_vars
  PROVE  SlotInv'
  <1> USE DEF PcType, OnWire, UnderWay, Over
  <1>1. ASSUME NEW c \in Calls, pc[c] \in {"absent", "waiting"}, Room, Connect(c),
               severed' = severed
        PROVE  SlotInv'
    <2>1. holders \subseteq severed
      BY <1>1, RoomMeansFree
    <2>2. holders' = holders \cup {c}
      BY <1>1 DEF Connect
    <2>3. pc' = [pc EXCEPT ![c] = "writing"] \/ pc' = [pc EXCEPT ![c] = "dialing"]
      BY <1>1 DEF Connect
    <2>4. QED
      BY <1>1, <2>1, <2>2, <2>3 DEF SlotInv
  <1>2. ASSUME NEW c \in Calls, Chat(c)
        PROVE  SlotInv'
    <2>1. pc[c] = "absent" /\ severed' = severed
      BY <1>2 DEF Chat
    <2>2. CASE Room /\ Connect(c)
      BY <1>1, <2>1, <2>2
    <2>3. CASE holders' = holders /\ pc' = [pc EXCEPT ![c] = "waiting"]
      BY <2>1, <2>3 DEF SlotInv
    <2>4. CASE holders' = holders /\ pc' = [pc EXCEPT ![c] = "raised"]
      BY <2>1, <2>4 DEF SlotInv
    <2>5. QED
      BY <1>2, <2>2, <2>3, <2>4 DEF Chat, ExceptException
  <1>3. ASSUME NEW c \in Calls, Grant(c)
        PROVE  SlotInv'
    BY <1>1, <1>3 DEF Grant
  <1>4. ASSUME NEW c \in Calls, Leaving(c)
        PROVE  SlotInv'
    <2>1. holders' = holders \ {c} /\ severed' = severed \ {c}
      BY <1>4, LeavingEnds DEF LeavePool
    <2>2. PICK over \in Over : pc' = [pc EXCEPT ![c] = over]
      BY <1>4, LeavingEnds
    <2>3. QED
      BY <2>1, <2>2 DEF SlotInv
  <1>5. ASSUME NEW c \in Calls, Dial(c) \/ Write(c) \/ Forget(c)
        PROVE  SlotInv'
    BY <1>5 DEF Dial, Write, Forget, SlotInv
  <1>6. CASE Close
    BY <1>6 DEF Close, SlotInv
  <1>7. CASE Expire \/ UNCHANGED vars
    BY <1>7 DEF Expire, vars, SlotInv
  <1>8. QED
    BY <1>2, <1>3, <1>4, <1>5, <1>6, <1>7, StepCases DEF CallStep, Leaving

-----------------------------------------------------------------------------
(* The lines.                                                               *)

(* The lines a call has logged when it stands at place.                     *)
Record(place, why, lines) ==
  /\ place = "absent" => lines = <<>>
  /\ place \in UnderWay => lines = <<"started">>
  /\ place = "returned" => lines = <<"started", "completed">>
  /\ place = "cancelled" => lines = <<"started", "cancelled">>
  /\ place = "raised" => why \in Causes /\ lines = <<"started", Category(why)>>

LogInv ==
  /\ cause \in [Calls -> Causes \cup {"none"}]
  /\ events = [c \in Calls |-> events[c]]
  /\ \A c \in Calls : Record(pc[c], cause[c], events[c])

(* A step of one call changes its own record only.                          *)
LEMMA RecordStep ==
  ASSUME PcType, LogInv, NEW c \in Calls,
         NEW place, NEW why \in Causes \cup {"none"}, NEW lines,
         Record(place, why, lines),
         pc' = [pc EXCEPT ![c] = place],
         cause' = [cause EXCEPT ![c] = why],
         events' = [events EXCEPT ![c] = lines]
  PROVE  LogInv'
  BY DEF PcType, LogInv

(* The terminal line comes second.                                          *)
LEMMA AppendSecond ==
  ASSUME NEW S, NEW s \in Seq(S), NEW e \in S
  PROVE  Len(s) = 1 => Append(s, e) = <<s[1], e>>
  <1> DEFINE t == Append(s, e)
             n == Len(s)
  <1>1. /\ n \in Nat /\ t \in Seq(S) /\ Len(t) = n + 1
        /\ \A k \in 1 .. n : t[k] = s[k] /\ s[k] \in S
        /\ t[n + 1] = e
    BY AppendProperties, LenProperties
  <1> HIDE DEF t
  <1>2. ASSUME n = 1
        PROVE  t = <<s[1], e>>
    <2> DEFINE both == <<s[1], e>>
    <2>1. /\ Len(t) = 2 /\ t[1] = s[1] /\ t[2] = e
          /\ s[1] \in S
      BY <1>1, <1>2
    <2>2. both \in Seq(S) /\ Len(both) = 2 /\ both[1] = s[1] /\ both[2] = e
      BY <2>1
    <2> HIDE DEF both
    <2>3. \A i \in 1 .. 2 : i = 1 \/ i = 2
      OBVIOUS
    <2>4. \A i \in 1 .. 2 : t[i] = both[i]
      BY <2>1, <2>2, <2>3
    <2>5. t = both
      BY <1>1, <2>1, <2>2, <2>4, SeqEqual
    <2>6. QED
      BY <2>5 DEF both
  <1>3. QED
    BY <1>2 DEF t

(* A started call that logs one more line has logged two.                   *)
LEMMA SecondLine ==
  ASSUME NEW line
  PROVE  Append(<<"started">>, line) = <<"started", line>>
  <1> DEFINE S == {"started", line}
             first == <<"started">>
  <1>1. first \in Seq(S) /\ Len(first) = 1 /\ first[1] = "started" /\ line \in S
    OBVIOUS
  <1> HIDE DEF S, first
  <1>2. Append(first, line) = <<first[1], line>>
    BY <1>1, AppendSecond
  <1>3. QED
    BY <1>1, <1>2 DEF first

(* An exception logs its category after the started line.                   *)
LEMMA RaiseStep ==
  ASSUME PcType, LogInv, NEW c \in Calls, NEW why \in Causes,
         ExceptException(c, why, <<"started">>)
  PROVE  LogInv'
  <1>1. Append(<<"started">>, Category(why)) = <<"started", Category(why)>>
    BY SecondLine
  <1>2. Record("raised", why, <<"started", Category(why)>>)
    BY DEF Record, UnderWay, OnWire
  <1>3. events' = [events EXCEPT ![c] = <<"started", Category(why)>>]
    BY <1>1 DEF ExceptException
  <1>4. /\ pc' = [pc EXCEPT ![c] = "raised"]
        /\ cause' = [cause EXCEPT ![c] = why]
    BY DEF ExceptException
  <1>5. QED
    BY <1>2, <1>3, <1>4, RecordStep

(* Each call's lines and its place change together.                         *)
LEMMA LogStep ==
  ASSUME PcType, SlotInv, LogInv, [Next]_vars
  PROVE  LogInv'
  <1>1. ASSUME NEW c \in Calls, pc[c] \in UnderWay
        PROVE  events[c] = <<"started">>
    BY <1>1 DEF LogInv, Record
  <1>2. ASSUME NEW c \in Calls, NEW why \in Causes, pc[c] \in UnderWay, Raise(c, why)
        PROVE  LogInv'
    BY <1>1, <1>2, RaiseStep DEF Raise
  <1>3. ASSUME NEW c \in Calls, NEW place \in UnderWay, pc[c] \in UnderWay,
               pc' = [pc EXCEPT ![c] = place], UNCHANGED <<cause, events>>
        PROVE  LogInv'
    BY <1>3 DEF LogInv, PcType, Record, UnderWay, OnWire
  <1>4. ASSUME NEW c \in Calls, Chat(c)
        PROVE  LogInv'
    <2>1. CASE \E why \in Causes : ExceptException(c, why, <<"started">>)
      BY <2>1, RaiseStep
    <2>2. CASE /\ events' = [events EXCEPT ![c] = <<"started">>] /\ cause' = cause
               /\ \E place \in UnderWay : pc' = [pc EXCEPT ![c] = place]
      BY <2>2 DEF LogInv, PcType, Record, UnderWay, OnWire
    <2>3. QED
      BY <1>4, <2>1, <2>2 DEF Chat, Connect, Causes, UnderWay, OnWire
  <1>5. ASSUME NEW c \in Calls, Leaving(c)
        PROVE  LogInv'
    <2>1. CASE PoolTimeout(c) \/ DialFails(c) \/ WriteFails(c) \/ ReadFails(c)
      BY <1>2, <2>1 DEF PoolTimeout, DialFails, WriteFails, ReadFails, Causes, UnderWay, OnWire
    <2>2. CASE Sever(c)
      BY <1>2, <2>2 DEF Sever, SlotInv, Causes, UnderWay
    <2>3. CASE Answer(c)
      <3>1. pc[c] \in UnderWay
        BY <2>3 DEF Answer, UnderWay, OnWire
      <3>2. CASE \E why \in Causes : ExceptException(c, why, events[c])
        BY <1>1, <3>1, <3>2, RaiseStep
      <3>3. CASE Return(c)
        <4>1. events' = [events EXCEPT ![c] = <<"started", "completed">>]
          <5>1. events' = [events EXCEPT ![c] = Append(<<"started">>, "completed")]
            BY <1>1, <3>1, <3>3 DEF Return
          <5>2. QED
            BY <5>1, SecondLine
        <4>2. QED
          BY <4>1, <3>3 DEF Return, LogInv, PcType, Record, UnderWay, OnWire
      <3>4. \A r \in Replies : Verdict(r) # "accepted" => Verdict(r) \in Causes
        BY DEF Verdict, Causes
      <3>5. QED
        BY <2>3, <3>2, <3>3, <3>4 DEF Answer
    <2>4. CASE Cancel(c)
      <3>1. events' = [events EXCEPT ![c] = <<"started", "cancelled">>]
        <4>1. events' = [events EXCEPT ![c] = Append(<<"started">>, "cancelled")]
          BY <1>1, <2>4 DEF Cancel, ExceptCancelled
        <4>2. QED
          BY <4>1, SecondLine
      <3>2. QED
        BY <3>1, <2>4 DEF Cancel, ExceptCancelled, LogInv, PcType, Record, UnderWay, OnWire
    <2>5. QED
      BY <1>5, <2>1, <2>2, <2>3, <2>4 DEF Leaving
  <1>6. ASSUME NEW c \in Calls, Grant(c) \/ Dial(c) \/ Write(c)
        PROVE  LogInv'
    BY <1>3, <1>6 DEF Grant, Connect, Dial, Write, UnderWay, OnWire
  <1>7. ASSUME NEW c \in Calls, Forget(c)
        PROVE  LogInv'
    BY <1>7, RecordStep DEF Forget, Record, UnderWay, OnWire
  <1>8. CASE Close \/ Expire \/ UNCHANGED vars
    BY <1>8 DEF LogInv, Close, Expire, vars
  <1>9. QED
    BY <1>4, <1>5, <1>6, <1>7, <1>8, StepCases DEF CallStep, Leaving

-----------------------------------------------------------------------------
(* The answers.                                                             *)

Verdicts == {"status", "not_a_frame", "frame_rejected"}

(* How a call that stands at place, or raised why, relates to its answer.   *)
Judged(place, why, r) ==
  \/ /\ r = NoReply
     /\ place # "returned"
     /\ place = "raised" => why \notin Verdicts
  \/ /\ r \in Replies
     /\ Verdict(r) = "accepted"
     /\ place = "returned"
  \/ /\ r \in Replies
     /\ why = Verdict(r) /\ why \in Verdicts
     /\ place = "raised"

ReplyInv ==
  /\ reply \in [Calls -> Replies \cup {NoReply}]
  /\ \A c \in Calls : Judged(pc[c], cause[c], reply[c])

(* The answer that is missing is none of those there are.                   *)
LEMMA NoReplyIsNone == NoReply \notin Replies
  <1>1. \A r \in Reply : r.status # "none"
    BY DEF Reply
  <1>2. NoReply.status = "none"
    BY DEF NoReply
  <1>3. QED
    BY <1>1, <1>2, RepliesAssumption

(* A verdict is one of four, and tells a whole answer from the others.      *)
LEMMA VerdictIsWholeness ==
  ASSUME NEW r \in Replies
  PROVE  /\ Verdict(r) \in Verdicts \cup {"accepted"}
         /\ Verdict(r) = "accepted" <=> Whole(r)
         /\ Verdict(r) = "status" <=> r.status # "success"
  <1>1. r \in Reply
    BY RepliesAssumption
  <1>2. /\ r.done \in {"absent", "true", "false", "null"}
        /\ r.message \in {"absent", "not_an_object", "without_content", "text",
                          "oversize_text", "not_a_string"}
        /\ r.prompt_eval_count \in {"absent", "in_range", "out_of_range", "not_an_integer"}
        /\ r.eval_count \in {"absent", "in_range", "out_of_range", "not_an_integer"}
    BY <1>1 DEF Reply
  <1>3. /\ Done(r) <=> r.done \notin {"false", "null"}
        /\ ResultRejected(r) <=>
             \/ r.message = "oversize_text"
             \/ r.prompt_eval_count \notin {"absent", "in_range"}
             \/ r.eval_count \notin {"absent", "in_range"}
    BY <1>2 DEF Done, ResultRejected
  <1>4. QED
    BY <1>2, <1>3 DEF Verdict, Verdicts, Whole, DecodeRaises, BuildRaises

(* A step of one call touches its own answer only.                          *)
LEMMA JudgedStep ==
  ASSUME PcType, LogInv, ReplyInv, NEW c \in Calls,
         NEW place, NEW why, NEW r \in Replies \cup {NoReply},
         Judged(place, why, r),
         pc' = [pc EXCEPT ![c] = place],
         cause' = [cause EXCEPT ![c] = why],
         reply' = [reply EXCEPT ![c] = r]
  PROVE  ReplyInv'
  BY DEF PcType, LogInv, ReplyInv

(* A call that has no answer, and goes on or ends without one, is not       *)
(* judged by one.                                                           *)
LEMMA UnansweredStep ==
  ASSUME PcType, LogInv, ReplyInv, NEW c \in Calls, pc[c] \notin Over,
         NEW place, NEW why,
         place # "returned", (why \notin Verdicts) \/ (why = cause[c] /\ place # "raised"),
         pc' = [pc EXCEPT ![c] = place],
         cause' = [cause EXCEPT ![c] = why],
         UNCHANGED reply
  PROVE  ReplyInv'
  <1>1. reply[c] = NoReply
    BY DEF ReplyInv, Judged, Over
  <1>2. Judged(place, why, NoReply)
    BY DEF Judged
  <1>3. reply' = [reply EXCEPT ![c] = NoReply]
    BY <1>1 DEF ReplyInv
  <1>4. QED
    BY <1>2, <1>3, JudgedStep

(* Only Answer gives a call an answer, and ends it accordingly.             *)
LEMMA ReplyStep ==
  ASSUME PcType, SlotInv, LogInv, ReplyInv, [Next]_vars
  PROVE  ReplyInv'
  <1> USE DEF UnderWay, OnWire, Over
  <1>1. ASSUME NEW c \in Calls, NEW place \in UnderWay \cup {"cancelled"},
               pc[c] \notin Over, pc' = [pc EXCEPT ![c] = place],
               UNCHANGED <<cause, reply>>
        PROVE  ReplyInv'
    <2>1. cause' = [cause EXCEPT ![c] = cause[c]]
      BY <1>1 DEF LogInv
    <2>2. QED
      BY <1>1, <2>1, UnansweredStep
  <1>2. ASSUME NEW c \in Calls, NEW why \in Causes \ Verdicts, NEW logged,
               pc[c] \notin Over, ExceptException(c, why, logged), UNCHANGED reply
        PROVE  ReplyInv'
    <2>1. /\ pc' = [pc EXCEPT ![c] = "raised"]
          /\ cause' = [cause EXCEPT ![c] = why]
          /\ why \notin Verdicts
      BY <1>2 DEF ExceptException
    <2>2. reply[c] = NoReply
      BY <1>2 DEF ReplyInv, Judged
    <2>3. Judged("raised", why, NoReply) /\ reply' = [reply EXCEPT ![c] = NoReply]
      BY <1>2, <2>1, <2>2 DEF Judged, ReplyInv
    <2>4. QED
      BY <2>1, <2>3, JudgedStep
  <1>3. ASSUME NEW c \in Calls, Chat(c)
        PROVE  ReplyInv'
    <2>1. CASE \E why \in {"unsupported_media", "use_after_close"} :
                 ExceptException(c, why, <<"started">>)
      BY <1>2, <1>3, <2>1 DEF Chat, Causes, Verdicts
    <2>2. CASE cause' = cause /\ \E place \in UnderWay : pc' = [pc EXCEPT ![c] = place]
      BY <1>1, <1>3, <2>2 DEF Chat
    <2>3. QED
      BY <1>3, <2>1, <2>2 DEF Chat, Connect
  <1>4. ASSUME NEW c \in Calls, Answer(c)
        PROVE  ReplyInv'
    <2>1. PICK r \in Replies :
            /\ reply' = [reply EXCEPT ![c] = r]
            /\ \/ Verdict(r) = "accepted" /\ Return(c)
               \/ Verdict(r) # "accepted" /\ ExceptException(c, Verdict(r), events[c])
      BY <1>4 DEF Answer
    <2>2. CASE Verdict(r) = "accepted" /\ Return(c)
      <3>1. cause' = [cause EXCEPT ![c] = cause[c]] /\ pc' = [pc EXCEPT ![c] = "returned"]
        BY <2>2 DEF Return, LogInv
      <3>2. Judged("returned", cause[c], r)
        BY <2>2 DEF Judged
      <3>3. QED
        BY <2>1, <3>1, <3>2, JudgedStep
    <2>3. CASE Verdict(r) # "accepted" /\ ExceptException(c, Verdict(r), events[c])
      <3>1. Judged("raised", Verdict(r), r)
        BY <2>3, VerdictIsWholeness DEF Judged
      <3>2. QED
        BY <2>1, <2>3, <3>1, JudgedStep DEF ExceptException
    <2>4. QED
      BY <2>1, <2>2, <2>3
  <1>5. ASSUME NEW c \in Calls, Leaving(c), ~Answer(c)
        PROVE  ReplyInv'
    <2>1. CASE Cancel(c)
      BY <1>1, <2>1 DEF Cancel, ExceptCancelled
    <2>2. CASE Sever(c)
      <3>1. pc[c] \in OnWire
        BY <2>2 DEF Sever, SlotInv
      <3>2. QED
        BY <1>2, <2>2, <3>1 DEF Sever, Raise, Causes, Verdicts
    <2>3. CASE PoolTimeout(c) \/ DialFails(c) \/ WriteFails(c) \/ ReadFails(c)
      BY <1>2, <2>3 DEF PoolTimeout, DialFails, WriteFails, ReadFails, Raise, Causes, Verdicts
    <2>4. QED
      BY <1>5, <2>1, <2>2, <2>3 DEF Leaving
  <1>6. ASSUME NEW c \in Calls, Grant(c) \/ Dial(c) \/ Write(c)
        PROVE  ReplyInv'
    BY <1>1, <1>6 DEF Grant, Connect, Dial, Write
  <1>7. ASSUME NEW c \in Calls, Forget(c)
        PROVE  ReplyInv'
    BY <1>7, JudgedStep DEF Forget, Judged
  <1>8. CASE Close \/ Expire \/ UNCHANGED vars
    BY <1>8 DEF ReplyInv, Close, Expire, vars
  <1>9. QED
    BY <1>3, <1>4, <1>5, <1>6, <1>7, <1>8, StepCases DEF CallStep, Leaving

-----------------------------------------------------------------------------
(* The theorems.                                                            *)

FlagType == idle \in BOOLEAN /\ closed \in BOOLEAN

(* The pool's flags keep their types.                                       *)
LEMMA FlagStep ==
  ASSUME FlagType, [Next]_vars
  PROVE  FlagType'
  <1>1. ASSUME NEW c \in Calls, CallStep(c)
        PROVE  FlagType'
    BY <1>1 DEF FlagType, CallStep, Chat, Grant, Connect, PoolTimeout, Dial, DialFails, Write,
                WriteFails, Answer, ReadFails, Sever, Cancel, Forget, Raise
  <1>2. CASE Close \/ Expire \/ UNCHANGED vars
    BY <1>2 DEF FlagType, Close, Expire, vars
  <1>3. QED
    BY <1>1, <1>2, StepCases

ChatInv == PcType /\ FlagType /\ QueueInv /\ SlotInv /\ LogInv /\ ReplyInv

(* The parts of the invariant hold of every reachable state.                *)
THEOREM ChatInvariant == Spec => []ChatInv
  <1>1. Init => ChatInv
    <2> SUFFICES ASSUME Init PROVE ChatInv
      OBVIOUS
    <2>1. PcType /\ FlagType /\ SlotInv
      BY DEF Init, PcType, FlagType, SlotInv, OnWire
    <2>2. QueueInv
      <3>1. queue \in Seq(Calls) /\ Len(queue) = 0
        BY EmptySeq DEF Init
      <3>2. 1 .. Len(queue) = {}
        BY <3>1
      <3>3. DOMAIN queue = {}
        BY <3>1, <3>2, Places
      <3>4. Distinct(queue) /\ ToSet(queue) = {}
        BY <3>3 DEF Distinct, ToSet
      <3>5. QED
        BY <3>1, <3>4 DEF QueueInv, Init
    <2>3. LogInv
      BY DEF Init, LogInv, Record, UnderWay, OnWire
    <2>4. ReplyInv
      BY DEF Init, ReplyInv, Judged
    <2>5. QED
      BY <2>1, <2>2, <2>3, <2>4 DEF ChatInv
  <1>2. ChatInv /\ [Next]_vars => ChatInv'
    BY PcTypeStep, FlagStep, QueueStep, SlotStep, LogStep, ReplyStep DEF ChatInv
  <1>3. QED
    BY <1>1, <1>2, PTL DEF Spec

(* Every variable stays in its range, for any set of consumers.             *)
THEOREM ChatTypes == Spec => []TypeOK
  <1>1. ASSUME ChatInv, NEW c \in Calls
        PROVE  events[c] \in Seq(Lines)
    <2>1. CASE pc[c] \in {"absent"} \cup UnderWay \cup {"returned", "cancelled"}
      <3>1. events[c] \in {<<>>, <<"started">>, <<"started", "completed">>, <<"started", "cancelled">>}
        BY <1>1, <2>1 DEF ChatInv, LogInv, Record
      <3>2. {"started", "completed", "cancelled"} \subseteq Lines
        BY DEF Lines
      <3>3. <<>> \in Seq(Lines)
        BY EmptySeq
      <3>4. <<"started">> \in Seq(Lines)
        BY <3>2
      <3>5. <<"started", "completed">> \in Seq(Lines)
        BY <3>2
      <3>6. <<"started", "cancelled">> \in Seq(Lines)
        BY <3>2
      <3>7. QED
        BY <3>1, <3>3, <3>4, <3>5, <3>6, Zenon
    <2>2. CASE pc[c] = "raised"
      <3>1. Category(cause[c]) \in Lines
        BY DEF Category, Categories, Lines
      <3>2. "started" \in Lines
        BY DEF Lines
      <3>3. events[c] = <<"started", Category(cause[c])>>
        BY <1>1, <2>2 DEF ChatInv, LogInv, Record
      <3>4. QED
        BY <3>1, <3>2, <3>3
    <2>3. QED
      BY <1>1, <2>1, <2>2 DEF ChatInv, PcType, Over
  <1>2. ASSUME ChatInv
        PROVE  TypeOK
    <2>1. events \in [Calls -> Seq(Lines)]
      BY <1>1, <1>2 DEF ChatInv, LogInv
    <2>2. QED
      BY <1>2, <2>1 DEF ChatInv, TypeOK, PcType, FlagType, QueueInv, SlotInv, LogInv, ReplyInv
  <1>3. QED
    BY <1>2, ChatInvariant, PTL

(* For any number of consumers, no two calls are on the wire with a live    *)
(* connection: what DEFAULT_LIMITS is for.                                  *)
THEOREM OneCallOnTheWire == Spec => []OneInFlight
  <1>1. ChatInv => OneInFlight
    BY DEF ChatInv, SlotInv, OneInFlight
  <1>2. QED
    BY <1>1, ChatInvariant, PTL

(* For any number of consumers, slot and queue hold exactly the calls under *)
(* way, whichever way other calls have ended.                               *)
THEOREM PoolStaysExact == Spec => []PoolIsExact
  <1>1. ChatInv => PoolIsExact
    BY DEF ChatInv, SlotInv, QueueInv, PoolIsExact, Distinct
  <1>2. QED
    BY <1>1, ChatInvariant, PTL

(* For any number of consumers, every call that is over has logged one      *)
(* terminal line, and the one that says what its caller saw.                *)
THEOREM EveryCallIsAccounted == Spec => []OneTerminalLine
  <1>1. ASSUME ChatInv, NEW c \in Calls, pc[c] \in Over
        PROVE  \E line \in Lines \ {"started"} :
                 /\ events[c] = <<"started", line>>
                 /\ line = "completed" <=> pc[c] = "returned"
                 /\ line = "cancelled" <=> pc[c] = "cancelled"
    <2>1. CASE pc[c] \in {"returned", "cancelled"}
      BY <1>1, <2>1 DEF ChatInv, LogInv, Record, Lines, Categories
    <2>2. CASE pc[c] = "raised"
      <3>1. Category(cause[c]) \in Categories
        BY DEF Category, Categories
      <3>2. QED
        BY <1>1, <2>2, <3>1 DEF ChatInv, LogInv, Record, Lines, Categories
    <2>3. QED
      BY <1>1, <2>1, <2>2 DEF Over
  <1>2. ChatInv => OneTerminalLine
    BY <1>1 DEF OneTerminalLine, ChatInv, LogInv, Record
  <1>3. QED
    BY <1>2, ChatInvariant, PTL

(* Whatever a call raised, the category of its line tells it from the       *)
(* others that call for another reaction.                                   *)
THEOREM CategoryIsTelling == Spec => []CategoryTellsCause
  <1>1. ASSUME ChatInv, NEW c \in Calls, pc[c] = "raised"
        PROVE  cause[c] \in Causes /\ events[c][Len(events[c])] = Category(cause[c])
    BY <1>1 DEF ChatInv, LogInv, Record
  <1>2. \A why \in Causes :
          /\ Category(why) = "unknown" <=> why = "use_after_close"
          /\ Category(why) = "unsupported_input" <=> why = "unsupported_media"
          /\ Category(why) = "http_status" <=> why = "status"
          /\ Category(why) = "malformed_frame" <=> why \in {"not_a_frame", "frame_rejected"}
    BY DEF Category, Instance, Causes
  <1>3. ChatInv => CategoryTellsCause
    BY <1>1, <1>2 DEF CategoryTellsCause
  <1>4. QED
    BY <1>3, ChatInvariant, PTL

(* For any number of consumers and any answers: a call returns exactly on a *)
(* whole answer, and blames an answer exactly on one that is not.           *)
THEOREM AnswersAreJudged == Spec => []AnswerIsJudged
  <1>1. ASSUME ChatInv, NEW c \in Calls
        PROVE  /\ reply[c] \in Replies \cup {NoReply}
               /\ Judged(pc[c], cause[c], reply[c])
               /\ pc[c] = "raised" =>
                    /\ cause[c] \in Causes
                    /\ events[c][Len(events[c])] = Category(cause[c])
    <2>1. reply[c] \in Replies \cup {NoReply} /\ Judged(pc[c], cause[c], reply[c])
      BY <1>1 DEF ChatInv, ReplyInv
    <2>2. ASSUME pc[c] = "raised"
          PROVE  cause[c] \in Causes /\ events[c] = <<"started", Category(cause[c])>>
      BY <1>1, <2>2 DEF ChatInv, LogInv, Record
    <2>3. pc[c] = "raised" => events[c][Len(events[c])] = Category(cause[c])
      BY <1>1 DEF ChatInv, LogInv, Record
    <2>4. QED
      BY <2>1, <2>2, <2>3
  <1>2. \A why \in Causes :
          /\ Category(why) = "http_status" <=> why = "status"
          /\ Category(why) = "malformed_frame" <=> why \in Verdicts /\ why # "status"
    BY DEF Category, Instance, Causes, Verdicts
  <1>3. ASSUME NEW r \in Replies \cup {NoReply}, NEW place, NEW why, Judged(place, why, r)
        PROVE  /\ place = "returned" <=> r # NoReply /\ Whole(r)
               /\ r # NoReply => place \in {"returned", "raised"}
               /\ place = "raised" =>
                    /\ why = "status" <=> r # NoReply /\ r.status # "success"
                    /\ (why \in Verdicts /\ why # "status") <=>
                         (r # NoReply /\ r.status = "success" /\ ~Whole(r))
    <2>1. CASE r = NoReply
      BY <1>3, <2>1, NoReplyIsNone DEF Judged, Verdicts
    <2>2. CASE r \in Replies /\ r # NoReply
      <3>1. /\ Verdict(r) \in Verdicts \cup {"accepted"}
            /\ Verdict(r) = "accepted" <=> Whole(r)
            /\ Verdict(r) = "status" <=> r.status # "success"
        BY <2>2, VerdictIsWholeness
      <3>2. QED
        BY <1>3, <2>2, <3>1 DEF Judged, Verdicts
    <2>3. QED
      BY <1>3, <2>1, <2>2
  <1>4. ChatInv => AnswerIsJudged
    <2> SUFFICES ASSUME ChatInv PROVE AnswerIsJudged
      OBVIOUS
    <2>1. ASSUME NEW c \in Calls
          PROVE  /\ pc[c] = "returned" <=> Answered(c) /\ Whole(reply[c])
                 /\ Answered(c) => pc[c] \in {"returned", "raised"}
                 /\ pc[c] = "raised" =>
                      /\ LastLine(c) = "http_status" <=> Answered(c) /\ reply[c].status # "success"
                      /\ LastLine(c) = "malformed_frame" <=>
                           Answered(c) /\ reply[c].status = "success" /\ ~Whole(reply[c])
      <3> DEFINE r == reply[c]
      <3>1. /\ r \in Replies \cup {NoReply}
            /\ Judged(pc[c], cause[c], r)
            /\ pc[c] = "raised" => cause[c] \in Causes /\ LastLine(c) = Category(cause[c])
            /\ Answered(c) <=> r # NoReply
        BY <1>1 DEF LastLine, Answered
      <3> HIDE DEF r
      <3>2. /\ pc[c] = "returned" <=> Answered(c) /\ Whole(r)
            /\ Answered(c) => pc[c] \in {"returned", "raised"}
            /\ pc[c] = "raised" =>
                 /\ LastLine(c) = "http_status" <=> Answered(c) /\ r.status # "success"
                 /\ LastLine(c) = "malformed_frame" <=>
                      Answered(c) /\ r.status = "success" /\ ~Whole(r)
        BY <1>2, <1>3, <3>1
      <3>3. QED
        BY <3>2 DEF r
    <2>2. QED
      BY <2>1 DEF AnswerIsJudged
  <1>5. QED
    BY <1>4, ChatInvariant, PTL

-----------------------------------------------------------------------------
(* The promise of InFlightSlot: what the pool does, seen from the slot.     *)

(* The calls whose connection is alive.                                     *)
Live == holders \ severed

(* There is room exactly when no connection is alive.                       *)
LEMMA RoomIsTheFreeSlot ==
  ASSUME SlotInv
  PROVE  Room <=> Live = {}
  <1>1. Room => Live = {}
    BY RoomMeansFree DEF Live
  <1>2. Live = {} => Room
    BY FS_EmptySet DEF Live, Room, MaxConnections
  <1>3. QED
    BY <1>1, <1>2

(* A call without a connection is none of the severed ones.                 *)
LEMMA NewcomerIsAlive ==
  ASSUME SlotInv, NEW c \in Calls, pc[c] \notin OnWire,
         holders' = holders \cup {c}, severed' = severed
  PROVE  Live' = Live \cup {c}
  BY DEF SlotInv, Live

(* A call comes: it has the slot at once, or is last in the queue, or never *)
(* asks for it.                                                             *)
LEMMA SlotByChat ==
  ASSUME ChatInv, NEW c \in Calls, Chat(c)
  PROVE  [Slot!Next]_(Slot!slotVars)
  <1>1. /\ pc[c] = "absent" /\ severed' = severed /\ closed' = closed
        /\ c \notin Live \cup ToSet(queue)
    BY DEF Chat, ChatInv, SlotInv, QueueInv, Live, OnWire
  <1>2. CASE UNCHANGED <<queue, holders>>
    BY <1>1, <1>2 DEF Slot!slotVars
  <1>3. CASE ~closed /\ queue = <<>> /\ Room /\ Connect(c) /\ queue' = queue
    <2>1. Live = {} /\ Live' = {c}
      BY <1>1, <1>3, RoomIsTheFreeSlot, NewcomerIsAlive DEF ChatInv, OnWire, Connect
    <2>2. Slot!Arrive(c)
      BY <1>1, <1>3, <2>1 DEF Slot!Arrive, Slot!ToSet, ToSet, Live
    <2>3. QED
      BY <2>2 DEF Slot!Next
  <1>4. CASE /\ ~closed /\ ~(queue = <<>> /\ Room)
             /\ queue' = Append(queue, c) /\ holders' = holders
    <2>1. Live # {} \/ queue # <<>>
      BY <1>4, RoomIsTheFreeSlot DEF ChatInv
    <2>2. Slot!Arrive(c)
      BY <1>1, <1>4, <2>1 DEF Slot!Arrive, Slot!ToSet, ToSet, Live
    <2>3. QED
      BY <2>2 DEF Slot!Next
  <1>5. QED
    BY <1>2, <1>3, <1>4 DEF Chat

(* The pool hands the slot to the head of the queue.                        *)
LEMMA SlotByGrant ==
  ASSUME ChatInv, NEW c \in Calls, Grant(c)
  PROVE  [Slot!Next]_(Slot!slotVars)
  <1>1. /\ pc[c] = "waiting" /\ queue # <<>> /\ c = Head(queue) /\ Room
        /\ queue' = Tail(queue) /\ holders' = holders \cup {c}
        /\ severed' = severed /\ closed' = closed
    BY DEF Grant, Connect
  <1>2. Live = {} /\ Live' = {c}
    BY <1>1, RoomIsTheFreeSlot, NewcomerIsAlive DEF ChatInv, OnWire
  <1>3. Slot!Admit
    BY <1>1, <1>2 DEF Slot!Admit, Live
  <1>4. QED
    BY <1>3 DEF Slot!Next

(* A call that leaves gives up its place in the queue, or the slot, or a    *)
(* connection that aclose() had closed, which is no slot any more.          *)
LEMMA SlotByLeaving ==
  ASSUME ChatInv, NEW c \in Calls, Leaving(c)
  PROVE  [Slot!Next]_(Slot!slotVars)
  <1>1. LeavePool(c) /\ closed' = closed
    BY LeavingEnds DEF ChatInv
  <1>2. Live' = Live \ {c}
    BY <1>1 DEF LeavePool, Live, ChatInv, SlotInv
  <1>3. CASE c \in ToSet(queue)
    <2>1. c \notin Live
      BY <1>3 DEF ChatInv, QueueInv, SlotInv, Live, OnWire
    <2>2. PICK i \in DOMAIN queue : queue[i] = c /\ queue' = RemoveAt(queue, i)
      BY <1>1, <1>3 DEF LeavePool
    <2>3. Slot!GiveUp(i)
      BY <1>1, <1>2, <2>1, <2>2 DEF Slot!GiveUp, Slot!RemoveAt, RemoveAt, Live
    <2>4. QED
      BY <2>2, <2>3 DEF Slot!Next
  <1>4. CASE c \notin ToSet(queue)
    <2>1. queue' = queue
      BY <1>1, <1>4 DEF LeavePool, ToSet
    <2>2. CASE c \in Live
      <3>1. Live' = {}
        BY <1>2, <2>2 DEF ChatInv, SlotInv, Live
      <3>2. Slot!Finish
        BY <1>1, <2>1, <2>2, <3>1 DEF Slot!Finish, Live
      <3>3. QED
        BY <3>2 DEF Slot!Next
    <2>3. CASE c \notin Live
      BY <1>1, <1>2, <2>1, <2>3 DEF Slot!slotVars, Live
    <2>4. QED
      BY <2>2, <2>3
  <1>5. QED
    BY <1>3, <1>4

(* Every step of the client is a step of the slot, or none of its business. *)
LEMMA SlotSteps ==
  ASSUME ChatInv, [Next]_vars
  PROVE  [Slot!Next]_(Slot!slotVars)
  <1>1. ASSUME NEW c \in Calls, CallStep(c)
        PROVE  [Slot!Next]_(Slot!slotVars)
    <2>1. CASE Dial(c) \/ Write(c) \/ Forget(c)
      BY <2>1 DEF Dial, Write, Forget, Slot!slotVars
    <2>2. QED
      BY <1>1, <2>1, SlotByChat, SlotByGrant, SlotByLeaving DEF CallStep, Leaving
  <1>2. CASE Close
    <2>1. Slot!Close
      BY <1>2 DEF Close, Slot!Close
    <2>2. QED
      BY <2>1 DEF Slot!Next
  <1>3. CASE Expire \/ UNCHANGED vars
    BY <1>3 DEF Expire, vars, Slot!slotVars
  <1>4. QED
    BY <1>1, <1>2, <1>3, StepCases

(* For any number of consumers the client keeps the promise: one call at a  *)
(* time in the slot, in the order of arrival, and nobody new after a close. *)
THEOREM ClientKeepsSlot == Spec => SlotContract
  <1>1. Init => Slot!Init
    BY DEF Init, Slot!Init
  <1>2. ChatInv /\ [Next]_vars => [Slot!Next]_(Slot!slotVars)
    BY SlotSteps
  <1>3. QED
    BY <1>1, <1>2, ChatInvariant, PTL DEF Spec, SlotContract, Slot!Spec

-----------------------------------------------------------------------------
(* After a close.                                                           *)

(* What is left to do in the pool: a waiting call has yet to get the slot   *)
(* and to give it back.                                                     *)
Load == 2 * Len(queue) + Cardinality(holders)

LEMMA PoolIsFinite ==
  ASSUME SlotInv
  PROVE  IsFiniteSet(holders) /\ Cardinality(holders) \in Nat
  BY CallsAssumption, FS_Subset, FS_CardinalityType DEF SlotInv

(* Handing the slot to a waiting call is the first half of its way.         *)
LEMMA GrantLightens ==
  ASSUME ChatInv, NEW c \in Calls, Grant(c)
  PROVE  Load' < Load
  <1>1. /\ pc[c] = "waiting" /\ queue # <<>>
        /\ queue' = Tail(queue) /\ holders' = holders \cup {c}
    BY DEF Grant, Connect
  <1>2. Len(queue) \in Nat /\ Len(queue') = Len(queue) - 1
    BY <1>1, HeadTailProperties, LenProperties DEF ChatInv, QueueInv
  <1>3. c \notin holders
    BY <1>1 DEF ChatInv, SlotInv, OnWire
  <1>4. Cardinality(holders') = Cardinality(holders) + 1 /\ Cardinality(holders) \in Nat
    BY <1>1, <1>3, PoolIsFinite, FS_AddElement DEF ChatInv
  <1>5. QED
    BY <1>2, <1>4 DEF Load

(* A call that ends had a place in the queue or a connection, and leaves it.*)
LEMMA LeavingLightens ==
  ASSUME ChatInv, NEW c \in Calls, Leaving(c)
  PROVE  Load' < Load
  <1>1. LeavePool(c)
    BY LeavingEnds DEF ChatInv
  <1>2. Len(queue) \in Nat /\ Cardinality(holders) \in Nat /\ IsFiniteSet(holders)
    BY PoolIsFinite, LenProperties DEF ChatInv, QueueInv
  <1>3. c \in ToSet(queue) \/ c \in holders
    BY DEF Leaving, PoolTimeout, DialFails, WriteFails, ReadFails, Sever, Answer, Cancel,
           ChatInv, QueueInv, SlotInv, UnderWay, OnWire
  <1>4. CASE c \in ToSet(queue)
    <2>1. PICK i \in DOMAIN queue : queue' = RemoveAt(queue, i)
      BY <1>1, <1>4 DEF LeavePool
    <2>2. i \in 1 .. Len(queue)
      BY Places DEF ChatInv, QueueInv
    <2>3. Len(queue') = Len(queue) - 1
      BY <2>1, <2>2, RemoveAtProperties DEF ChatInv, QueueInv
    <2>4. holders' = holders
      BY <1>1, <1>4 DEF LeavePool, ChatInv, QueueInv, SlotInv, OnWire
    <2>5. QED
      BY <1>2, <2>3, <2>4 DEF Load
  <1>5. CASE c \in holders
    <2>1. c \notin ToSet(queue)
      BY <1>5 DEF ChatInv, QueueInv, SlotInv, OnWire
    <2>2. queue' = queue
      BY <1>1, <2>1 DEF LeavePool, ToSet
    <2>3. Cardinality(holders') = Cardinality(holders) - 1
      BY <1>1, <1>2, <1>5, FS_RemoveElement DEF LeavePool
    <2>4. QED
      BY <1>2, <2>2, <2>3 DEF Load
  <1>6. QED
    BY <1>3, <1>4, <1>5

(* For any number of consumers, a closed client stays closed and whatever   *)
(* then moves in its pool leaves less to do there: of CloseDrains the part  *)
(* that needs no fairness.                                                  *)
THEOREM ClosedPoolOnlyDrains ==
  Spec => [][ closed => /\ closed'
                        /\ \/ queue' = queue /\ holders' = holders
                           \/ Load' < Load ]_vars
  <1> DEFINE Drains == closed => /\ closed'
                                 /\ \/ queue' = queue /\ holders' = holders
                                    \/ Load' < Load
  <1>1. ASSUME ChatInv, closed, NEW c \in Calls, CallStep(c)
        PROVE  Drains
    <2>1. closed'
      BY <1>1, LeavingEnds
      DEF CallStep, Leaving, Chat, Grant, Dial, Write, Forget, ChatInv
    <2>2. CASE Chat(c)
      BY <1>1, <2>1, <2>2 DEF Chat
    <2>3. CASE Dial(c) \/ Write(c) \/ Forget(c)
      BY <2>1, <2>3 DEF Dial, Write, Forget
    <2>4. CASE Grant(c)
      BY <1>1, <2>1, <2>4, GrantLightens
    <2>5. CASE Leaving(c)
      BY <1>1, <2>1, <2>5, LeavingLightens
    <2>6. QED
      BY <1>1, <2>2, <2>3, <2>4, <2>5 DEF CallStep, Leaving
  <1>2. ASSUME ChatInv, [Next]_vars
        PROVE  [Drains]_vars
    <2>1. CASE Close \/ Expire \/ UNCHANGED vars
      BY <2>1 DEF Close, Expire, vars
    <2>2. QED
      BY <1>1, <1>2, <2>1, StepCases
  <1>3. QED
    BY <1>2, ChatInvariant, PTL DEF Spec
=============================================================================
