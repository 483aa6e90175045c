---------------------------- MODULE InFlightSlot ----------------------------
(***************************************************************************)
(* What the client promises those who call it, with nothing of how a call  *)
(* goes on the wire: one in-flight slot, held by one call at a time; those *)
(* that find it taken get it in the order in which they came, and any of   *)
(* them may give up; and from its closing on nobody new is let in, while   *)
(* those that wait are not sent away.                                      *)
(***************************************************************************)
EXTENDS Sequences, SequencesExt

CONSTANT Calls

VARIABLES
  open,      \* may calls still come?
  waiting,   \* the calls that wait for the slot, in the order they came
  inside     \* the call that has the slot, if one has

slotVars == <<open, waiting, inside>>

Init ==
  /\ open = TRUE
  /\ waiting = <<>>
  /\ inside = {}

(* A call gets the slot at once only if that overtakes nobody.              *)
Arrive(c) ==
  /\ open
  /\ c \notin inside \cup ToSet(waiting)
  /\ \/ /\ inside = {} /\ waiting = <<>>
        /\ inside' = {c}
        /\ waiting' = waiting
     \/ /\ inside # {} \/ waiting # <<>>
        /\ waiting' = Append(waiting, c)
        /\ inside' = inside
  /\ open' = open

Admit ==
  /\ inside = {} /\ waiting # <<>>
  /\ inside' = {Head(waiting)}
  /\ waiting' = Tail(waiting)
  /\ open' = open

(* The call at place i waits no longer: cancelled, or out of time.          *)
GiveUp(i) ==
  /\ waiting' = RemoveAt(waiting, i)
  /\ UNCHANGED <<open, inside>>

Finish ==
  /\ inside # {}
  /\ inside' = {}
  /\ UNCHANGED <<open, waiting>>

(* Whoever has the slot loses it.                                           *)
Close ==
  /\ open
  /\ open' = FALSE
  /\ inside' = {}
  /\ waiting' = waiting

Next ==
  \/ \E c \in Calls : Arrive(c)
  \/ Admit
  \/ \E i \in DOMAIN waiting : GiveUp(i)
  \/ Finish
  \/ Close

Spec == Init /\ [][Next]_slotVars
=============================================================================
