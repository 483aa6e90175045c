---------------------------- MODULE ResourceScope ---------------------------
(***************************************************************************)
(* The contract a lifespan-managed resource gives its users, with nothing  *)
(* of how it is kept: the resource is offered, withdrawn, and only then    *)
(* released, once each, and a user is handed it only while it is offered.  *)
(***************************************************************************)
CONSTANT Users

VARIABLES
  phase,   \* of the resource
  holds    \* what each user has of it

scopeVars == <<phase, holds>>

Phases == {"absent", "offered", "withdrawn", "released"}
Holdings == {"nothing", "asked", "handle", "refusal", "left"}

Init ==
  /\ phase = "absent"
  /\ holds = [u \in Users |-> "nothing"]

Advance(from, to) ==
  /\ phase = from
  /\ phase' = to
  /\ UNCHANGED holds

Turn(u, from, to) ==
  /\ holds[u] = from
  /\ holds' = [holds EXCEPT ![u] = to]
  /\ UNCHANGED phase

Hand(u)   == phase = "offered" /\ Turn(u, "asked", "handle")
Refuse(u) == phase # "offered" /\ Turn(u, "asked", "refusal")
Leave(u)  == Turn(u, "asked", "left") \/ Turn(u, "handle", "left")

Next ==
  \/ Advance("absent", "offered")
  \/ Advance("offered", "withdrawn")
  \/ Advance("withdrawn", "released")
  \/ \E u \in Users : Turn(u, "nothing", "asked") \/ Hand(u) \/ Refuse(u) \/ Leave(u)

Spec == Init /\ [][Next]_scopeVars
=============================================================================
