-------------------------- MODULE MCErrorContracts --------------------------
(* Instances of ErrorContracts for TLC: errors of two classes, sound ones   *)
(* and one for each reason to refuse an errors.yaml.                        *)
EXTENDS ErrorContracts

MCEntry(word, suffixed, status, param, type, refs, sound) ==
  [code |-> [word |-> word, suffixed |-> suffixed], status |-> status,
   param |-> param, type |-> type, refs |-> refs, sound |-> sound]

ACF == "ADAPTER_CONNECTION_FAILURE"

Sound == {
  MCEntry("FOO", FALSE, "4xx", "plain", "string", {"plain"}, TRUE),
  MCEntry("FOO", TRUE, "5xx", "none", "string", {}, TRUE),
  MCEntry(ACF, FALSE, "5xx", "backend", "string", {"backend"}, TRUE)}

Refused == {
  MCEntry("FOO", FALSE, "other", "none", "string", {}, TRUE),
  MCEntry("FOO", FALSE, "4xx", "status", "integer", {"status"}, TRUE),
  MCEntry("FOO", FALSE, "4xx", "class", "integer", {"class"}, TRUE),
  MCEntry("FOO", FALSE, "5xx", "backend", "string", {"backend"}, TRUE),
  MCEntry(ACF, FALSE, "5xx", "plain", "string", {"plain"}, TRUE),
  MCEntry(ACF, FALSE, "4xx", "plain", "unknown", {"plain"}, TRUE),
  MCEntry(ACF, FALSE, "4xx", "none", "string", {"plain"}, TRUE),
  MCEntry(ACF, FALSE, "4xx", "plain", "integer", {}, TRUE),
  MCEntry(ACF, FALSE, "4xx", "none", "string", {}, FALSE)}

MCEntries == Sound \cup Refused

(* A name that FOO gives when it has a param, and that is free otherwise.   *)
MCByHand == {<<"params", "FOO">>}

(* Names that are accepted: of the first two, def __init__ is no Python.    *)
MCEntriesNames ==
  { MCEntry("FOO", FALSE, "4xx", name, "string", {name}, TRUE) :
      name \in {"self", "__debug__", "super", "_leading", "model_config"} }
=============================================================================
