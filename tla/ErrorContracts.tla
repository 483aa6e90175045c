--------------------------- MODULE ErrorContracts ---------------------------
(***************************************************************************)
(* The error contract generator: what errors.yaml it accepts, and how      *)
(* generate_python rewrites the directory of generated modules, file by    *)
(* file, with a crash between any two effects.                             *)
(*                                                                         *)
(* Nothing else writes the directory while the generator runs.  Between    *)
(* two runs errors.yaml may become anything, and somebody may write a      *)
(* module of their own into the directory, or over a generated one.  A     *)
(* generated module is smaller than a write buffer: write_text first       *)
(* truncates the file, then puts all of it there at once.                  *)
(***************************************************************************)
EXTENDS Integers, Sequences, FiniteSets

CONSTANTS
  Entries,    \* the entries errors.yaml may hold
  MaxErrors,  \* how many at a time
  ByHand,     \* the files of the directory somebody may write
  MaxByHand   \* how many of them there may be at a time

VARIABLES
  pc,       \* "idle", "writing", "cleaning", or "done" after a whole run
  text,     \* the entries of errors.yaml as the last run loaded them, in order
  at,       \* the write that run has come to
  opened,   \* has the file of that write been truncated?
  dir,      \* the generated package
  before    \* the package as that run found it, or as the next one will

vars == <<pc, text, at, opened, dir, before>>

-----------------------------------------------------------------------------
(* Entries.  A code is a word, or the word with _ERROR after it; a param is *)
(* named; the template references names.  `sound` stands for the checks on  *)
(* the text of an entry: the shape of its code, its required fields, the    *)
(* caps, and the characters of template and description.                    *)

Reserved == {"status"}     \* for RESERVED_PARAM_NAMES
Keywords == {"class"}
ParamNames == {"plain", "backend", "reason", "self", "__debug__", "super",
               "_leading", "model_config"} \cup Reserved \cup Keywords

Entry == [code : [word : STRING, suffixed : BOOLEAN],
          status : {"4xx", "5xx", "other"},
          param : ParamNames \cup {"none"},
          type : {"string", "integer", "unknown"},
          refs : SUBSET ParamNames,
          sound : BOOLEAN]

ASSUME EntriesAssumption == \A e \in Entries : e \in Entry
ASSUME BoundsAssumption == MaxErrors \in Nat /\ MaxByHand \in Nat

Texts == UNION { [1 .. n -> Entries] : n \in 0 .. MaxErrors }
Words == { e.code.word : e \in Entries }
EntriesOf(t) == { t[i] : i \in DOMAIN t }

Package == <<"package", "init">>
Registry == <<"package", "registry">>
Other == <<"package", "other">>   \* a name that no code gives
Files == ({"error", "params"} \X Words) \cup {Package, Registry, Other}

ASSUME ByHandAssumption == ByHand \subseteq Files

(* _code_to_class_name adds Error only where it is not there already, and   *)
(* the class names the files.                                               *)
ClassOf(code) == code.word
ErrorFile(e) == <<"error", ClassOf(e.code)>>
ParamsFile(e) == <<"params", ClassOf(e.code)>>

Absent == [state |-> "absent", from |-> <<>>]
Empty == [state |-> "empty", from |-> <<>>]
Whole(from) == [state |-> "whole", from |-> from]   \* rendered from entries

(* What somebody writes: a module that starts as they like, one that starts *)
(* like a generated one (a copy they edited), or a file that read_text      *)
(* cannot read.                                                             *)
Written == [state |-> "written", from |-> <<>>]
Marked == [state |-> "marked", from |-> <<>>]
Garbled == [state |-> "garbled", from |-> <<>>]
HandWritten == {Written, Marked, Garbled}

Declared(e) == {e.param} \ {"none"}

-----------------------------------------------------------------------------
(* Seeded bugs: what a plausible slip would make of the definition each is  *)
(* named after, for checking that the properties notice it.                 *)

ClassesDifferAsCodes(t) == \A i, j \in DOMAIN t : t[i].code = t[j].code => i = j

PartsErrorFirst(t, i) ==
  IF i > Len(t) THEN <<"package", "registry">>
  ELSE IF t[i].param = "none" THEN <<"error">>
  ELSE <<"error", "params">>

SentinelAnywhere(f) == dir[f].state \in {"whole", "marked", "written"}

SentinelErrorsOnly(f) == dir[f].state \in {"whole", "marked"} /\ f[1] = "error"

UnlinkTruncates(f) == dir' = [dir EXCEPT ![f].state = "empty"]

-----------------------------------------------------------------------------
(* load_and_validate.                                                       *)

StatusSound(e) == e.status # "other"

ParamsSound(e) ==
  e.param = "none" \/ (e.type # "unknown" /\ e.param \notin Reserved \cup Keywords)

(* The string params of a 5xx that are allowed: enumerations.               *)
PiiSafe == {"ADAPTER_CONNECTION_FAILURE"} \X {"backend", "reason"}

NoFreeText(e) ==
  \/ e.status # "5xx" \/ e.param = "none" \/ e.type # "string"
  \/ <<e.code.word, e.param>> \in PiiSafe /\ ~e.code.suffixed

TemplateSound(e) == e.refs = Declared(e)

ClassesDiffer(t) ==
  \A i, j \in DOMAIN t : ClassOf(t[i].code) = ClassOf(t[j].code) => i = j

(* Two entries of one code have one class, so the test for duplicate keys   *)
(* needs no conjunct of its own.                                            *)
Accepted(t) ==
  /\ \A e \in EntriesOf(t) :
       e.sound /\ StatusSound(e) /\ ParamsSound(e) /\ NoFreeText(e) /\ TemplateSound(e)
  /\ ClassesDiffer(t)

-----------------------------------------------------------------------------
(* generate_python.                                                         *)

(* The modules written for entry i, in order: params go before the error    *)
(* that imports them.  After the entries come the package and the registry. *)
Parts(t, i) ==
  IF i > Len(t) THEN <<"package", "registry">>
  ELSE IF t[i].param = "none" THEN <<"error">>
  ELSE <<"params", "error">>

Start == [entry |-> 1, part |-> 1]

After(t, a) ==
  IF a.part < Len(Parts(t, a.entry)) THEN [a EXCEPT !.part = @ + 1]
  ELSE [entry |-> a.entry + 1, part |-> 1]

File(t, i, part) ==
  CASE part = "package"  -> Package
    [] part = "registry" -> Registry
    [] part = "params"   -> ParamsFile(t[i])
    [] part = "error"    -> ErrorFile(t[i])

Target == File(text, at.entry, Parts(text, at.entry)[at.part])

(* What write_text puts there.                                              *)
Source == IF at.entry > Len(text) THEN text ELSE <<text[at.entry]>>

WithParams(t) == { e \in EntriesOf(t) : e.param # "none" }

Keep(t) ==
  {Package, Registry} \cup { ErrorFile(e) : e \in EntriesOf(t) }
    \cup { ParamsFile(e) : e \in WithParams(t) }

(* The directory a run leaves that finds none.                              *)
Generated(t) ==
  [f \in Files |->
     IF f \in {Package, Registry} THEN Whole(t)
     ELSE IF f \in Keep(t)
     THEN Whole(<<CHOOSE e \in EntriesOf(t) : f \in {ErrorFile(e), ParamsFile(e)}>>)
     ELSE Absent]

(* The package is committed: it starts out generated from some errors.yaml. *)
Init ==
  /\ pc = "idle"
  /\ text \in { t \in Texts : Accepted(t) }
  /\ at = Start
  /\ opened = FALSE
  /\ dir = Generated(text)
  /\ before = dir

(* Somebody writes a module.                                                *)
WriteByHand(f, module) ==
  /\ pc \in {"idle", "done"}
  /\ Cardinality({ g \in Files \ {f} : dir[g] \in HandWritten }) < MaxByHand
  /\ dir' = [dir EXCEPT ![f] = module]
  /\ before' = dir'
  /\ pc' = "idle"
  /\ UNCHANGED <<text, at, opened>>

(* A text that is not accepted raises before anything is written.           *)
Generate(t) ==
  /\ pc \in {"idle", "done"}
  /\ Accepted(t)
  /\ text' = t
  /\ at' = Start
  /\ pc' = "writing"
  /\ before' = dir
  /\ UNCHANGED <<opened, dir>>

(* write_text truncates ...                                                 *)
Open ==
  /\ pc = "writing" /\ ~opened
  /\ opened' = TRUE
  /\ dir' = [dir EXCEPT ![Target] = Empty]
  /\ UNCHANGED <<pc, text, at, before>>

(* ... and fills the file.                                                  *)
Fill ==
  /\ opened
  /\ opened' = FALSE
  /\ dir' = [dir EXCEPT ![Target] = Whole(Source)]
  /\ at' = After(text, at)
  /\ pc' = IF at'.entry > Len(text) + 1 THEN "cleaning" ELSE "writing"
  /\ UNCHANGED <<text, before>>

(* Can the file be read, has it a first line, and does that start like      *)
(* those of the generator?                                                  *)
Sentinel(f) == dir[f].state \in {"whole", "marked"}

Unlink(f) == dir' = [dir EXCEPT ![f] = Absent]

Orphans == { f \in Files \ Keep(text) : Sentinel(f) }

Clean ==
  /\ pc = "cleaning"
  /\ \/ /\ \E f \in Orphans : Unlink(f)
        /\ pc' = pc
     \/ /\ Orphans = {}
        /\ pc' = "done"
        /\ UNCHANGED dir
  /\ UNCHANGED <<text, at, opened, before>>

(* The process is killed, or a write fails.                                 *)
Crash ==
  /\ pc \in {"writing", "cleaning"}
  /\ pc' = "idle"
  /\ opened' = FALSE
  /\ at' = Start
  /\ before' = dir
  /\ UNCHANGED <<text, dir>>

Next ==
  \/ \E t \in Texts : Generate(t)
  \/ Open \/ Fill \/ Clean \/ Crash
  \/ \E f \in ByHand, module \in HandWritten : WriteByHand(f, module)

Spec == Init /\ [][Next]_vars

-----------------------------------------------------------------------------
(* Properties.                                                              *)

TypeOK ==
  /\ pc \in {"idle", "writing", "cleaning", "done"}
  /\ text \in Seq(Entries)
  /\ at \in [entry : 1..(Len(text) + 2), part : {1, 2}]
  /\ opened \in BOOLEAN
  /\ {dir, before} \subseteq
       [Files -> [state : {"absent", "empty", "whole", "written", "marked", "garbled"},
                  from : Seq(Entries)]]
  /\ \A f \in Files : dir[f].state # "whole" => dir[f].from = <<>>

(* What a whole module imports from its siblings.                           *)
Imports(f) ==
  LET modules == { ErrorFile(e) : e \in EntriesOf(dir[f].from) }
      params  == { ParamsFile(e) : e \in WithParams(dir[f].from) }
  IN  CASE f[1] = "error"  -> params
        [] f = Registry    -> modules
        [] f = Package     -> {Registry} \cup modules \cup params
        [] OTHER           -> {}

(* What an import of the package or of its registry can reach.              *)
Live == {Package, Registry} \cup Imports(Package) \cup Imports(Registry)

(* No import reached from the package ever names a module that is not       *)
(* there, at any moment of a run and after crashes at any moments: params   *)
(* go before the errors that use them, modules before the package and the   *)
(* registry, and nothing is removed before both have forgotten it.  (The    *)
(* module being written may be empty, and an orphan may miss its params.)   *)
NoDanglingImport ==
  \A f \in Live : dir[f].state = "whole" =>
    \A g \in Imports(f) : dir[g].state # "absent"

(* A run that ends repairs whatever a crash before it left: each code the   *)
(* registry lists leads to the module of that code, with its params, and no *)
(* two codes to one module.                                                 *)
RegistryTellsTruth ==
  pc = "done" =>
    /\ dir[Registry] = Whole(text) /\ dir[Package] = Whole(text)
    /\ \A e \in EntriesOf(text) :
         /\ dir[ErrorFile(e)] = Whole(<<e>>)
         /\ e.param # "none" => dir[ParamsFile(e)] = Whole(<<e>>)

(* A module that somebody wrote beside the generated ones, and that does    *)
(* not start like one, is as they left it at every moment of a run; only a  *)
(* name that errors.yaml gives a module of its own is not theirs.           *)
HandwrittenSurvives ==
  pc # "idle" => \A f \in Files \ Keep(text) :
    before[f] \in {Written, Garbled} => dir[f] = before[f]

(* Is the package what t generates?  (It may hold modules of somebody's     *)
(* own, and files a crash left empty.)                                      *)
UpToDate(d, t) ==
  /\ \A f \in Keep(t) : d[f] = Generated(t)[f]
  /\ \A f \in Files \ Keep(t) : d[f].state \notin {"whole", "marked"}

(* The drift check, task check:errors, generates over a clean checkout and  *)
(* fails if git sees a difference, or a file that is not tracked.  It fails *)
(* for every package that errors.yaml would not give, and for no other,     *)
(* whatever runs, crashes and hands the checked-in package comes from.      *)
DriftCheckIsExact ==
  pc = "done" => (dir = before <=> UpToDate(before, text))

(* Every error of a generated registry can be imported, raised, rendered    *)
(* and answered.  The generated __init__ takes self and the param, and      *)
(* calls super() and the params model, which has a field for the param if   *)
(* pydantic makes one of the annotation; the template finds its names among *)
(* the fields; and the handler adds them to those of the problem.           *)
AcceptedIsUsable ==
  pc = "done" => \A e \in EntriesOf(dir[Registry].from) :
    /\ e.param \notin {"self", "__debug__"} \cup Keywords   \* bound once, or not at all
    /\ e.param # "super"                                     \* hides the builtin
    /\ e.param \notin {"_leading", "model_config"}           \* no fields
    /\ e.refs \subseteq Declared(e)
    /\ e.param \notin Reserved
=============================================================================
