------------------------ MODULE ErrorContractsProofs ------------------------
(***************************************************************************)
(* What holds of the generator's directory for any set of entries, any     *)
(* errors.yaml, any sequence of runs, whole or killed, and whatever is     *)
(* written by hand between them.                                           *)
(*                                                                         *)
(* GenInv is inductive.  NoDanglingImport is not so by itself: that the    *)
(* package and the registry may be written, and that orphans may go, rests *)
(* on how far the run has come (WritingInv, RepairedInv), and that what is *)
(* written stays on the classes of the entries being different.  What the  *)
(* run found rests on BeforeInv: it writes nothing but what it keeps, and  *)
(* removes nothing but what starts like its own.                           *)
(***************************************************************************)
EXTENDS ErrorContracts, SequenceTheorems, TLAPS

States == {"absent", "empty", "whole", "written", "marked", "garbled"}
Modules == [state : States, from : Seq(Entries)]
Directories == [Files -> Modules]

(* The states of what the cleanup takes for its own.                        *)
OwnStates == {"whole", "marked"}

(* Imports, Live and NoDanglingImport of any directory d.                   *)
ImportsOf(f, from) ==
  LET modules == { ErrorFile(e) : e \in EntriesOf(from) }
      params  == { ParamsFile(e) : e \in WithParams(from) }
  IN  CASE f[1] = "error"  -> params
        [] f = Registry    -> modules
        [] f = Package     -> {Registry} \cup modules \cup params
        [] OTHER           -> {}

Reach(d) == {Package, Registry} \cup ImportsOf(Package, d[Package].from)
                                \cup ImportsOf(Registry, d[Registry].from)

Unbroken(d) ==
  \A f \in Reach(d) : d[f].state = "whole" =>
    \A g \in ImportsOf(f, d[f].from) : d[g].state # "absent"

(* The modules of entry i of t are there as rendered.                       *)
Sound(d, t, i) ==
  /\ d[ErrorFile(t[i])] = Whole(<<t[i]>>)
  /\ t[i].param # "none" => d[ParamsFile(t[i])] = Whole(<<t[i]>>)

AllSound(d, t) == \A i \in 1..Len(t) : Sound(d, t, i)

(* Which write a run has come to, and what it has written before it.        *)
WritingInv ==
  pc = "writing" =>
    /\ at.entry \in 1..(Len(text) + 1)
    /\ at.part \in 1..Len(Parts(text, at.entry))
    /\ \A i \in 1..Len(text) : i < at.entry => Sound(dir, text, i)
    /\ at.part = 2 =>
         dir[File(text, at.entry, Parts(text, at.entry)[1])] = Whole(Source)

(* A run that has written everything leaves everything there.               *)
RepairedInv ==
  pc \in {"cleaning", "done"} =>
    AllSound(dir, text) /\ dir[Package] = Whole(text) /\ dir[Registry] = Whole(text)

(* What a run has done to the files that it does not keep: nothing, but     *)
(* remove some that start like its own, and at the end all of them.         *)
BeforeInv ==
  /\ pc = "idle" => dir = before
  /\ pc # "idle" => \A f \in Files \ Keep(text) :
       dir[f] = before[f] \/ (dir[f] = Absent /\ before[f].state \in OwnStates)
  /\ pc = "done" => \A f \in Files \ Keep(text) : dir[f].state \notin OwnStates

GenInv ==
  /\ TypeOK
  /\ ClassesDiffer(text)
  /\ opened => pc = "writing"
  /\ dir[Package].state # "absent" /\ dir[Registry].state # "absent"
  /\ WritingInv
  /\ RepairedInv
  /\ NoDanglingImport
  /\ BeforeInv

-----------------------------------------------------------------------------
(* Files and imports.                                                       *)

(* The files of an entry are two, and none of the three others.             *)
LEMMA FilesOfEntry ==
  ASSUME NEW e \in Entries
  PROVE  /\ ErrorFile(e) \in Files /\ ParamsFile(e) \in Files
         /\ ErrorFile(e) # ParamsFile(e)
         /\ ErrorFile(e) \notin {Package, Registry, Other}
         /\ ParamsFile(e) \notin {Package, Registry, Other}
  BY DEF ErrorFile, ParamsFile, ClassOf, Files, Words, Package, Registry, Other

LEMMA RootFiles ==
  Package \in Files /\ Registry \in Files /\ Package # Registry
  BY DEF Files, Package, Registry

(* Entries of different classes have no file in common.                     *)
LEMMA FilesDiffer ==
  ASSUME NEW d \in Entries, NEW e \in Entries, ClassOf(d.code) # ClassOf(e.code)
  PROVE  {ErrorFile(d), ParamsFile(d)} \cap {ErrorFile(e), ParamsFile(e)} = {}
  BY DEF ErrorFile, ParamsFile

LEMMA EntriesInText ==
  ASSUME NEW t \in Seq(Entries)
  PROVE  /\ EntriesOf(t) = { t[i] : i \in 1..Len(t) }
         /\ \A i \in 1..Len(t) : t[i] \in Entries
         /\ EntriesOf(t) \subseteq Entries
  BY DEF EntriesOf

LEMMA EntriesOfOne ==
  ASSUME NEW e \in Entries
  PROVE  EntriesOf(<<e>>) = {e}
  BY DEF EntriesOf

LEMMA ImportsByFile ==
  /\ \A t : ImportsOf(Registry, t) = { ErrorFile(e) : e \in EntriesOf(t) }
  /\ \A t : ImportsOf(Package, t) =
       {Registry} \cup { ErrorFile(e) : e \in EntriesOf(t) }
                  \cup { ParamsFile(e) : e \in WithParams(t) }
  /\ \A e \in Entries : \A t : ImportsOf(ErrorFile(e), t) = { ParamsFile(d) : d \in WithParams(t) }
  /\ \A e \in Entries : \A t : ImportsOf(ParamsFile(e), t) = {}
  <1>1. \A t : ImportsOf(Registry, t) = { ErrorFile(e) : e \in EntriesOf(t) }
    BY DEF ImportsOf, Registry, Package
  <1>2. \A t : ImportsOf(Package, t) =
       {Registry} \cup { ErrorFile(e) : e \in EntriesOf(t) }
                  \cup { ParamsFile(e) : e \in WithParams(t) }
    BY DEF ImportsOf, Registry, Package
  <1>3. \A e \in Entries : \A t :
          ImportsOf(ErrorFile(e), t) = { ParamsFile(d) : d \in WithParams(t) }
    <2>1. \A e \in Entries : ErrorFile(e)[1] = "error"
      BY DEF ErrorFile
    <2>2. QED
      BY <2>1, FilesOfEntry DEF ImportsOf
  <1>4. \A e \in Entries : \A t : ImportsOf(ParamsFile(e), t) = {}
    <2>1. \A e \in Entries : ParamsFile(e)[1] = "params"
      BY DEF ParamsFile
    <2>2. QED
      BY <2>1, FilesOfEntry DEF ImportsOf
  <1>5. QED
    BY <1>1, <1>2, <1>3, <1>4

(* What the modules of sound entries import is there, and is kept.          *)
LEMMA SoundImports ==
  ASSUME NEW d, NEW t \in Seq(Entries), AllSound(d, t),
         NEW f \in Keep(t) \ {Package, Registry},
         NEW g \in ImportsOf(f, d[f].from)
  PROVE  g \in Keep(t) /\ d[g].state = "whole"
  <1>1. PICK i \in 1..Len(t) : f \in {ErrorFile(t[i]), ParamsFile(t[i])}
    BY EntriesInText DEF Keep, WithParams
  <1>2. t[i] \in Entries /\ t[i] \in EntriesOf(t)
    BY EntriesInText
  <1>3. f = ErrorFile(t[i])
    BY <1>1, <1>2, ImportsByFile
  <1>4. d[f].from = <<t[i]>>
    <2>1. d[f] = Whole(<<t[i]>>)
      BY <1>3 DEF AllSound, Sound
    <2>2. QED
      BY <2>1 DEF Whole
  <1>5. g \in { ParamsFile(e) : e \in WithParams(<<t[i]>>) }
    BY <1>2, <1>3, <1>4, ImportsByFile
  <1>6. g = ParamsFile(t[i]) /\ t[i].param # "none"
    BY <1>2, <1>5, EntriesOfOne DEF WithParams
  <1>7. d[g] = Whole(<<t[i]>>)
    BY <1>6 DEF AllSound, Sound
  <1>8. QED
    BY <1>2, <1>6, <1>7 DEF Keep, WithParams, Whole

(* Everything kept is there.                                                *)
LEMMA SoundFiles ==
  ASSUME NEW d, NEW t \in Seq(Entries), AllSound(d, t),
         NEW f \in Keep(t) \ {Package, Registry}
  PROVE  d[f].state = "whole"
  <1>1. PICK i \in 1..Len(t) : \/ f = ErrorFile(t[i])
                               \/ f = ParamsFile(t[i]) /\ t[i].param # "none"
    BY EntriesInText DEF Keep, WithParams
  <1>2. d[f] = Whole(<<t[i]>>)
    BY <1>1 DEF AllSound, Sound
  <1>3. QED
    BY <1>2 DEF Whole

(* The package and the registry import what is kept.                        *)
LEMMA RootImports ==
  ASSUME NEW t
  PROVE  ImportsOf(Package, t) \cup ImportsOf(Registry, t) \subseteq Keep(t)
  BY ImportsByFile DEF Keep

(* Unbroken says of a directory what NoDanglingImport says of dir.          *)
LEMMA NoDanglingIsUnbroken ==
  /\ NoDanglingImport <=> Unbroken(dir)
  /\ NoDanglingImport' <=> Unbroken(dir')
  BY DEF NoDanglingImport, Unbroken, Reach, Live, Imports, ImportsOf

-----------------------------------------------------------------------------
(* The initial directory.                                                   *)

LEMMA GeneratedSound ==
  ASSUME NEW t \in Seq(Entries), ClassesDiffer(t)
  PROVE  AllSound(Generated(t), t)
  <1> SUFFICES ASSUME NEW i \in 1..Len(t)
               PROVE  Sound(Generated(t), t, i)
    BY DEF AllSound
  <1>1. t[i] \in Entries /\ t[i] \in EntriesOf(t)
    BY EntriesInText
  <1>2. ASSUME NEW f \in {ErrorFile(t[i]), ParamsFile(t[i])}, f \in Keep(t)
        PROVE  Generated(t)[f] = Whole(<<t[i]>>)
    <2> DEFINE Owner == CHOOSE e \in EntriesOf(t) : f \in {ErrorFile(e), ParamsFile(e)}
    <2>1. Owner \in EntriesOf(t) /\ f \in {ErrorFile(Owner), ParamsFile(Owner)}
      BY <1>1, <1>2
    <2>2. PICK j \in 1..Len(t) : Owner = t[j]
      BY <2>1, EntriesInText
    <2>3. ClassOf(t[j].code) = ClassOf(t[i].code)
      BY <1>1, <1>2, <2>1, <2>2, FilesDiffer, EntriesInText
    <2>4. Owner = t[i]
      BY <2>2, <2>3 DEF ClassesDiffer
    <2>5. f \in Files /\ f \notin {Package, Registry}
      BY <1>1, <1>2, FilesOfEntry
    <2>6. QED
      BY <1>2, <2>4, <2>5 DEF Generated
  <1>3. ErrorFile(t[i]) \in Keep(t)
    BY <1>1 DEF Keep
  <1>4. t[i].param # "none" => ParamsFile(t[i]) \in Keep(t)
    BY <1>1 DEF Keep, WithParams
  <1>5. QED
    BY <1>2, <1>3, <1>4 DEF Sound

LEMMA GeneratedType ==
  ASSUME NEW t \in Seq(Entries)
  PROVE  /\ Generated(t) \in Directories
         /\ \A f \in Files : Generated(t)[f].state # "whole" => Generated(t)[f].from = <<>>
         /\ \A f \in Files \ Keep(t) : Generated(t)[f] = Absent
  <1>1. ASSUME NEW f \in Files \ Keep(t)
        PROVE  Generated(t)[f] = Absent
    BY <1>1 DEF Generated, Keep
  <1>2. ASSUME NEW f \in Files
        PROVE  /\ Generated(t)[f] \in Modules
               /\ Generated(t)[f].state # "whole" => Generated(t)[f].from = <<>>
    <2>1. ASSUME NEW from \in Seq(Entries), Generated(t)[f] = Whole(from)
          PROVE  /\ Generated(t)[f] \in Modules
                 /\ Generated(t)[f].state # "whole" => Generated(t)[f].from = <<>>
      BY <2>1 DEF Whole, Modules, States
    <2>2. CASE f \in {Package, Registry}
      BY <2>1, <2>2, RootFiles DEF Generated
    <2>3. CASE f \in Keep(t) \ {Package, Registry}
      <3> DEFINE Owner == CHOOSE e \in EntriesOf(t) : f \in {ErrorFile(e), ParamsFile(e)}
      <3>1. Owner \in Entries
        BY <2>3, EntriesInText DEF Keep, WithParams
      <3>2. Generated(t)[f] = Whole(<<Owner>>)
        BY <1>2, <2>3 DEF Generated
      <3> HIDE DEF Owner
      <3>3. <<Owner>> \in Seq(Entries)
        BY <3>1
      <3>4. QED
        BY <2>1, <3>2, <3>3
    <2>4. CASE f \notin Keep(t)
      <3>1. Generated(t)[f] = Absent
        BY <1>1, <1>2, <2>4
      <3>2. <<>> \in Seq(Entries)
        OBVIOUS
      <3>3. QED
        BY <3>1, <3>2 DEF Absent, Modules, States
    <2>5. QED
      BY <2>2, <2>3, <2>4
  <1>3. QED
    BY <1>1, <1>2 DEF Directories, Generated

-----------------------------------------------------------------------------
(* The steps.                                                               *)

(* The write that a run has come to: an entry's params, its error module    *)
(* with the params there, the package, or the registry; and what follows.   *)
AtParams(e) ==
  /\ at.entry \in 1..Len(text) /\ e = text[at.entry] /\ e.param # "none"
  /\ Target = ParamsFile(e) /\ Source = <<e>>
  /\ After(text, at) = [entry |-> at.entry, part |-> 2]

AtError(e) ==
  /\ at.entry \in 1..Len(text) /\ e = text[at.entry]
  /\ e.param # "none" => dir[ParamsFile(e)] = Whole(<<e>>)
  /\ Target = ErrorFile(e) /\ Source = <<e>>
  /\ After(text, at) = [entry |-> at.entry + 1, part |-> 1]

AtPackage ==
  /\ at.entry = Len(text) + 1
  /\ Target = Package /\ Source = text
  /\ After(text, at) = [entry |-> at.entry, part |-> 2]

AtRegistry ==
  /\ at.entry = Len(text) + 1
  /\ dir[Package] = Whole(text)
  /\ Target = Registry /\ Source = text
  /\ After(text, at) = [entry |-> at.entry + 1, part |-> 1]

LEMMA WhereAt ==
  ASSUME GenInv, pc = "writing"
  PROVE  (\E e \in Entries : AtParams(e) \/ AtError(e)) \/ AtPackage \/ AtRegistry
  <1>1. /\ text \in Seq(Entries) /\ at \in [entry : 1..(Len(text) + 2), part : {1, 2}]
        /\ at.entry \in 1..(Len(text) + 1)
        /\ at.part \in 1..Len(Parts(text, at.entry))
        /\ at.part = 2 =>
             dir[File(text, at.entry, Parts(text, at.entry)[1])] = Whole(Source)
    BY DEF GenInv, TypeOK, WritingInv
  <1>2. at = [entry |-> at.entry, part |-> at.part]
    BY <1>1
  <1>3. CASE at.entry \in 1..Len(text)
    <2> DEFINE e == text[at.entry]
    <2>1. e \in Entries /\ Source = <<e>>
      BY <1>1, <1>3 DEF Source
    <2>2. CASE e.param = "none"
      <3>1. Parts(text, at.entry) = <<"error">>
        BY <1>3, <2>2 DEF Parts
      <3>2. at.part = 1
        BY <1>1, <3>1
      <3>3. Target = ErrorFile(e)
        BY <3>1, <3>2 DEF Target, File
      <3>4. After(text, at) = [entry |-> at.entry + 1, part |-> 1]
        BY <3>1, <3>2 DEF After
      <3>5. AtError(e)
        BY <1>3, <2>1, <2>2, <3>3, <3>4 DEF AtError
      <3>6. QED
        BY <2>1, <3>5
    <2>3. CASE e.param # "none"
      <3>1. Parts(text, at.entry) = <<"params", "error">>
        BY <1>3, <2>3 DEF Parts
      <3>2. CASE at.part = 1
        <4>1. Target = ParamsFile(e)
          BY <3>1, <3>2 DEF Target, File
        <4>2. After(text, at) = [entry |-> at.entry, part |-> 2]
          BY <1>2, <3>1, <3>2 DEF After
        <4>3. QED
          BY <1>3, <2>1, <2>3, <4>1, <4>2 DEF AtParams
      <3>3. CASE at.part = 2
        <4>1. Target = ErrorFile(e) /\ File(text, at.entry, Parts(text, at.entry)[1]) = ParamsFile(e)
          BY <3>1, <3>3 DEF Target, File
        <4>2. After(text, at) = [entry |-> at.entry + 1, part |-> 1]
          BY <3>1, <3>3 DEF After
        <4>3. QED
          BY <1>1, <1>3, <2>1, <3>3, <4>1, <4>2 DEF AtError
      <3>4. QED
        BY <1>1, <3>2, <3>3
    <2>4. QED
      BY <2>2, <2>3
  <1>4. CASE at.entry = Len(text) + 1
    <2>1. Parts(text, at.entry) = <<"package", "registry">> /\ Source = text
      BY <1>1, <1>4 DEF Parts, Source
    <2>2. CASE at.part = 1
      <3>1. Target = Package
        BY <2>1, <2>2 DEF Target, File
      <3>2. After(text, at) = [entry |-> at.entry, part |-> 2]
        BY <1>2, <2>1, <2>2 DEF After
      <3>3. QED
        BY <1>4, <2>1, <3>1, <3>2 DEF AtPackage
    <2>3. CASE at.part = 2
      <3>1. Target = Registry /\ File(text, at.entry, Parts(text, at.entry)[1]) = Package
        BY <2>1, <2>3 DEF Target, File
      <3>2. After(text, at) = [entry |-> at.entry + 1, part |-> 1]
        BY <2>1, <2>3 DEF After
      <3>3. QED
        BY <1>1, <1>4, <2>1, <2>3, <3>1, <3>2 DEF AtRegistry
    <2>4. QED
      BY <1>1, <2>2, <2>3
  <1>5. QED
    BY <1>1, <1>3, <1>4

(* Every write is to a file that the run keeps.                             *)
LEMMA TargetIsKept ==
  ASSUME GenInv, pc = "writing"
  PROVE  Target \in Files /\ Target \in Keep(text) /\ Source \in Seq(Entries)
  <1>1. text \in Seq(Entries)
    BY DEF GenInv, TypeOK
  <1>2. ASSUME NEW e \in Entries, AtParams(e) \/ AtError(e)
        PROVE  Target \in Files /\ Target \in Keep(text) /\ Source \in Seq(Entries)
    <2>1. /\ e \in EntriesOf(text) /\ Source = <<e>>
          /\ Target = ErrorFile(e) \/ (Target = ParamsFile(e) /\ e.param # "none")
      BY <1>1, <1>2, EntriesInText DEF AtParams, AtError
    <2>2. <<e>> \in Seq(Entries)
      OBVIOUS
    <2>3. Target \in Keep(text)
      BY <2>1 DEF Keep, WithParams
    <2>4. QED
      BY <2>1, <2>2, <2>3, FilesOfEntry
  <1>3. CASE AtPackage \/ AtRegistry
    BY <1>1, <1>3, RootFiles DEF AtPackage, AtRegistry, Keep
  <1>4. QED
    BY <1>2, <1>3, WhereAt

(* Writing a module of one entry leaves those of the others as they were.   *)
LEMMA OthersStaySound ==
  ASSUME NEW d \in Directories, NEW t \in Seq(Entries), ClassesDiffer(t),
         NEW i \in 1..Len(t), NEW j \in 1..Len(t), i # j,
         NEW f \in {ErrorFile(t[j]), ParamsFile(t[j])}, NEW v,
         Sound(d, t, i)
  PROVE  Sound([d EXCEPT ![f] = v], t, i)
  <1>1. t[i] \in Entries /\ t[j] \in Entries
    BY EntriesInText
  <1>2. ClassOf(t[i].code) # ClassOf(t[j].code)
    BY DEF ClassesDiffer
  <1>3. f # ErrorFile(t[i]) /\ f # ParamsFile(t[i])
    BY <1>1, <1>2, FilesDiffer
  <1>4. QED
    BY <1>1, <1>3, FilesOfEntry DEF Sound, Directories

(* Nor does writing the package or the registry touch any.                  *)
LEMMA RootsApart ==
  ASSUME NEW d \in Directories, NEW t \in Seq(Entries), NEW i \in 1..Len(t),
         NEW f \in {Package, Registry}, NEW v,
         Sound(d, t, i)
  PROVE  Sound([d EXCEPT ![f] = v], t, i)
  <1>1. t[i] \in Entries
    BY EntriesInText
  <1>2. QED
    BY <1>1, FilesOfEntry DEF Sound, Directories

(* A file that is emptied, or written by hand, breaks nothing: what         *)
(* imported it finds it, and it imports nothing generated.                  *)
LEMMA HandKeepsUnbroken ==
  ASSUME NEW d \in Directories, Unbroken(d), NEW f \in Files, NEW m,
         m.from = <<>>, m.state \notin {"absent", "whole"}
  PROVE  Unbroken([d EXCEPT ![f] = m])
  <1> DEFINE d2 == [d EXCEPT ![f] = m]
  <1>1. /\ d2[f].state \notin {"absent", "whole"} /\ d2[f].from = <<>>
        /\ \A g \in Files \ {f} : d2[g] = d[g]
    BY DEF Directories
  <1>2. EntriesOf(<<>>) = {} /\ WithParams(<<>>) = {}
    BY DEF EntriesOf, WithParams
  <1>3. ImportsOf(Package, <<>>) = {Registry} /\ ImportsOf(Registry, <<>>) = {}
    BY <1>2, ImportsByFile
  <1>4. Reach(d2) \subseteq Reach(d)
    BY <1>1, <1>3, RootFiles DEF Reach
  <1>5. ASSUME NEW g \in Reach(d2), d2[g].state = "whole", NEW h \in ImportsOf(g, d2[g].from)
        PROVE  d2[h].state # "absent"
    <2>1. g # f
      BY <1>1, <1>5
    <2>2. d2[g] = d[g]
      BY <2>1 DEF Directories
    <2>3. d[h].state # "absent"
      BY <1>4, <1>5, <2>2 DEF Unbroken
    <2>4. CASE h = f
      BY <1>1, <2>4
    <2>5. CASE h # f
      <3>1. d2[h] = d[h]
        BY <2>5 DEF Directories
      <3>2. QED
        BY <2>3, <3>1
    <2>6. QED
      BY <2>4, <2>5
  <1>6. QED
    BY <1>5 DEF Unbroken

(* A file may be filled if what it then imports is there, and so is what    *)
(* the modules import that it makes reachable.                              *)
LEMMA FillingKeepsUnbroken ==
  ASSUME NEW d \in Directories, Unbroken(d), NEW f \in Files, NEW from \in Seq(Entries),
         \A g \in ImportsOf(f, from) : d[g].state # "absent",
         f \in {Package, Registry} =>
           \A g \in ImportsOf(f, from) \ {Package, Registry} :
             \A h \in ImportsOf(g, d[g].from) : d[h].state # "absent"
  PROVE  Unbroken([d EXCEPT ![f] = Whole(from)])
  <1> DEFINE d2 == [d EXCEPT ![f] = Whole(from)]
  <1>1. d2[f].state = "whole" /\ d2[f].from = from
    BY DEF Directories, Whole
  <1>2. \A g : g # f => d2[g] = d[g]
    BY DEF Directories
  <1>3. \A h : d[h].state # "absent" => d2[h].state # "absent"
    BY <1>1, <1>2
  <1>4. ASSUME NEW g \in Reach(d2), d2[g].state = "whole", NEW h \in ImportsOf(g, d2[g].from)
        PROVE  d2[h].state # "absent"
    <2>1. CASE g = f
      BY <1>1, <1>3, <1>4, <2>1
    <2>2. CASE g # f /\ g \in Reach(d)
      BY <1>2, <1>3, <1>4, <2>2 DEF Unbroken
    <2>3. CASE g # f /\ g \notin Reach(d)
      <3>1. f \in {Package, Registry} /\ g \in ImportsOf(f, from)
        BY <1>1, <1>2, <1>4, <2>3 DEF Reach
      <3>2. g \notin {Package, Registry}
        BY <2>3 DEF Reach
      <3>3. QED
        BY <1>2, <1>3, <1>4, <2>3, <3>1, <3>2
    <2>4. QED
      BY <2>1, <2>2, <2>3
  <1>5. QED
    BY <1>4 DEF Unbroken

-----------------------------------------------------------------------------
(* The invariant.                                                           *)

LEMMA DirType ==
  ASSUME TypeOK
  PROVE  /\ dir \in Directories /\ before \in Directories /\ text \in Seq(Entries)
         /\ \A f \in Files : dir[f].state # "whole" => dir[f].from = <<>>
  BY DEF TypeOK, Directories, Modules, States

LEMMA TextsAreSequences == Texts \subseteq Seq(Entries)
  <1> SUFFICES ASSUME NEW t \in Texts PROVE t \in Seq(Entries)
    OBVIOUS
  <1>1. PICK n \in 0..MaxErrors : t \in [1..n -> Entries]
    BY DEF Texts
  <1>2. n \in Nat
    BY BoundsAssumption
  <1>3. QED
    BY <1>1, <1>2, SeqDef

LEMMA InitStep ==
  ASSUME Init
  PROVE  GenInv
  <1>1. text \in Seq(Entries) /\ ClassesDiffer(text) /\ dir = Generated(text)
    BY TextsAreSequences DEF Init, Accepted
  <1>2. AllSound(dir, text) /\ dir \in Directories
    BY <1>1, GeneratedSound, GeneratedType
  <1>3. dir[Package] = Whole(text) /\ dir[Registry] = Whole(text)
    BY <1>1, RootFiles DEF Generated
  <1>4. TypeOK
    <2>1. \A f \in Files : dir[f].state # "whole" => dir[f].from = <<>>
      BY <1>1, GeneratedType
    <2>2. at \in [entry : 1..(Len(text) + 2), part : {1, 2}]
      BY <1>1 DEF Init, Start
    <2>3. QED
      BY <1>1, <1>2, <2>1, <2>2 DEF Init, TypeOK, Directories, Modules, States
  <1>5. Unbroken(dir)
    <2>1. dir[Package].from = text /\ dir[Registry].from = text
      BY <1>3 DEF Whole
    <2>2. dir[Package].state = "whole" /\ dir[Registry].state = "whole"
      BY <1>3 DEF Whole
    <2>3. Reach(dir) \subseteq Keep(text)
      BY <2>1, RootImports DEF Reach, Keep
    <2>4. \A f \in Keep(text) : dir[f].state = "whole"
      BY <1>1, <1>2, <2>2, SoundFiles
    <2>5. ASSUME NEW f \in Reach(dir), NEW g \in ImportsOf(f, dir[f].from)
          PROVE  dir[g].state # "absent"
      <3>1. CASE f \in {Package, Registry}
        <4>1. g \in Keep(text)
          BY <2>1, <2>5, <3>1, RootImports
        <4>2. QED
          BY <2>4, <4>1
      <3>2. CASE f \notin {Package, Registry}
        <4>1. dir[g].state = "whole"
          BY <1>1, <1>2, <2>3, <2>5, <3>2, SoundImports
        <4>2. QED
          BY <4>1
      <3>3. QED
        BY <3>1, <3>2
    <2>6. QED
      BY <2>5 DEF Unbroken
  <1>6. QED
    BY <1>1, <1>3, <1>4, <1>5, NoDanglingIsUnbroken
       DEF Init, GenInv, WritingInv, RepairedInv, BeforeInv, Whole

LEMMA GenerateStep ==
  ASSUME GenInv, NEW t \in Texts, Generate(t)
  PROVE  GenInv'
  <1>1. /\ text' = t /\ at' = Start /\ pc' = "writing" /\ opened' = opened /\ dir' = dir
        /\ before' = dir /\ ClassesDiffer(t)
    BY DEF Generate, Accepted
  <1>2. t \in Seq(Entries)
    BY TextsAreSequences
  <1>3. TypeOK'
    <2>1. Start \in [entry : 1..(Len(t) + 2), part : {1, 2}]
      BY <1>2 DEF Start
    <2>2. QED
      BY <1>1, <1>2, <2>1 DEF GenInv, TypeOK
  <1>4. WritingInv'
    <2>1. Start.entry = 1 /\ Start.part = 1
      BY DEF Start
    <2>2. 1 \in 1..(Len(t) + 1) /\ 1 \in 1..Len(Parts(t, 1))
      BY <1>2 DEF Parts
    <2>3. QED
      BY <1>1, <1>2, <2>1, <2>2 DEF WritingInv
  <1>5. NoDanglingImport'
    BY <1>1, NoDanglingIsUnbroken DEF GenInv
  <1>6. QED
    BY <1>1, <1>3, <1>4, <1>5
       DEF GenInv, RepairedInv, BeforeInv

(* What entries sound so far have, another write does not take from them.   *)
LEMMA EarlierStaySound ==
  ASSUME GenInv, pc = "writing", NEW v, NEW i \in 1..Len(text), i < at.entry
  PROVE  Sound([dir EXCEPT ![Target] = v], text, i)
  <1>1. dir \in Directories /\ text \in Seq(Entries) /\ ClassesDiffer(text)
    BY DirType DEF GenInv
  <1>2. Sound(dir, text, i)
    BY DEF GenInv, WritingInv
  <1>3. ASSUME NEW e \in Entries, AtParams(e) \/ AtError(e)
        PROVE  Sound([dir EXCEPT ![Target] = v], text, i)
    <2>1. /\ at.entry \in 1..Len(text)
          /\ Target \in {ErrorFile(text[at.entry]), ParamsFile(text[at.entry])}
      BY <1>3 DEF AtParams, AtError
    <2>2. i # at.entry
      BY <1>1, <2>1
    <2>3. QED
      BY <1>1, <1>2, <2>1, <2>2, OthersStaySound
  <1>4. CASE AtPackage \/ AtRegistry
    BY <1>1, <1>2, <1>4, RootsApart DEF AtPackage, AtRegistry
  <1>5. QED
    BY <1>3, <1>4, WhereAt

(* A write is to nothing that the run does not keep.                        *)
LEMMA WritingKeepsBefore ==
  ASSUME GenInv, pc = "writing", pc' \in {"writing", "cleaning"}, text' = text,
         before' = before, NEW v, dir' = [dir EXCEPT ![Target] = v]
  PROVE  BeforeInv'
  <1>1. dir \in Directories /\ Target \in Keep(text)
    BY DirType, TargetIsKept DEF GenInv
  <1>2. \A f \in Files \ Keep(text) : dir'[f] = dir[f]
    BY <1>1 DEF Directories
  <1>3. QED
    BY <1>2 DEF GenInv, BeforeInv

LEMMA OpenStep ==
  ASSUME GenInv, Open
  PROVE  GenInv'
  <1>1. /\ pc = "writing" /\ pc' = pc /\ text' = text /\ at' = at /\ opened' = TRUE
        /\ dir' = [dir EXCEPT ![Target] = Empty] /\ before' = before
    BY DEF Open
  <1>2. dir \in Directories /\ before \in Directories /\ Target \in Files
    BY <1>1, DirType, TargetIsKept DEF GenInv
  <1>3. dir'[Target] = Empty /\ \A f : f # Target => dir'[f] = dir[f]
    BY <1>1, <1>2 DEF Directories
  <1>4. TypeOK'
    <2>1. Empty \in Modules
      BY DEF Empty, Modules, States
    <2>2. dir' \in Directories
      BY <1>1, <1>2, <2>1 DEF Directories
    <2>3. \A f \in Files : dir'[f].state # "whole" => dir'[f].from = <<>>
      <3>1. \A f \in Files : dir[f].state # "whole" => dir[f].from = <<>>
        BY DirType DEF GenInv
      <3>2. QED
        BY <1>3, <3>1 DEF Empty
    <2>4. QED
      BY <1>1, <1>2, <2>2, <2>3 DEF GenInv, TypeOK, Directories, Modules, States
  <1>5. WritingInv'
    <2>1. \A i \in 1..Len(text) : i < at.entry => Sound(dir', text, i)
      BY <1>1, EarlierStaySound
    <2>2. at.part = 2 =>
            dir'[File(text, at.entry, Parts(text, at.entry)[1])] = Whole(Source)
      <3> SUFFICES ASSUME at.part = 2
                   PROVE  dir'[File(text, at.entry, Parts(text, at.entry)[1])] = Whole(Source)
        OBVIOUS
      <3>1. dir[File(text, at.entry, Parts(text, at.entry)[1])] = Whole(Source)
        BY <1>1 DEF GenInv, WritingInv
      <3>2. File(text, at.entry, Parts(text, at.entry)[1]) # Target
        <4>1. at.part \in 1..Len(Parts(text, at.entry)) /\ text \in Seq(Entries)
              /\ at.entry \in 1..(Len(text) + 1)
          BY <1>1 DEF GenInv, TypeOK, WritingInv
        <4>2. CASE at.entry \in 1..Len(text)
          <5>1. text[at.entry] \in Entries
            BY <4>1, <4>2
          <5>2. Parts(text, at.entry) = <<"params", "error">>
            BY <4>1, <4>2 DEF Parts
          <5>3. /\ Target = ErrorFile(text[at.entry])
                /\ File(text, at.entry, Parts(text, at.entry)[1]) = ParamsFile(text[at.entry])
            BY <5>2 DEF Target, File
          <5>4. QED
            BY <5>1, <5>3, FilesOfEntry
        <4>3. CASE at.entry = Len(text) + 1
          <5>1. Parts(text, at.entry) = <<"package", "registry">>
            BY <4>1, <4>3 DEF Parts
          <5>2. Target = Registry /\ File(text, at.entry, Parts(text, at.entry)[1]) = Package
            BY <5>1 DEF Target, File
          <5>3. QED
            BY <5>2, RootFiles
        <4>4. QED
          BY <4>1, <4>2, <4>3
      <3>3. QED
        BY <1>3, <3>1, <3>2
    <2>3. Source' = Source
      BY <1>1 DEF Source
    <2>4. QED
      BY <1>1, <2>1, <2>2, <2>3 DEF GenInv, WritingInv
  <1>6. NoDanglingImport'
    BY <1>1, <1>2, HandKeepsUnbroken, NoDanglingIsUnbroken DEF GenInv, Empty
  <1>7. dir'[Package].state # "absent" /\ dir'[Registry].state # "absent"
    BY <1>3 DEF GenInv, Empty
  <1>8. BeforeInv'
    BY <1>1, WritingKeepsBefore
  <1>9. QED
    BY <1>1, <1>4, <1>5, <1>6, <1>7, <1>8 DEF GenInv, RepairedInv

(* What a run has written when Fill is done with a module.                  *)
LEMMA FilledSoFar ==
  ASSUME GenInv, Fill
  PROVE  WritingInv' /\ RepairedInv'
  <1> DEFINE Whither == IF at'.entry > Len(text) + 1 THEN "cleaning" ELSE "writing"
  <1>1. /\ pc = "writing" /\ text' = text /\ at' = After(text, at)
        /\ pc' = Whither
        /\ dir' = [dir EXCEPT ![Target] = Whole(Source)]
    BY DEF Fill, GenInv
  <1>2. /\ text \in Seq(Entries) /\ dir \in Directories
        /\ Target \in Files
    BY <1>1, DirType, TargetIsKept DEF GenInv
  <1>3. dir'[Target] = Whole(Source) /\ \A f : f # Target => dir'[f] = dir[f]
    BY <1>1, <1>2 DEF Directories
  <1>4. \A i \in 1..Len(text) : i < at.entry => Sound(dir', text, i)
    BY <1>1, EarlierStaySound
  <1>5. ASSUME NEW e \in Entries, AtParams(e)
        PROVE  WritingInv' /\ RepairedInv'
    <2>1. at' = [entry |-> at.entry, part |-> 2] /\ at.entry \in 1..Len(text)
          /\ e = text[at.entry] /\ e.param # "none"
      BY <1>1, <1>5 DEF AtParams
    <2>2. Parts(text, at.entry) = <<"params", "error">>
      BY <1>2, <2>1 DEF Parts
    <2>3. File(text, at.entry, Parts(text, at.entry)[1]) = Target
      BY <1>5, <2>1, <2>2 DEF File, AtParams
    <2>4. Source' = Source
      BY <1>1, <2>1 DEF Source
    <2>5. at'.entry = at.entry /\ at'.part = 2 /\ pc' = "writing"
      BY <1>1, <1>2, <2>1
    <2>6. 2 \in 1..Len(Parts(text, at.entry)) /\ at.entry \in 1..(Len(text) + 1)
      BY <1>2, <2>1, <2>2
    <2>7. QED
      BY <1>1, <1>3, <1>4, <2>3, <2>4, <2>5, <2>6 DEF WritingInv, RepairedInv
  <1>6. ASSUME NEW e \in Entries, AtError(e)
        PROVE  WritingInv' /\ RepairedInv'
    <2>1. /\ at' = [entry |-> at.entry + 1, part |-> 1] /\ at.entry \in 1..Len(text)
          /\ e = text[at.entry]
          /\ e.param # "none" => dir[ParamsFile(e)] = Whole(<<e>>)
          /\ Target = ErrorFile(e) /\ Source = <<e>>
      BY <1>1, <1>6 DEF AtError
    <2>2. Sound(dir', text, at.entry)
      BY <1>3, <2>1, FilesOfEntry DEF Sound
    <2>3. at'.entry = at.entry + 1 /\ at'.part = 1
      BY <2>1
    <2>4. \A i \in 1..Len(text) : i < at'.entry => Sound(dir', text, i)
      <3> SUFFICES ASSUME NEW i \in 1..Len(text), i < at'.entry
                   PROVE  Sound(dir', text, i)
        OBVIOUS
      <3>1. i < at.entry \/ i = at.entry
        BY <1>2, <2>1, <2>3
      <3>2. QED
        BY <1>4, <2>2, <3>1
    <2>5. pc' = "writing" /\ at'.entry \in 1..(Len(text) + 1)
      BY <1>1, <1>2, <2>1, <2>3
    <2>6. at'.part \in 1..Len(Parts(text, at'.entry)) /\ at'.part # 2
      <3>1. Parts(text, at'.entry) \in
              {<<"package", "registry">>, <<"error">>, <<"params", "error">>}
        BY DEF Parts
      <3>2. Len(Parts(text, at'.entry)) \in {1, 2}
        BY <3>1
      <3>3. QED
        BY <2>3, <3>2
    <2>7. WritingInv'
      BY <1>1, <2>4, <2>5, <2>6 DEF WritingInv
    <2>8. QED
      BY <2>5, <2>7 DEF RepairedInv
  <1>7. CASE AtPackage
    <2>1. at' = [entry |-> at.entry, part |-> 2] /\ at.entry = Len(text) + 1
          /\ Target = Package /\ Source = text
      BY <1>1, <1>7 DEF AtPackage
    <2>2. Parts(text, at.entry) = <<"package", "registry">>
      BY <1>2, <2>1 DEF Parts
    <2>3. File(text, at.entry, Parts(text, at.entry)[1]) = Target
      BY <2>1, <2>2 DEF File
    <2>4. Source' = Source
      BY <1>1, <2>1 DEF Source
    <2>5. at'.entry = at.entry /\ at'.part = 2 /\ pc' = "writing"
      BY <1>1, <1>2, <2>1
    <2>6. 2 \in 1..Len(Parts(text, at.entry)) /\ at.entry \in 1..(Len(text) + 1)
      <3>1. Len(Parts(text, at.entry)) = 2
        BY <2>2
      <3>2. Len(text) \in Nat
        BY <1>2
      <3>3. at.entry = Len(text) + 1
        BY <2>1
      <3>4. at.entry \in 1..(Len(text) + 1)
        BY <3>2, <3>3
      <3>5. QED
        BY <3>1, <3>4
    <2>7. QED
      BY <1>1, <1>3, <1>4, <2>3, <2>4, <2>5, <2>6 DEF WritingInv, RepairedInv
  <1>8. CASE AtRegistry
    <2>1. at'.entry = Len(text) + 2 /\ at.entry = Len(text) + 1
          /\ Target = Registry /\ Source = text /\ dir[Package] = Whole(text)
      BY <1>1, <1>2, <1>8 DEF AtRegistry
    <2>2. pc' = "cleaning"
      BY <1>1, <1>2, <2>1
    <2>3. AllSound(dir', text)
      BY <1>2, <1>4, <2>1 DEF AllSound
    <2>4. dir'[Package] = Whole(text) /\ dir'[Registry] = Whole(text)
      BY <1>3, <2>1, RootFiles
    <2>5. QED
      BY <1>1, <2>2, <2>3, <2>4 DEF WritingInv, RepairedInv
  <1>9. QED
    BY <1>1, <1>5, <1>6, <1>7, <1>8, WhereAt

(* Each module is filled when what it imports is there.                     *)
LEMMA FilledUnbroken ==
  ASSUME GenInv, Fill
  PROVE  Unbroken(dir')
  <1>1. /\ pc = "writing" /\ dir' = [dir EXCEPT ![Target] = Whole(Source)]
        /\ Unbroken(dir)
    BY NoDanglingIsUnbroken DEF Fill, GenInv
  <1>2. /\ text \in Seq(Entries) /\ dir \in Directories
        /\ Target \in Files /\ Source \in Seq(Entries)
    BY <1>1, DirType, TargetIsKept DEF GenInv
  <1>3. ASSUME NEW e \in Entries, AtParams(e)
        PROVE  Unbroken(dir')
    <2>1. Target = ParamsFile(e)
      BY <1>3 DEF AtParams
    <2>2. Target \notin {Package, Registry} /\ ImportsOf(Target, Source) = {}
      BY <2>1, FilesOfEntry, ImportsByFile
    <2>3. QED
      BY <1>1, <1>2, <2>2, FillingKeepsUnbroken
  <1>4. ASSUME NEW e \in Entries, AtError(e)
        PROVE  Unbroken(dir')
    <2>1. /\ Target = ErrorFile(e) /\ Source = <<e>>
          /\ e.param # "none" => dir[ParamsFile(e)] = Whole(<<e>>)
      BY <1>4 DEF AtError
    <2>2. Target \notin {Package, Registry}
      BY <2>1, FilesOfEntry
    <2>3. ASSUME NEW g \in ImportsOf(Target, Source)
          PROVE  dir[g].state # "absent"
      <3>1. g = ParamsFile(e) /\ e.param # "none"
        BY <2>1, <2>3, ImportsByFile, EntriesOfOne DEF WithParams
      <3>2. dir[g] = Whole(<<e>>)
        BY <2>1, <3>1
      <3>3. QED
        BY <3>2 DEF Whole
    <2>4. QED
      BY <1>1, <1>2, <2>2, <2>3, FillingKeepsUnbroken
  <1>5. CASE AtPackage \/ AtRegistry
    <2>1. Target \in {Package, Registry} /\ Source = text /\ at.entry = Len(text) + 1
      BY <1>5 DEF AtPackage, AtRegistry
    <2>2. AllSound(dir, text)
      BY <1>1, <1>2, <2>1 DEF GenInv, WritingInv, AllSound
    <2>3. ImportsOf(Target, Source) \subseteq Keep(text)
      BY <2>1, RootImports
    <2>4. \A g \in ImportsOf(Target, Source) : dir[g].state # "absent"
      <3> SUFFICES ASSUME NEW g \in Keep(text)
                   PROVE  dir[g].state # "absent"
        BY <2>3
      <3>1. CASE g \in {Package, Registry}
        BY <3>1 DEF GenInv
      <3>2. CASE g \notin {Package, Registry}
        <4>1. dir[g].state = "whole"
          BY <1>2, <2>2, <3>2, SoundFiles
        <4>2. QED
          BY <4>1
      <3>3. QED
        BY <3>1, <3>2
    <2>5. ASSUME NEW g \in ImportsOf(Target, Source) \ {Package, Registry},
                 NEW h \in ImportsOf(g, dir[g].from)
          PROVE  dir[h].state # "absent"
      <3>1. dir[h].state = "whole"
        BY <1>2, <2>2, <2>3, <2>5, SoundImports
      <3>2. QED
        BY <3>1
    <2>6. QED
      BY <1>1, <1>2, <2>4, <2>5, FillingKeepsUnbroken
  <1>6. QED
    BY <1>1, <1>3, <1>4, <1>5, WhereAt

LEMMA FillStep ==
  ASSUME GenInv, Fill
  PROVE  GenInv'
  <1>1. /\ pc = "writing" /\ text' = text /\ at' = After(text, at) /\ opened' = FALSE
        /\ pc' \in {"writing", "cleaning"}
        /\ dir' = [dir EXCEPT ![Target] = Whole(Source)] /\ before' = before
    BY DEF Fill, GenInv
  <1>2. /\ text \in Seq(Entries) /\ dir \in Directories /\ before \in Directories
        /\ Target \in Files /\ Source \in Seq(Entries)
    BY <1>1, DirType, TargetIsKept DEF GenInv
  <1>3. /\ dir'[Target] = Whole(Source)
        /\ \A f : f # Target => dir'[f] = dir[f]
    BY <1>1, <1>2 DEF Directories
  <1>4. TypeOK'
    <2>1. Whole(Source) \in Modules /\ Whole(Source).state = "whole"
      BY <1>2 DEF Whole, Modules, States
    <2>2. dir' \in Directories
      BY <1>1, <1>2, <2>1 DEF Directories
    <2>3. \A f \in Files : dir'[f].state # "whole" => dir'[f].from = <<>>
      BY <1>3, <2>1 DEF GenInv, TypeOK
    <2>4. at' \in [entry : 1..(Len(text) + 2), part : {1, 2}]
      <3>1. \/ at' = [entry |-> at.entry, part |-> 2]
            \/ at' = [entry |-> at.entry + 1, part |-> 1]
        BY <1>1, WhereAt DEF AtParams, AtError, AtPackage, AtRegistry
      <3>2. at.entry \in 1..(Len(text) + 1)
        BY <1>1 DEF GenInv, WritingInv
      <3>3. QED
        BY <1>2, <3>1, <3>2
    <2>5. QED
      BY <1>1, <1>2, <2>2, <2>3, <2>4 DEF TypeOK, Directories, Modules, States
  <1>5. NoDanglingImport'
    BY FilledUnbroken, NoDanglingIsUnbroken
  <1>6. dir'[Package].state # "absent" /\ dir'[Registry].state # "absent"
    BY <1>3 DEF GenInv, Whole
  <1>7. BeforeInv'
    BY <1>1, WritingKeepsBefore
  <1>8. QED
    BY <1>1, <1>4, <1>5, <1>6, <1>7, FilledSoFar DEF GenInv

(* Once the modules are written, all that can be reached is kept.           *)
LEMMA ReachIsKept ==
  ASSUME GenInv, pc \in {"cleaning", "done"}
  PROVE  /\ Reach(dir) \subseteq Keep(text)
         /\ \A f \in Reach(dir) : ImportsOf(f, dir[f].from) \subseteq Keep(text)
  <1>1. /\ AllSound(dir, text) /\ text \in Seq(Entries)
        /\ dir[Package].from = text /\ dir[Registry].from = text
    BY DirType DEF GenInv, RepairedInv, Whole
  <1>2. Reach(dir) \subseteq Keep(text)
    BY <1>1, RootImports DEF Reach, Keep
  <1>3. ASSUME NEW f \in Reach(dir), NEW g \in ImportsOf(f, dir[f].from)
        PROVE  g \in Keep(text)
    BY <1>1, <1>2, <1>3, RootImports, SoundImports
  <1>4. QED
    BY <1>2, <1>3

LEMMA CleanStep ==
  ASSUME GenInv, Clean
  PROVE  GenInv'
  <1>1. /\ pc = "cleaning" /\ text' = text /\ at' = at /\ opened' = opened
        /\ before' = before
        /\ text \in Seq(Entries) /\ dir \in Directories /\ before \in Directories
    BY DirType DEF Clean, GenInv
  <1>2. ASSUME NEW f \in Orphans, Unlink(f), pc' = pc
        PROVE  GenInv'
    <2>1. /\ f \in Files /\ f \notin Keep(text) /\ dir[f].state \in OwnStates
          /\ dir' = [dir EXCEPT ![f] = Absent]
      BY <1>2 DEF Orphans, Sentinel, Unlink, OwnStates
    <2>2. dir'[f] = Absent /\ \A g : g # f => dir'[g] = dir[g]
      BY <1>1, <2>1 DEF Directories
    <2>3. f \notin {Package, Registry}
      BY <2>1 DEF Keep
    <2>4. TypeOK'
      <3>1. Absent \in Modules /\ Absent.from = <<>>
        BY DEF Absent, Modules, States
      <3>2. dir' \in Directories
        BY <1>1, <2>1, <3>1 DEF Directories
      <3>3. \A g \in Files : dir'[g].state # "whole" => dir'[g].from = <<>>
        BY <2>2, <3>1 DEF GenInv, TypeOK
      <3>4. QED
        BY <1>1, <1>2, <3>2, <3>3 DEF GenInv, TypeOK, Directories, Modules, States
    <2>5. RepairedInv'
      <3>1. ASSUME NEW i \in 1..Len(text)
            PROVE  Sound(dir', text, i)
        <4>1. text[i] \in EntriesOf(text)
          BY <1>1, EntriesInText
        <4>2. ErrorFile(text[i]) # f /\ (text[i].param # "none" => ParamsFile(text[i]) # f)
          BY <2>1, <4>1 DEF Keep, WithParams
        <4>3. Sound(dir, text, i)
          BY <1>1 DEF GenInv, RepairedInv, AllSound
        <4>4. QED
          BY <2>2, <4>2, <4>3 DEF Sound
      <3>2. QED
        BY <1>1, <2>2, <2>3, <3>1 DEF GenInv, RepairedInv, AllSound
    <2>6. Unbroken(dir')
      <3>1. Reach(dir') = Reach(dir)
        BY <2>2, <2>3 DEF Reach
      <3>2. ASSUME NEW g \in Reach(dir), NEW h \in ImportsOf(g, dir'[g].from),
                   dir'[g].state = "whole"
            PROVE  dir'[h].state # "absent"
        <4>1. g # f
          BY <1>1, <2>1, ReachIsKept
        <4>2. dir'[g] = dir[g]
          BY <2>2, <4>1
        <4>3. h # f
          BY <1>1, <2>1, <3>2, <4>2, ReachIsKept
        <4>4. dir[h].state # "absent"
          BY <3>2, <4>2, NoDanglingIsUnbroken DEF GenInv, Unbroken
        <4>5. QED
          BY <2>2, <4>3, <4>4
      <3>3. QED
        BY <3>1, <3>2 DEF Unbroken
    <2>7. BeforeInv'
      <3>1. before[f].state \in OwnStates
        BY <1>1, <2>1 DEF GenInv, BeforeInv, Absent, OwnStates
      <3>2. QED
        BY <1>1, <1>2, <2>2, <3>1 DEF GenInv, BeforeInv
    <2>8. QED
      BY <1>1, <1>2, <2>2, <2>3, <2>4, <2>5, <2>6, <2>7, NoDanglingIsUnbroken
         DEF GenInv, WritingInv
  <1>3. ASSUME Orphans = {}, pc' = "done", dir' = dir
        PROVE  GenInv'
    <2>1. BeforeInv'
      BY <1>1, <1>3 DEF GenInv, BeforeInv, Orphans, Sentinel, OwnStates
    <2>2. TypeOK'
      BY <1>1, <1>3 DEF GenInv, TypeOK
    <2>3. NoDanglingImport'
      BY <1>3, NoDanglingIsUnbroken DEF GenInv
    <2>4. QED
      BY <1>1, <1>3, <2>1, <2>2, <2>3
         DEF GenInv, WritingInv, RepairedInv
  <1>4. QED
    BY <1>2, <1>3 DEF Clean

LEMMA CrashStep ==
  ASSUME GenInv, Crash
  PROVE  GenInv'
  <1>1. /\ pc' = "idle" /\ text' = text /\ at' = Start /\ opened' = FALSE
        /\ dir' = dir /\ before' = dir
    BY DEF Crash
  <1>2. TypeOK'
    <2>1. text \in Seq(Entries)
      BY DEF GenInv, TypeOK
    <2>2. Start \in [entry : 1..(Len(text) + 2), part : {1, 2}]
      BY <2>1 DEF Start
    <2>3. QED
      BY <1>1, <2>2 DEF GenInv, TypeOK
  <1>3. NoDanglingImport'
    BY <1>1, NoDanglingIsUnbroken DEF GenInv
  <1>4. QED
    BY <1>1, <1>2, <1>3
       DEF GenInv, WritingInv, RepairedInv, BeforeInv

(* A module written by hand imports nothing generated, and what imported    *)
(* the file finds one there.                                                *)
LEMMA HandStep ==
  ASSUME GenInv, NEW f \in Files, NEW module \in HandWritten, WriteByHand(f, module)
  PROVE  GenInv'
  <1>1. /\ pc' = "idle" /\ text' = text /\ at' = at /\ opened' = opened
        /\ dir' = [dir EXCEPT ![f] = module] /\ before' = dir'
        /\ pc \in {"idle", "done"}
    BY DEF WriteByHand
  <1>2. /\ module \in Modules /\ module.from = <<>>
        /\ module.state \notin {"absent", "whole"}
    <2>1. module \in {Written, Marked, Garbled}
      BY DEF HandWritten
    <2>2. PICK state \in {"written", "marked", "garbled"} :
            module = [state |-> state, from |-> <<>>]
      BY <2>1 DEF Written, Marked, Garbled
    <2>3. <<>> \in Seq(Entries)
      OBVIOUS
    <2>4. state \in States
      BY <2>2 DEF States
    <2>5. module \in Modules
      BY <2>2, <2>3, <2>4 DEF Modules
    <2>6. QED
      BY <2>2, <2>5
  <1>3. /\ dir \in Directories /\ text \in Seq(Entries)
        /\ dir'[f] = module /\ \A g : g # f => dir'[g] = dir[g]
    BY <1>1, DirType DEF GenInv, Directories
  <1>4. TypeOK'
    <2>1. dir' \in Directories
      BY <1>1, <1>2, <1>3 DEF Directories
    <2>2. \A g \in Files : dir'[g].state # "whole" => dir'[g].from = <<>>
      <3>1. \A g \in Files : dir[g].state # "whole" => dir[g].from = <<>>
        BY DirType DEF GenInv
      <3>2. QED
        BY <1>2, <1>3, <3>1
    <2>3. QED
      BY <1>1, <2>1, <2>2 DEF GenInv, TypeOK, Directories, Modules, States
  <1>5. NoDanglingImport'
    BY <1>1, <1>2, <1>3, HandKeepsUnbroken, NoDanglingIsUnbroken DEF GenInv
  <1>6. dir'[Package].state # "absent" /\ dir'[Registry].state # "absent"
    BY <1>2, <1>3 DEF GenInv
  <1>7. QED
    BY <1>1, <1>4, <1>5, <1>6 DEF GenInv, WritingInv, RepairedInv, BeforeInv

-----------------------------------------------------------------------------
(* The theorems.                                                            *)

(* The parts of the invariant hold of every reachable directory.            *)
THEOREM GenInvariant == Spec => []GenInv
  <1>1. GenInv /\ [Next]_vars => GenInv'
    <2> SUFFICES ASSUME GenInv, [Next]_vars PROVE GenInv'
      OBVIOUS
    <2>1. CASE UNCHANGED vars
      <3>1. /\ pc' = pc /\ text' = text /\ at' = at /\ opened' = opened /\ dir' = dir
            /\ before' = before
        BY <2>1 DEF vars
      <3>2. NoDanglingImport'
        BY <3>1, NoDanglingIsUnbroken DEF GenInv
      <3>3. WritingInv' /\ RepairedInv'
        BY <3>1 DEF GenInv, WritingInv, RepairedInv, Source
      <3>4. QED
        BY <3>1, <3>2, <3>3 DEF GenInv, TypeOK, BeforeInv
    <2>2. QED
      BY <2>1, GenerateStep, OpenStep, FillStep, CleanStep, CrashStep, HandStep,
         ByHandAssumption DEF Next
  <1>2. QED
    BY <1>1, InitStep, PTL DEF Spec

(* For any set of entries, every variable stays in its range.               *)
THEOREM GenTypes == Spec => []TypeOK
  BY GenInvariant, PTL DEF GenInv

(* For any errors.yaml and any crashes, no import reached from the package  *)
(* names a module that is not there.                                        *)
THEOREM ImportsNeverDangle == Spec => []NoDanglingImport
  <1>1. GenInv => NoDanglingImport
    BY DEF GenInv
  <1>2. QED
    BY <1>1, GenInvariant, PTL

(* For any errors.yaml and whatever was there before, a whole run leaves    *)
(* the modules its registry names.                                          *)
THEOREM WholeRunsRepair == Spec => []RegistryTellsTruth
  <1>1. GenInv => RegistryTellsTruth
    <2> SUFFICES ASSUME GenInv, pc = "done" PROVE RegistryTellsTruth!2
      BY DEF RegistryTellsTruth
    <2>1. AllSound(dir, text) /\ text \in Seq(Entries)
          /\ dir[Package] = Whole(text) /\ dir[Registry] = Whole(text)
      BY DirType DEF GenInv, RepairedInv
    <2>2. QED
      BY <2>1, EntriesInText DEF AllSound, Sound
  <1>2. QED
    BY <1>1, GenInvariant, PTL

(* For any errors.yaml, and whatever was there, a run leaves each module    *)
(* that errors.yaml gives no name to, and that does not start like one of   *)
(* the generator, as it found it.                                           *)
THEOREM HandwrittenIsSpared == Spec => []HandwrittenSurvives
  <1>1. GenInv => HandwrittenSurvives
    BY DEF GenInv, BeforeInv, HandwrittenSurvives, Written, Garbled, OwnStates
  <1>2. QED
    BY <1>1, GenInvariant, PTL

(* A whole run leaves of what errors.yaml names what it alone would give.   *)
LEMMA KeptIsGenerated ==
  ASSUME GenInv, pc = "done", NEW f \in Keep(text)
  PROVE  dir[f] = Generated(text)[f]
  <1>1. /\ AllSound(dir, text) /\ text \in Seq(Entries) /\ ClassesDiffer(text)
        /\ dir[Package] = Whole(text) /\ dir[Registry] = Whole(text)
    BY DirType DEF GenInv, RepairedInv
  <1>2. CASE f \in {Package, Registry}
    BY <1>1, <1>2, RootFiles DEF Generated
  <1>3. CASE f \notin {Package, Registry}
    <2>1. PICK i \in 1..Len(text) : \/ f = ErrorFile(text[i])
                                    \/ f = ParamsFile(text[i]) /\ text[i].param # "none"
      BY <1>1, <1>3, EntriesInText DEF Keep, WithParams
    <2>2. dir[f] = Whole(<<text[i]>>)
      BY <1>1, <2>1 DEF AllSound, Sound
    <2>3. Generated(text)[f] = Whole(<<text[i]>>)
      BY <1>1, <2>1, GeneratedSound DEF AllSound, Sound
    <2>4. QED
      BY <2>2, <2>3
  <1>4. QED
    BY <1>2, <1>3

(* For any errors.yaml, and whatever runs, crashes and hands the checked-in *)
(* package comes from, generating leaves it as it is exactly when it is     *)
(* what errors.yaml gives.                                                  *)
THEOREM DriftChecksAreExact == Spec => []DriftCheckIsExact
  <1>1. ASSUME GenInv, pc = "done"
        PROVE  dir = before <=> UpToDate(before, text)
    <2>1. dir \in Directories /\ before \in Directories
      BY <1>1, DirType DEF GenInv
    <2>2. ASSUME dir = before
          PROVE  UpToDate(before, text)
      BY <1>1, <2>2, KeptIsGenerated DEF GenInv, BeforeInv, UpToDate, OwnStates
    <2>3. ASSUME UpToDate(before, text)
          PROVE  dir = before
      <3>1. ASSUME NEW f \in Files, f \in Keep(text)
            PROVE  dir[f] = before[f]
        BY <1>1, <2>3, <3>1, KeptIsGenerated DEF UpToDate
      <3>2. ASSUME NEW f \in Files, f \notin Keep(text)
            PROVE  dir[f] = before[f]
        BY <1>1, <2>3, <3>2 DEF GenInv, BeforeInv, UpToDate, OwnStates
      <3>3. QED
        BY <2>1, <3>1, <3>2 DEF Directories
    <2>4. QED
      BY <2>2, <2>3
  <1>2. GenInv => DriftCheckIsExact
    BY <1>1 DEF DriftCheckIsExact
  <1>3. QED
    BY <1>2, GenInvariant, PTL

(* Whatever was generated before, and however runs were cut short, a whole  *)
(* run leaves the very directory that its errors.yaml alone would give.     *)
(* The one trace there can be of the past is a file the run found that does *)
(* not start like its own: somebody's module, or one that a crash emptied.  *)
THEOREM GeneratingIsReproducible ==
  Spec => [](pc = "done" =>
               \A f \in Files :
                 \/ dir[f] = Generated(text)[f]
                 \/ /\ f \notin Keep(text)
                    /\ dir[f] = before[f]
                    /\ dir[f] \in {Empty, Written, Garbled})
  <1>1. ASSUME GenInv, pc = "done", NEW f \in Files, f \notin Keep(text)
        PROVE  \/ dir[f] = Generated(text)[f]
               \/ dir[f] = before[f] /\ dir[f] \in {Empty, Written, Garbled}
    <2>1. text \in Seq(Entries) /\ dir \in Directories
      BY <1>1, DirType DEF GenInv
    <2>2. Generated(text)[f] = Absent
      BY <1>1, <2>1, GeneratedType
    <2>3. /\ dir[f] = before[f] \/ dir[f] = Absent
          /\ dir[f].state \notin {"whole", "marked"}
      BY <1>1 DEF GenInv, BeforeInv, OwnStates
    <2>4. dir[f].from = <<>>
      BY <1>1, <2>3 DEF GenInv, TypeOK
    <2>5. dir[f] \in Modules
      BY <2>1 DEF Directories
    <2>6. dir[f] \in {Absent, Empty, Written, Garbled}
      BY <2>3, <2>4, <2>5 DEF Modules, States, Absent, Empty, Written, Garbled
    <2>7. QED
      BY <2>2, <2>3, <2>6
  <1>2. GenInv => (pc = "done" =>
                     \A f \in Files :
                       \/ dir[f] = Generated(text)[f]
                       \/ /\ f \notin Keep(text)
                          /\ dir[f] = before[f]
                          /\ dir[f] \in {Empty, Written, Garbled})
    BY <1>1, KeptIsGenerated
  <1>3. QED
    BY <1>2, GenInvariant, PTL
=============================================================================
