------------------------------ MODULE SipPackage ------------------------------
(***************************************************************************)
(* The E-ARK submission package, internal/eark: what BuildSIP puts into    *)
(* the ZIP, and what its METS and PREMIS files say about it.               *)
(*                                                                         *)
(* A file is a record that tells what it holds; its SHA-256 and its size   *)
(* are the file itself, marked: sums agree when the bytes do.  A name is   *)
(* [base, ext].                                                            *)
(***************************************************************************)
EXTENDS Integers, Sequences

Sha256(file) == [sha256 |-> file]
SizeOf(file) == [size |-> file]

\* replaceExt: what follows the last dot, or nothing, is replaced.
ReplaceExt(name, ext) == [base |-> name.base, ext |-> ext]

DataPath(name) == <<"representations", "rep-001", "data", name.base, name.ext>>
DublinCorePath == <<"metadata", "descriptive", "dc.xml">>
PremisPath == <<"metadata", "preservation", "premis.xml">>
MetsPath == <<"METS.xml">>

\* The pipeline sets neither the date nor the assigned user of the metadata.
MarshalDublinCore(meta) ==
  [kind |-> "dc", title |-> meta.number, identifier |-> meta.number,
   contributor |-> meta.assigned, date |-> meta.date]

PremisEvent(id, type, at) == [id |-> id, type |-> type, at |-> at]

WorkflowId(i) == <<"workflow", i - 1>>

\* The object is the document alone; creation is dated when the package is.
BuildPREMIS(id, name, sum, size, at, events, submitted) ==
  [kind |-> "premis",
   object |-> [id |-> id, name |-> name, sum |-> sum, size |-> size],
   events |-> <<PremisEvent(<<"creation">>, "creation", at)>>
                \o [i \in 1..Len(events) |->
                      PremisEvent(WorkflowId(i), events[i].action, events[i].at)]
                \o <<PremisEvent(<<"submission">>, "ingestion", submitted)>>]

FileRef(path, file) == [href |-> path, sum |-> Sha256(file), size |-> SizeOf(file)]

BuildRootMETS(id, dc, premis, refs, at) ==
  [kind |-> "mets", objid |-> id, created |-> at,
   refs |-> <<FileRef(DublinCorePath, dc), FileRef(PremisPath, premis)>> \o refs]

DataRefs(input) ==
  <<FileRef(DataPath(input.name), input.content)>>
    \o [i \in 1..Len(input.attachments) |->
          FileRef(DataPath(input.attachments[i].name), input.attachments[i].content)]

Entry(path, file) == [path |-> path, file |-> file]

\* The entries of the ZIP, in order, below the directory of the package.
BuildSIP(input, at, submitted) ==
  LET dc     == MarshalDublinCore(input.meta)
      premis == BuildPREMIS(input.id, input.name, Sha256(input.content),
                            SizeOf(input.content), at, input.events, submitted)
      mets   == BuildRootMETS(input.id, dc, premis, DataRefs(input), at)
  IN <<Entry(MetsPath, mets), Entry(DublinCorePath, dc), Entry(PremisPath, premis),
       Entry(DataPath(input.name), input.content)>>
       \o [i \in 1..Len(input.attachments) |->
             Entry(DataPath(input.attachments[i].name), input.attachments[i].content)]

-----------------------------------------------------------------------------
(* What a package is to be, independent of how it is built.                *)

FileAt(package, path) ==
  {package[i].file : i \in {j \in 1..Len(package) : package[j].path = path}}

\* The manifest is complete and true: METS names each other file once, with
\* the sum and the size of what is stored under that name.
ManifestMatches(package) ==
  \A mets \in FileAt(package, MetsPath) :
    /\ {package[i].path : i \in 1..Len(package)} \ {MetsPath}
         = {mets.refs[i].href : i \in 1..Len(mets.refs)}
    /\ \A i \in 1..Len(mets.refs) :
         FileAt(package, mets.refs[i].href) # {} /\
         \A file \in FileAt(package, mets.refs[i].href) :
           mets.refs[i].sum = Sha256(file) /\ mets.refs[i].size = SizeOf(file)

\* PREMIS describes the stored document and tells its history in order, each
\* event once: creation, the workflow, ingestion, which comes last in time.
HistoryIsTold(package, input) ==
  \A premis \in FileAt(package, PremisPath) :
    LET told == premis.events IN
    /\ FileAt(package, DataPath(input.name)) = {premis.object.sum.sha256}
    /\ Len(told) = Len(input.events) + 2
    /\ \A i, j \in 1..Len(told) : told[i].id = told[j].id => i = j
    /\ \A i \in 1..Len(told) : told[i].at <= told[Len(told)].at
    /\ \A i \in 1..Len(input.events) : told[i + 1].type = input.events[i].action
    /\ \A i \in 2..(Len(told) - 2) : told[i].at <= told[i + 1].at
=============================================================================
