------------------------------- MODULE SipProofs -------------------------------
(***************************************************************************)
(* What BuildSIP makes, for every input: which files a package holds, when *)
(* its manifest is true of them and when its history is.                   *)
(***************************************************************************)
EXTENDS SipPackage, SequenceTheorems, TLAPS

\* A function on 1..n is a sequence of length n.
LEMMA FunctionIsSeq ==
  ASSUME NEW S, NEW n \in Nat, NEW f \in [1..n -> S]
  PROVE  f \in Seq(S) /\ Len(f) = n
<1>1. f \in Seq(S)
  BY SeqDef
<1>2. DOMAIN f = 1..n /\ DOMAIN f = 1..Len(f) /\ Len(f) \in Nat
  BY <1>1, LenProperties
<1> QED BY <1>1, <1>2

-----------------------------------------------------------------------------
(* Sequences that are put together with \o.                                *)

\* A row of n elements behind the elements of s.
LEMMA Behind ==
  ASSUME NEW S, NEW s \in Seq(S), NEW T, NEW n \in Nat, NEW f \in [1..n -> T]
  PROVE  /\ s \o f \in Seq(S \cup T)
         /\ Len(s \o f) = Len(s) + n
         /\ \A i \in 1..Len(s) : (s \o f)[i] = s[i]
         /\ \A i \in 1..n : (s \o f)[Len(s) + i] = f[i]
<1>1. s \in Seq(S \cup T)
  BY SeqMonotonic
<1>2. f \in [1..n -> S \cup T]
  OBVIOUS
<1>3. f \in Seq(S \cup T) /\ Len(f) = n
  BY <1>2, FunctionIsSeq
<1>5. Len(s) \in Nat
  BY LenProperties
<1>6. /\ s \o f \in Seq(S \cup T)
      /\ Len(s \o f) = Len(s) + n
      /\ \A i \in 1..Len(s) + n : (s \o f)[i] = IF i <= Len(s) THEN s[i] ELSE f[i - Len(s)]
  BY <1>1, <1>3, ConcatProperties
<1>7. \A i \in 1..n : (s \o f)[Len(s) + i] = f[i]
  BY <1>5, <1>6
<1> QED BY <1>5, <1>6, <1>7

LEMMA BehindOne ==
  ASSUME NEW a, NEW n \in Nat, NEW T, NEW f \in [1..n -> T], NEW g, g = <<a>> \o f
  PROVE  /\ \E U : g \in [1..(n + 1) -> U]
         /\ Len(g) = n + 1
         /\ g[1] = a
         /\ \A i \in 1..n : g[i + 1] = f[i]
<1>1. <<a>> \in Seq({a}) /\ Len(<<a>>) = 1 /\ <<a>>[1] = a
  OBVIOUS
<1>2. <<a>> \o f \in Seq({a} \cup T) /\ Len(<<a>> \o f) = n + 1
  BY <1>1, Behind
<1>3. <<a>> \o f \in [1..(n + 1) -> {a} \cup T]
  BY <1>2, LenProperties
<1>4. (<<a>> \o f)[1] = a /\ \A i \in 1..n : (<<a>> \o f)[i + 1] = f[i]
  BY <1>1, Behind
<1> QED BY <1>2, <1>3, <1>4

LEMMA BehindTwo ==
  ASSUME NEW a, NEW b, NEW n \in Nat, NEW T, NEW f \in [1..n -> T]
  PROVE  /\ Len(<<a, b>> \o f) = n + 2
         /\ (<<a, b>> \o f)[1] = a
         /\ (<<a, b>> \o f)[2] = b
         /\ \A i \in 1..n : (<<a, b>> \o f)[i + 2] = f[i]
<1>1. <<a, b>> \in Seq({a, b}) /\ Len(<<a, b>>) = 2 /\ <<a, b>>[1] = a /\ <<a, b>>[2] = b
  OBVIOUS
<1>2. PICK s : s = <<a, b>>
  OBVIOUS
<1>3. PICK S : s \in Seq(S)
  BY <1>1, <1>2
<1>4. Len(s) = 2
  BY <1>1, <1>2
<1>5. /\ Len(s \o f) = Len(s) + n
      /\ \A i \in 1..Len(s) : (s \o f)[i] = s[i]
      /\ \A i \in 1..n : (s \o f)[Len(s) + i] = f[i]
  BY <1>3, Behind
<1>6. (s \o f)[1] = s[1] /\ (s \o f)[2] = s[2]
  BY <1>4, <1>5
<1>7. \A i \in 1..n : (s \o f)[i + 2] = f[i]
  BY <1>4, <1>5
<1> QED BY <1>1, <1>2, <1>4, <1>5, <1>6, <1>7

LEMMA BehindFour ==
  ASSUME NEW a, NEW b, NEW c, NEW d, NEW n \in Nat, NEW T, NEW f \in [1..n -> T]
  PROVE  /\ Len(<<a, b, c, d>> \o f) = n + 4
         /\ (<<a, b, c, d>> \o f)[1] = a
         /\ (<<a, b, c, d>> \o f)[2] = b
         /\ (<<a, b, c, d>> \o f)[3] = c
         /\ (<<a, b, c, d>> \o f)[4] = d
         /\ \A i \in 1..n : (<<a, b, c, d>> \o f)[i + 4] = f[i]
<1>1. /\ <<a, b, c, d>> \in Seq({a, b, c, d}) /\ Len(<<a, b, c, d>>) = 4
      /\ <<a, b, c, d>>[1] = a /\ <<a, b, c, d>>[2] = b
      /\ <<a, b, c, d>>[3] = c /\ <<a, b, c, d>>[4] = d
  OBVIOUS
<1>2. PICK s : s = <<a, b, c, d>>
  OBVIOUS
<1>3. PICK S : s \in Seq(S)
  BY <1>1, <1>2
<1>4. Len(s) = 4
  BY <1>1, <1>2
<1>5. /\ Len(s \o f) = Len(s) + n
      /\ \A i \in 1..Len(s) : (s \o f)[i] = s[i]
      /\ \A i \in 1..n : (s \o f)[Len(s) + i] = f[i]
  BY <1>3, Behind
<1>6. /\ (s \o f)[1] = s[1] /\ (s \o f)[2] = s[2] /\ (s \o f)[3] = s[3]
      /\ (s \o f)[4] = s[4]
  BY <1>4, <1>5
<1>7. \A i \in 1..n : (s \o f)[i + 4] = f[i]
  BY <1>4, <1>5
<1> QED BY <1>1, <1>2, <1>4, <1>5, <1>6, <1>7

-----------------------------------------------------------------------------
(* The paths of a package.                                                 *)

LEMMA PathsDiffer ==
  /\ MetsPath # DublinCorePath /\ MetsPath # PremisPath /\ DublinCorePath # PremisPath
  /\ \A name : /\ DataPath(name) # MetsPath
               /\ DataPath(name) # DublinCorePath
               /\ DataPath(name) # PremisPath
<1>1. Len(MetsPath) = 1 /\ Len(DublinCorePath) = 3 /\ Len(PremisPath) = 3
      /\ DublinCorePath[2] = "descriptive" /\ PremisPath[2] = "preservation"
  BY DEF MetsPath, DublinCorePath, PremisPath
<1>2. \A name : Len(DataPath(name)) = 5
  BY DEF DataPath
<1>3. "descriptive" # "preservation"
  OBVIOUS
<1> QED BY <1>1, <1>2, <1>3

\* The files of a package that are not about others: the document, which is
\* number 0, and the attachments.
Data(input, i) ==
  IF i = 0 THEN [name |-> input.name, content |-> input.content]
           ELSE input.attachments[i]

Premis(input, at, submitted) ==
  BuildPREMIS(input.id, input.name, Sha256(input.content), SizeOf(input.content), at,
              input.events, submitted)

Mets(input, at, submitted) ==
  BuildRootMETS(input.id, MarshalDublinCore(input.meta), Premis(input, at, submitted),
                DataRefs(input), at)

LEMMA Entries ==
  ASSUME NEW A, NEW input, input.attachments \in Seq(A), NEW at, NEW submitted,
         NEW package, package = BuildSIP(input, at, submitted)
  PROVE  /\ Len(package) = Len(input.attachments) + 4
         /\ package[1] = Entry(MetsPath, Mets(input, at, submitted))
         /\ package[2] = Entry(DublinCorePath, MarshalDublinCore(input.meta))
         /\ package[3] = Entry(PremisPath, Premis(input, at, submitted))
         /\ \A i \in 0..Len(input.attachments) :
              package[i + 4] = Entry(DataPath(Data(input, i).name), Data(input, i).content)
<1>1. PICK n \in Nat : n = Len(input.attachments)
  BY LenProperties
<1>2. PICK f : f = [i \in 1..Len(input.attachments) |->
                     Entry(DataPath(input.attachments[i].name), input.attachments[i].content)]
  OBVIOUS
<1>3. PICK T : T = {Entry(DataPath(input.attachments[i].name), input.attachments[i].content) :
                      i \in 1..n}
  OBVIOUS
<1>4. f \in [1..n -> T]
  BY <1>1, <1>2, <1>3
<1>5. PICK a, b, c, d :
        /\ a = Entry(MetsPath, Mets(input, at, submitted))
        /\ b = Entry(DublinCorePath, MarshalDublinCore(input.meta))
        /\ c = Entry(PremisPath, Premis(input, at, submitted))
        /\ d = Entry(DataPath(input.name), input.content)
  OBVIOUS
<1>6. package = <<a, b, c, d>> \o f
  BY <1>2, <1>5 DEF BuildSIP, Mets, Premis
<1>7. /\ Len(package) = n + 4 /\ package[1] = a /\ package[2] = b /\ package[3] = c
      /\ package[4] = d /\ \A i \in 1..n : package[i + 4] = f[i]
  BY <1>4, <1>6, BehindFour
<1>8. \A i \in 1..n : f[i] = Entry(DataPath(Data(input, i).name), Data(input, i).content)
  BY <1>1, <1>2 DEF Data
<1>9. d = Entry(DataPath(Data(input, 0).name), Data(input, 0).content)
  BY <1>5 DEF Data
<1>10. \A i \in 0..n :
         package[i + 4] = Entry(DataPath(Data(input, i).name), Data(input, i).content)
  <2> SUFFICES ASSUME NEW i \in 0..n
               PROVE  package[i + 4] = Entry(DataPath(Data(input, i).name),
                                             Data(input, i).content)
    OBVIOUS
  <2>1. CASE i = 0
    BY <1>7, <1>9, <2>1
  <2>2. CASE i \in 1..n
    BY <1>7, <1>8, <2>2
  <2> QED BY <2>1, <2>2
<1> QED BY <1>1, <1>5, <1>7, <1>10

LEMMA References ==
  ASSUME NEW A, NEW input, input.attachments \in Seq(A), NEW at, NEW submitted,
         NEW refs, refs = Mets(input, at, submitted).refs
  PROVE  /\ Len(refs) = Len(input.attachments) + 3
         /\ refs[1] = FileRef(DublinCorePath, MarshalDublinCore(input.meta))
         /\ refs[2] = FileRef(PremisPath, Premis(input, at, submitted))
         /\ \A i \in 0..Len(input.attachments) :
              refs[i + 3] = FileRef(DataPath(Data(input, i).name), Data(input, i).content)
<1>1. PICK n \in Nat : n = Len(input.attachments)
  BY LenProperties
<1>2. PICK f : f = [i \in 1..Len(input.attachments) |->
                     FileRef(DataPath(input.attachments[i].name), input.attachments[i].content)]
  OBVIOUS
<1>3. PICK T : T = {FileRef(DataPath(input.attachments[i].name), input.attachments[i].content) :
                      i \in 1..n}
  OBVIOUS
<1>4. f \in [1..n -> T]
  BY <1>1, <1>2, <1>3
<1>5. PICK a, b, c :
        /\ a = FileRef(DublinCorePath, MarshalDublinCore(input.meta))
        /\ b = FileRef(PremisPath, Premis(input, at, submitted))
        /\ c = FileRef(DataPath(input.name), input.content)
  OBVIOUS
<1>6. refs = <<a, b>> \o (<<c>> \o f)
  BY <1>2, <1>5 DEF Mets, BuildRootMETS, DataRefs
<1>7. PICK g : g = <<c>> \o f
  OBVIOUS
<1>8. /\ \E U : g \in [1..(n + 1) -> U]
      /\ g[1] = c /\ \A i \in 1..n : g[i + 1] = f[i]
  <2>1. \E U : g \in [1..(n + 1) -> U]
    BY <1>4, <1>7, BehindOne, Zenon
  <2>2. g[1] = c /\ \A i \in 1..n : g[i + 1] = f[i]
    BY <1>4, <1>7, BehindOne, SMT
  <2> QED BY <2>1, <2>2
<1>9. PICK m \in Nat : m = n + 1
  OBVIOUS
<1>10. PICK U : g \in [1..m -> U]
  BY <1>8, <1>9
<1>11. /\ Len(refs) = m + 2 /\ refs[1] = a /\ refs[2] = b
       /\ \A i \in 1..m : refs[i + 2] = g[i]
  <2>1. refs = <<a, b>> \o g
    BY <1>6, <1>7
  <2> QED BY <2>1, <1>10, BehindTwo
<1>12. \A i \in 1..n : f[i] = FileRef(DataPath(Data(input, i).name), Data(input, i).content)
  BY <1>1, <1>2 DEF Data
<1>13. c = FileRef(DataPath(Data(input, 0).name), Data(input, 0).content)
  BY <1>5 DEF Data
<1>14. \A i \in 0..n :
         refs[i + 3] = FileRef(DataPath(Data(input, i).name), Data(input, i).content)
  <2> SUFFICES ASSUME NEW i \in 0..n
               PROVE  refs[i + 3] = FileRef(DataPath(Data(input, i).name),
                                            Data(input, i).content)
    OBVIOUS
  <2>1. refs[i + 3] = g[i + 1]
    <3>1. i + 1 \in 1..m /\ (i + 1) + 2 = i + 3
      BY <1>9
    <3> QED BY <3>1, <1>11
  <2>2. CASE i = 0
    BY <1>8, <1>13, <2>1, <2>2
  <2>3. CASE i \in 1..n
    BY <1>8, <1>12, <2>1, <2>3
  <2> QED BY <2>2, <2>3
<1> QED BY <1>1, <1>5, <1>9, <1>11, <1>14

\* A file of the package that is not the manifest.
Beside(input, at, submitted, path, file) ==
  \/ path = DublinCorePath /\ file = MarshalDublinCore(input.meta)
  \/ path = PremisPath /\ file = Premis(input, at, submitted)
  \/ \E i \in 0..Len(input.attachments) :
       path = DataPath(Data(input, i).name) /\ file = Data(input, i).content

\* Data files of one name are one file.
SameNameSameFile(input) ==
  \A i, j \in 0..Len(input.attachments) :
    DataPath(Data(input, i).name) = DataPath(Data(input, j).name)
      => Data(input, i).content = Data(input, j).content

LEMMA EntryFields ==
  \A path, file : Entry(path, file).path = path /\ Entry(path, file).file = file
BY DEF Entry

LEMMA AtPath ==
  ASSUME NEW package, NEW path
  PROVE  \A file : file \in FileAt(package, path) <=>
           \E j \in 1..Len(package) : package[j].path = path /\ package[j].file = file
BY DEF FileAt

\* What is at each path of a package.
LEMMA Files ==
  ASSUME NEW A, NEW input, input.attachments \in Seq(A), NEW at, NEW submitted,
         NEW package, package = BuildSIP(input, at, submitted),
         NEW path, NEW file
  PROVE  file \in FileAt(package, path) <=>
           \/ path = MetsPath /\ file = Mets(input, at, submitted)
           \/ Beside(input, at, submitted, path, file)
<1>1. PICK n \in Nat : n = Len(input.attachments)
  BY LenProperties
<1>2. PICK p, f :
        /\ p = [i \in 0..n |-> DataPath(Data(input, i).name)]
        /\ f = [i \in 0..n |-> Data(input, i).content]
  OBVIOUS
<1>3. PICK mets, dc, premis :
        /\ mets = Mets(input, at, submitted) /\ dc = MarshalDublinCore(input.meta)
        /\ premis = Premis(input, at, submitted)
  OBVIOUS
<1>4. /\ Len(package) = n + 4
      /\ package[1] = Entry(MetsPath, mets)
      /\ package[2] = Entry(DublinCorePath, dc)
      /\ package[3] = Entry(PremisPath, premis)
      /\ \A i \in 0..n : package[i + 4] = Entry(p[i], f[i])
  <2>1. Len(package) = Len(input.attachments) + 4
    BY Entries
  <2>2. package[1] = Entry(MetsPath, Mets(input, at, submitted))
    BY Entries
  <2>3. package[2] = Entry(DublinCorePath, MarshalDublinCore(input.meta))
    BY Entries
  <2>4. package[3] = Entry(PremisPath, Premis(input, at, submitted))
    BY Entries
  <2>5. \A i \in 0..Len(input.attachments) :
          package[i + 4] = Entry(DataPath(Data(input, i).name), Data(input, i).content)
    BY Entries
  <2>6. \A i \in 0..n : package[i + 4] = Entry(p[i], f[i])
    <3> SUFFICES ASSUME NEW i \in 0..n PROVE package[i + 4] = Entry(p[i], f[i])
      OBVIOUS
    <3>1. p[i] = DataPath(Data(input, i).name) /\ f[i] = Data(input, i).content
      BY <1>2
    <3>2. package[i + 4] = Entry(DataPath(Data(input, i).name), Data(input, i).content)
      BY <1>1, <2>5
    <3> QED BY <3>1, <3>2
  <2> QED BY <1>1, <1>3, <2>1, <2>2, <2>3, <2>4, <2>6
<1>5. /\ package[1].path = MetsPath /\ package[1].file = mets
      /\ package[2].path = DublinCorePath /\ package[2].file = dc
      /\ package[3].path = PremisPath /\ package[3].file = premis
      /\ \A i \in 0..n : package[i + 4].path = p[i] /\ package[i + 4].file = f[i]
  <2>1. package[1].path = MetsPath /\ package[1].file = mets
    BY <1>4, EntryFields
  <2>2. package[2].path = DublinCorePath /\ package[2].file = dc
    BY <1>4, EntryFields
  <2>3. package[3].path = PremisPath /\ package[3].file = premis
    BY <1>4, EntryFields
  <2>4. \A i \in 0..n : package[i + 4].path = p[i] /\ package[i + 4].file = f[i]
    BY <1>4, EntryFields
  <2> QED BY <2>1, <2>2, <2>3, <2>4
<1>6. file \in FileAt(package, path) <=>
        \E j \in 1..(n + 4) : package[j].path = path /\ package[j].file = file
  BY <1>4, AtPath
<1>7. \A j \in 1..(n + 4) : j = 1 \/ j = 2 \/ j = 3 \/ \E i \in 0..n : j = i + 4
  <2> SUFFICES ASSUME NEW j \in 1..(n + 4), j # 1, j # 2, j # 3
               PROVE  \E i \in 0..n : j = i + 4
    OBVIOUS
  <2>1. j - 4 \in 0..n /\ j = (j - 4) + 4
    OBVIOUS
  <2> QED BY <2>1
<1>8. /\ 1 \in 1..(n + 4) /\ 2 \in 1..(n + 4) /\ 3 \in 1..(n + 4)
      /\ \A i \in 0..n : i + 4 \in 1..(n + 4)
  OBVIOUS
<1>9. file \in FileAt(package, path) <=>
        \/ path = MetsPath /\ file = mets
        \/ path = DublinCorePath /\ file = dc
        \/ path = PremisPath /\ file = premis
        \/ \E i \in 0..n : path = p[i] /\ file = f[i]
  <2>1. ASSUME NEW j \in 1..(n + 4), package[j].path = path, package[j].file = file
        PROVE  \/ path = MetsPath /\ file = mets
               \/ path = DublinCorePath /\ file = dc
               \/ path = PremisPath /\ file = premis
               \/ \E i \in 0..n : path = p[i] /\ file = f[i]
    BY <1>5, <1>7, <2>1
  <2>2. ASSUME \/ path = MetsPath /\ file = mets
               \/ path = DublinCorePath /\ file = dc
               \/ path = PremisPath /\ file = premis
               \/ \E i \in 0..n : path = p[i] /\ file = f[i]
        PROVE  \E j \in 1..(n + 4) : package[j].path = path /\ package[j].file = file
    <3>1. CASE path = MetsPath /\ file = mets
      BY <1>5, <1>8, <3>1
    <3>2. CASE path = DublinCorePath /\ file = dc
      BY <1>5, <1>8, <3>2
    <3>3. CASE path = PremisPath /\ file = premis
      BY <1>5, <1>8, <3>3
    <3>4. ASSUME NEW i \in 0..n, path = p[i], file = f[i]
          PROVE  \E j \in 1..(n + 4) : package[j].path = path /\ package[j].file = file
      <4>1. i + 4 \in 1..(n + 4) /\ package[i + 4].path = path /\ package[i + 4].file = file
        BY <1>5, <1>8, <3>4
      <4> QED BY <4>1
    <3> QED BY <2>2, <3>1, <3>2, <3>3, <3>4
  <2> QED BY <1>6, <2>1, <2>2
<1>10. \A i \in 0..n : p[i] = DataPath(Data(input, i).name) /\ f[i] = Data(input, i).content
  BY <1>2
<1> QED BY <1>1, <1>3, <1>9, <1>10 DEF Beside

LEMMA RefFields ==
  \A path, file : /\ FileRef(path, file).href = path
                  /\ FileRef(path, file).sum = Sha256(file)
                  /\ FileRef(path, file).size = SizeOf(file)
BY DEF FileRef

\* References to the other files, all of them and nothing else.
Lists(refs, input, at, submitted) ==
  \A ref : (\E i \in 1..Len(refs) : refs[i] = ref) <=>
    \E path, file : Beside(input, at, submitted, path, file) /\ ref = FileRef(path, file)

\* What the manifest lists.
LEMMA Listed ==
  ASSUME NEW A, NEW input, input.attachments \in Seq(A), NEW at, NEW submitted,
         NEW refs, refs = Mets(input, at, submitted).refs
  PROVE  Lists(refs, input, at, submitted)
<1> SUFFICES ASSUME NEW ref
             PROVE  (\E i \in 1..Len(refs) : refs[i] = ref) <=>
                      \E path, file : /\ Beside(input, at, submitted, path, file)
                                     /\ ref = FileRef(path, file)
  BY DEF Lists
<1>1. PICK n \in Nat : n = Len(input.attachments)
  BY LenProperties
<1>2. PICK r : r = [i \in 0..n |-> FileRef(DataPath(Data(input, i).name), Data(input, i).content)]
  OBVIOUS
<1>3. PICK a, b : /\ a = FileRef(DublinCorePath, MarshalDublinCore(input.meta))
                  /\ b = FileRef(PremisPath, Premis(input, at, submitted))
  OBVIOUS
<1>4. Len(refs) = n + 3
  BY <1>1, References
<1>5. refs[1] = a
  BY <1>3, References
<1>6. refs[2] = b
  BY <1>3, References
<1>7. ASSUME NEW i \in 0..n PROVE refs[i + 3] = r[i]
  <2>1. \A k \in 0..Len(input.attachments) :
          refs[k + 3] = FileRef(DataPath(Data(input, k).name), Data(input, k).content)
    BY References
  <2>2. refs[i + 3] = FileRef(DataPath(Data(input, i).name), Data(input, i).content)
    BY <1>1, <2>1
  <2> QED BY <1>2, <2>2
<1>8. \A j \in 1..(n + 3) : j = 1 \/ j = 2 \/ \E i \in 0..n : j = i + 3
  <2> SUFFICES ASSUME NEW j \in 1..(n + 3), j # 1, j # 2
               PROVE  \E i \in 0..n : j = i + 3
    OBVIOUS
  <2>1. j - 3 \in 0..n /\ j = (j - 3) + 3
    OBVIOUS
  <2> QED BY <2>1
<1>9. 1 \in 1..(n + 3) /\ 2 \in 1..(n + 3) /\ \A i \in 0..n : i + 3 \in 1..(n + 3)
  OBVIOUS
<1>10. (\E i \in 1..(n + 3) : refs[i] = ref)
         <=> ref = a \/ ref = b \/ \E i \in 0..n : ref = r[i]
  <2>1. ASSUME NEW j \in 1..(n + 3), refs[j] = ref
        PROVE  ref = a \/ ref = b \/ \E i \in 0..n : ref = r[i]
    BY <1>5, <1>6, <1>7, <1>8, <2>1
  <2>2. ASSUME ref = a \/ ref = b \/ \E i \in 0..n : ref = r[i]
        PROVE  \E i \in 1..(n + 3) : refs[i] = ref
    <3>1. CASE ref = a
      BY <1>5, <1>9, <3>1
    <3>2. CASE ref = b
      BY <1>6, <1>9, <3>2
    <3>3. ASSUME NEW i \in 0..n, ref = r[i]
          PROVE  \E k \in 1..(n + 3) : refs[k] = ref
      <4>1. i + 3 \in 1..(n + 3) /\ refs[i + 3] = ref
        BY <1>7, <1>9, <3>3
      <4> QED BY <4>1
    <3> QED BY <2>2, <3>1, <3>2, <3>3
  <2> QED BY <2>1, <2>2
<1>11. ASSUME NEW path, NEW file, Beside(input, at, submitted, path, file),
              ref = FileRef(path, file)
       PROVE  ref = a \/ ref = b \/ \E i \in 0..n : ref = r[i]
  <2>1. CASE path = DublinCorePath /\ file = MarshalDublinCore(input.meta)
    BY <1>3, <1>11, <2>1
  <2>2. CASE path = PremisPath /\ file = Premis(input, at, submitted)
    BY <1>3, <1>11, <2>2
  <2>3. ASSUME NEW i \in 0..Len(input.attachments), path = DataPath(Data(input, i).name),
               file = Data(input, i).content
        PROVE  \E k \in 0..n : ref = r[k]
    BY <1>1, <1>2, <1>11, <2>3
  <2> QED BY <1>11, <2>1, <2>2, <2>3 DEF Beside
<1>12. Beside(input, at, submitted, DublinCorePath, MarshalDublinCore(input.meta))
  BY DEF Beside
<1>13. Beside(input, at, submitted, PremisPath, Premis(input, at, submitted))
  BY DEF Beside
<1>14. \A i \in 0..n : Beside(input, at, submitted, DataPath(Data(input, i).name),
                              Data(input, i).content)
  BY <1>1 DEF Beside
<1>15. ASSUME ref = a \/ ref = b \/ \E i \in 0..n : ref = r[i]
       PROVE  \E path, file : Beside(input, at, submitted, path, file)
                              /\ ref = FileRef(path, file)
  <2>1. CASE ref = a
    BY <1>3, <1>12, <2>1
  <2>2. CASE ref = b
    BY <1>3, <1>13, <2>2
  <2>3. ASSUME NEW i \in 0..n, ref = r[i]
        PROVE  \E path, file : Beside(input, at, submitted, path, file)
                              /\ ref = FileRef(path, file)
    <3>1. r[i] = FileRef(DataPath(Data(input, i).name), Data(input, i).content)
      BY <1>2
    <3> QED BY <1>14, <2>3, <3>1
  <2> QED BY <1>15, <2>1, <2>2, <2>3
<1> QED BY <1>4, <1>10, <1>11, <1>15

\* Other files have a path of their own.
LEMMA OneFileAPath ==
  ASSUME NEW A, NEW input, input.attachments \in Seq(A), NEW at, NEW submitted
  PROVE  (\A path, file, other : /\ Beside(input, at, submitted, path, file)
                                 /\ Beside(input, at, submitted, path, other)
            => file = other)
           <=> SameNameSameFile(input)
<1>1. ASSUME SameNameSameFile(input), NEW path, NEW file, NEW other,
             Beside(input, at, submitted, path, file),
             Beside(input, at, submitted, path, other)
      PROVE  file = other
  <2>1. CASE path = DublinCorePath \/ path = PremisPath
    BY <1>1, <2>1, PathsDiffer DEF Beside
  <2>2. CASE path # DublinCorePath /\ path # PremisPath
    <3>1. PICK i \in 0..Len(input.attachments) :
            path = DataPath(Data(input, i).name) /\ file = Data(input, i).content
      BY <1>1, <2>2 DEF Beside
    <3>2. PICK j \in 0..Len(input.attachments) :
            path = DataPath(Data(input, j).name) /\ other = Data(input, j).content
      BY <1>1, <2>2 DEF Beside
    <3> QED BY <1>1, <3>1, <3>2 DEF SameNameSameFile
  <2> QED BY <2>1, <2>2
<1>2. ASSUME \A path, file, other : /\ Beside(input, at, submitted, path, file)
                                    /\ Beside(input, at, submitted, path, other)
               => file = other
      PROVE  SameNameSameFile(input)
  <2> SUFFICES ASSUME NEW i \in 0..Len(input.attachments), NEW j \in 0..Len(input.attachments),
                      DataPath(Data(input, i).name) = DataPath(Data(input, j).name)
               PROVE  Data(input, i).content = Data(input, j).content
    BY DEF SameNameSameFile
  <2>1. Beside(input, at, submitted, DataPath(Data(input, i).name), Data(input, i).content)
    BY DEF Beside
  <2>2. Beside(input, at, submitted, DataPath(Data(input, i).name), Data(input, j).content)
    BY DEF Beside
  <2> QED BY <1>2, <2>1, <2>2
<1> QED BY <1>1, <1>2

\* The manifest of a package is complete, and true of every file of it, if and
\* only if data files of one name are one file.
THEOREM ManifestIsTrue ==
  ASSUME NEW A, NEW input, input.attachments \in Seq(A), NEW at, NEW submitted
  PROVE  ManifestMatches(BuildSIP(input, at, submitted)) <=> SameNameSameFile(input)
<1>1. PICK package : package = BuildSIP(input, at, submitted)
  OBVIOUS
<1>2. PICK mets : mets = Mets(input, at, submitted)
  OBVIOUS
<1> DEFINE refs == mets.refs
<1>3. \A path, file : file \in FileAt(package, path) <=>
        (path = MetsPath /\ file = mets) \/ Beside(input, at, submitted, path, file)
  BY <1>1, <1>2, Files
<1>4. \A path, file : Beside(input, at, submitted, path, file) => path # MetsPath
  BY PathsDiffer DEF Beside
<1>5. FileAt(package, MetsPath) = {mets}
  BY <1>3, <1>4
<1>6. \A path, file : path # MetsPath =>
        (file \in FileAt(package, path) <=> Beside(input, at, submitted, path, file))
  BY <1>3
<1>7. \A ref : (\E i \in 1..Len(refs) : refs[i] = ref) <=>
        \E path, file : Beside(input, at, submitted, path, file) /\ ref = FileRef(path, file)
  <2>1. refs = Mets(input, at, submitted).refs
    BY <1>2
  <2>2. Lists(refs, input, at, submitted)
    BY <2>1, Listed
  <2> QED BY <2>2 DEF Lists
<1> HIDE DEF refs
<1>8. {package[i].path : i \in 1..Len(package)} \ {MetsPath}
        = {refs[i].href : i \in 1..Len(refs)}
  <2>1. ASSUME NEW i \in 1..Len(package), package[i].path # MetsPath
        PROVE  \E k \in 1..Len(refs) : refs[k].href = package[i].path
    <3>1. package[i].file \in FileAt(package, package[i].path)
      BY AtPath
    <3>2. Beside(input, at, submitted, package[i].path, package[i].file)
      BY <1>6, <2>1, <3>1
    <3>3. PICK k \in 1..Len(refs) : refs[k] = FileRef(package[i].path, package[i].file)
      BY <1>7, <3>2
    <3> QED BY <3>3, RefFields
  <2>2. ASSUME NEW i \in 1..Len(refs)
        PROVE  /\ refs[i].href # MetsPath
               /\ \E k \in 1..Len(package) : package[k].path = refs[i].href
    <3>1. PICK path, file : Beside(input, at, submitted, path, file)
                           /\ refs[i] = FileRef(path, file)
      BY <1>7
    <3>2. refs[i].href = path /\ path # MetsPath
      BY <1>4, <3>1, RefFields
    <3>3. file \in FileAt(package, path)
      BY <1>6, <3>1, <3>2
    <3>4. \E k \in 1..Len(package) : package[k].path = path
      BY <3>3, AtPath
    <3> QED BY <3>2, <3>4
  <2>3. ASSUME NEW x \in {package[i].path : i \in 1..Len(package)} \ {MetsPath}
        PROVE  x \in {refs[i].href : i \in 1..Len(refs)}
    <3>1. PICK i \in 1..Len(package) : x = package[i].path /\ x # MetsPath
      OBVIOUS
    <3> QED BY <2>1, <3>1
  <2>4. ASSUME NEW x \in {refs[i].href : i \in 1..Len(refs)}
        PROVE  x \in {package[i].path : i \in 1..Len(package)} \ {MetsPath}
    <3>1. PICK i \in 1..Len(refs) : x = refs[i].href
      OBVIOUS
    <3> QED BY <2>2, <3>1
  <2> QED BY <2>3, <2>4
<1>9. ASSUME SameNameSameFile(input), NEW i \in 1..Len(refs)
      PROVE  /\ FileAt(package, refs[i].href) # {}
             /\ \A file \in FileAt(package, refs[i].href) :
                  refs[i].sum = Sha256(file) /\ refs[i].size = SizeOf(file)
  <2>1. PICK path, file : Beside(input, at, submitted, path, file)
                         /\ refs[i] = FileRef(path, file)
    BY <1>7
  <2>2. refs[i].href = path /\ refs[i].sum = Sha256(file) /\ refs[i].size = SizeOf(file)
    BY <2>1, RefFields
  <2>3. \A other : other \in FileAt(package, path) <=> Beside(input, at, submitted, path, other)
    BY <1>4, <1>6, <2>1
  <2>4. \A other \in FileAt(package, path) : other = file
    BY <1>9, <2>1, <2>3, OneFileAPath
  <2> QED BY <2>1, <2>2, <2>3, <2>4
<1>10. ASSUME \A i \in 1..Len(refs) : \A file \in FileAt(package, refs[i].href) :
                refs[i].sum = Sha256(file) /\ refs[i].size = SizeOf(file),
              NEW path, NEW file, NEW other,
              Beside(input, at, submitted, path, file),
              Beside(input, at, submitted, path, other)
       PROVE  file = other
  <2>1. PICK i \in 1..Len(refs) : refs[i] = FileRef(path, file)
    BY <1>7, <1>10
  <2>2. refs[i].href = path /\ refs[i].sum = Sha256(file)
    BY <2>1, RefFields
  <2>3. other \in FileAt(package, path)
    BY <1>4, <1>6, <1>10
  <2>4. Sha256(file) = Sha256(other)
    BY <1>10, <2>2, <2>3
  <2>5. Sha256(file).sha256 = file /\ Sha256(other).sha256 = other
    BY DEF Sha256
  <2> QED BY <2>4, <2>5
<1>11. ManifestMatches(package) <=>
         \A i \in 1..Len(refs) :
           /\ FileAt(package, refs[i].href) # {}
           /\ \A file \in FileAt(package, refs[i].href) :
                refs[i].sum = Sha256(file) /\ refs[i].size = SizeOf(file)
  BY <1>5, <1>8, Zenon DEF ManifestMatches, refs
<1>12. ASSUME ManifestMatches(package) PROVE SameNameSameFile(input)
  BY <1>10, <1>11, <1>12, OneFileAPath
<1>13. ASSUME SameNameSameFile(input) PROVE ManifestMatches(package)
  BY <1>9, <1>11, <1>13
<1> QED BY <1>1, <1>12, <1>13

LEMMA EventFields ==
  \A id, type, at : /\ PremisEvent(id, type, at).id = id
                    /\ PremisEvent(id, type, at).type = type
                    /\ PremisEvent(id, type, at).at = at
BY DEF PremisEvent

\* Creation, the events, submission.
Tells(told, input, at, submitted) ==
  LET m == Len(input.events) IN
  /\ Len(told) = m + 2
  /\ told[1] = PremisEvent(<<"creation">>, "creation", at)
  /\ \A i \in 1..m : told[i + 1] = PremisEvent(WorkflowId(i), input.events[i].action,
                                               input.events[i].at)
  /\ told[m + 2] = PremisEvent(<<"submission">>, "ingestion", submitted)

\* The events of a package, one by one.
LEMMA Told ==
  ASSUME NEW E, NEW input, input.events \in Seq(E), NEW at, NEW submitted,
         NEW told, told = Premis(input, at, submitted).events
  PROVE  Tells(told, input, at, submitted)
<1> DEFINE m == Len(input.events)
<1> m \in Nat
  BY LenProperties
<1> HIDE DEF m
<1>1. PICK f : f = [i \in 1..Len(input.events) |->
                     PremisEvent(WorkflowId(i), input.events[i].action, input.events[i].at)]
  OBVIOUS
<1>2. PICK T : T = {PremisEvent(WorkflowId(i), input.events[i].action, input.events[i].at) :
                      i \in 1..m}
  OBVIOUS
<1>3. f \in [1..m -> T]
  BY <1>1, <1>2 DEF m
<1>4. PICK c, s : /\ c = PremisEvent(<<"creation">>, "creation", at)
                  /\ s = PremisEvent(<<"submission">>, "ingestion", submitted)
  OBVIOUS
<1>5. PICK g : g = <<c>> \o f
  OBVIOUS
<1>6. told = g \o <<s>>
  BY <1>1, <1>4, <1>5 DEF Premis, BuildPREMIS
<1>7. \E U : g \in [1..(m + 1) -> U]
  BY <1>3, <1>5, BehindOne, Zenon
<1>8. Len(g) = m + 1 /\ g[1] = c /\ \A i \in 1..m : g[i + 1] = f[i]
  BY <1>3, <1>5, BehindOne, SMT
<1>9. PICK U : g \in Seq(U)
  <2>1. PICK U : g \in [1..(m + 1) -> U]
    BY <1>7
  <2>2. m + 1 \in Nat
    OBVIOUS
  <2> QED BY <2>1, <2>2, FunctionIsSeq
<1>10. <<s>> \in [1..1 -> {s}]
  OBVIOUS
<1>11. <<s>>[1] = s
  OBVIOUS
<1>12. PICK h : h = <<s>>
  OBVIOUS
<1>13. /\ Len(g \o h) = Len(g) + 1
       /\ \A i \in 1..Len(g) : (g \o h)[i] = g[i]
       /\ \A i \in 1..1 : (g \o h)[Len(g) + i] = h[i]
  <2>1. PICK k \in Nat : k = 1
    OBVIOUS
  <2>2. h \in [1..k -> {s}]
    BY <1>10, <1>12, <2>1
  <2>3. Len(g \o h) = Len(g) + k
    BY <1>9, <2>2, Behind
  <2>4. \A i \in 1..Len(g) : (g \o h)[i] = g[i]
    BY <1>9, <2>2, Behind
  <2>5. \A i \in 1..k : (g \o h)[Len(g) + i] = h[i]
    BY <1>9, <2>2, Behind
  <2> QED BY <2>1, <2>3, <2>4, <2>5
<1>14. told = g \o h
  BY <1>6, <1>12
<1>15. Len(told) = m + 2
  BY <1>8, <1>13, <1>14
<1>16. told[1] = c
  BY <1>8, <1>13, <1>14
<1>17. \A i \in 1..m : told[i + 1] = f[i]
  BY <1>8, <1>13, <1>14
<1>18. told[m + 2] = s
  <2>1. told[Len(g) + 1] = s
    BY <1>11, <1>12, <1>13, <1>14
  <2> QED BY <1>8, <2>1
<1>19. \A i \in 1..m : told[i + 1] = PremisEvent(WorkflowId(i), input.events[i].action,
                                               input.events[i].at)
  BY <1>1, <1>17 DEF m
<1> QED BY <1>4, <1>15, <1>16, <1>18, <1>19 DEF m, Tells

\* Only the document itself is at its path.
DocumentIsAlone(input) ==
  \A i \in 0..Len(input.attachments) :
    DataPath(Data(input, i).name) = DataPath(input.name)
      => Data(input, i).content = input.content

\* The events are in order of time, and none is later than the ingestion.
InOrder(input, at, submitted) ==
  /\ at <= submitted
  /\ \A i \in 1..Len(input.events) : input.events[i].at <= submitted
  /\ \A i \in 1..(Len(input.events) - 1) : input.events[i].at <= input.events[i + 1].at

\* What is stored at the path of the document.
LEMMA DocumentFile ==
  ASSUME NEW A, NEW input, input.attachments \in Seq(A), NEW at, NEW submitted,
         NEW package, package = BuildSIP(input, at, submitted)
  PROVE  FileAt(package, DataPath(input.name)) = {input.content} <=> DocumentIsAlone(input)
<1>1. \A file : file \in FileAt(package, DataPath(input.name)) <=>
        \E i \in 0..Len(input.attachments) :
          DataPath(input.name) = DataPath(Data(input, i).name)
            /\ file = Data(input, i).content
  <2>1. \A path, file : file \in FileAt(package, path) <=>
          (path = MetsPath /\ file = Mets(input, at, submitted))
            \/ Beside(input, at, submitted, path, file)
    BY Files
  <2>2. ASSUME NEW file
        PROVE  file \in FileAt(package, DataPath(input.name))
                 <=> Beside(input, at, submitted, DataPath(input.name), file)
    BY <2>1, PathsDiffer
  <2>3. ASSUME NEW file
        PROVE  Beside(input, at, submitted, DataPath(input.name), file) <=>
                 \E i \in 0..Len(input.attachments) :
                   DataPath(input.name) = DataPath(Data(input, i).name)
                     /\ file = Data(input, i).content
    BY PathsDiffer DEF Beside
  <2> QED BY <2>2, <2>3
<1>2. 0 \in 0..Len(input.attachments)
  BY LenProperties
<1>3. DataPath(Data(input, 0).name) = DataPath(input.name)
      /\ Data(input, 0).content = input.content
  BY DEF Data
<1>4. ASSUME DocumentIsAlone(input)
      PROVE  FileAt(package, DataPath(input.name)) = {input.content}
  <2>1. input.content \in FileAt(package, DataPath(input.name))
    BY <1>1, <1>2, <1>3
  <2>2. \A file \in FileAt(package, DataPath(input.name)) : file = input.content
    BY <1>1, <1>4 DEF DocumentIsAlone
  <2> QED BY <2>1, <2>2
<1>5. ASSUME FileAt(package, DataPath(input.name)) = {input.content},
             NEW i \in 0..Len(input.attachments),
             DataPath(Data(input, i).name) = DataPath(input.name)
      PROVE  Data(input, i).content = input.content
  <2>1. Data(input, i).content \in FileAt(package, DataPath(input.name))
    BY <1>1, <1>5
  <2> QED BY <1>5, <2>1
<1> QED BY <1>4, <1>5 DEF DocumentIsAlone

LEMMA IdsDiffer ==
  /\ <<"creation">> # <<"submission">>
  /\ \A i \in Int : WorkflowId(i) # <<"creation">> /\ WorkflowId(i) # <<"submission">>
  /\ \A i, j \in Int : WorkflowId(i) = WorkflowId(j) => i = j
<1>1. "creation" # "submission"
  OBVIOUS
<1>2. <<"creation">>[1] = "creation" /\ <<"submission">>[1] = "submission"
      /\ Len(<<"creation">>) = 1 /\ Len(<<"submission">>) = 1
  OBVIOUS
<1>3. \A i : Len(WorkflowId(i)) = 2 /\ WorkflowId(i)[2] = i - 1
  BY DEF WorkflowId
<1>4. \A i, j \in Int : i - 1 = j - 1 => i = j
  OBVIOUS
<1> QED BY <1>1, <1>2, <1>3, <1>4

\* The history of a package is told right if and only if nothing else is stored
\* at the path of the document, and the events came in order of their time,
\* before the ingestion.
THEOREM HistoryIsTrue ==
  ASSUME NEW A, NEW E, NEW input, input.attachments \in Seq(A), input.events \in Seq(E),
         \A i \in 1..Len(input.events) : input.events[i].at \in Int,
         NEW at \in Int, NEW submitted \in Int
  PROVE  HistoryIsTold(BuildSIP(input, at, submitted), input)
           <=> DocumentIsAlone(input) /\ InOrder(input, at, submitted)
<1>1. PICK package : package = BuildSIP(input, at, submitted)
  OBVIOUS
<1>2. PICK premis, told : premis = Premis(input, at, submitted) /\ told = premis.events
  OBVIOUS
<1>3. PICK m \in Nat : m = Len(input.events)
  BY LenProperties
<1>4. PICK type, time : /\ type = [i \in 1..m |-> input.events[i].action]
                        /\ time = [i \in 1..m |-> input.events[i].at]
  OBVIOUS
<1>5. \A path, file : file \in FileAt(package, path) <=>
        (path = MetsPath /\ file = Mets(input, at, submitted))
          \/ Beside(input, at, submitted, path, file)
  BY <1>1, Files
<1>6. FileAt(package, PremisPath) = {premis}
  BY <1>2, <1>5, PathsDiffer DEF Beside
<1>7. premis.object.sum.sha256 = input.content
  BY <1>2 DEF Premis, BuildPREMIS, Sha256
<1>8. FileAt(package, DataPath(input.name)) = {input.content} <=> DocumentIsAlone(input)
  BY <1>1, DocumentFile
<1>9. /\ Len(told) = m + 2
      /\ told[1] = PremisEvent(<<"creation">>, "creation", at)
      /\ \A i \in 1..m : told[i + 1] = PremisEvent(WorkflowId(i), input.events[i].action,
                                                   input.events[i].at)
      /\ told[m + 2] = PremisEvent(<<"submission">>, "ingestion", submitted)
  <2>1. told = Premis(input, at, submitted).events
    BY <1>2
  <2>2. Tells(told, input, at, submitted)
    BY <2>1, Told
  <2> QED BY <1>3, <2>2 DEF Tells
<1>10. told[1].id = <<"creation">> /\ told[1].at = at
  BY <1>9, EventFields
<1>11. told[m + 2].id = <<"submission">> /\ told[m + 2].at = submitted
  BY <1>9, EventFields
<1>12. \A i \in 1..m : /\ told[i + 1].id = WorkflowId(i)
                       /\ told[i + 1].type = type[i]
                       /\ told[i + 1].at = time[i]
  <2> SUFFICES ASSUME NEW i \in 1..m
               PROVE  /\ told[i + 1].id = WorkflowId(i)
                      /\ told[i + 1].type = type[i]
                      /\ told[i + 1].at = time[i]
    OBVIOUS
  <2>1. told[i + 1] = PremisEvent(WorkflowId(i), input.events[i].action, input.events[i].at)
    BY <1>9
  <2>2. type[i] = input.events[i].action /\ time[i] = input.events[i].at
    BY <1>4
  <2> QED BY <2>1, <2>2, EventFields
<1>13. \A i \in 1..m : time[i] \in Int
  BY <1>3, <1>4
<1>14. \A i \in 1..(m + 2) : i = 1 \/ i = m + 2 \/ \E k \in 1..m : i = k + 1
  <2> SUFFICES ASSUME NEW i \in 1..(m + 2), i # 1, i # m + 2
               PROVE  \E k \in 1..m : i = k + 1
    OBVIOUS
  <2>1. i - 1 \in 1..m /\ i = (i - 1) + 1
    OBVIOUS
  <2> QED BY <2>1
<1>15. \A i, j \in 1..(m + 2) : told[i].id = told[j].id => i = j
  <2>1. ASSUME NEW i \in 1..(m + 2)
        PROVE  \/ i = 1 /\ told[i].id = <<"creation">>
               \/ i = m + 2 /\ told[i].id = <<"submission">>
               \/ \E k \in 1..m : i = k + 1 /\ told[i].id = WorkflowId(k)
    BY <1>10, <1>11, <1>12, <1>14
  <2>2. 1..m \subseteq Int
    OBVIOUS
  <2> QED BY <2>1, <2>2, IdsDiffer
<1>16. (\A i \in 1..(m + 2) : told[i].at <= told[m + 2].at)
         <=> at <= submitted /\ \A i \in 1..m : time[i] <= submitted
  <2>1. \A i \in 1..m : i + 1 \in 1..(m + 2)
    OBVIOUS
  <2>2. 1 \in 1..(m + 2) /\ submitted <= submitted
    OBVIOUS
  <2>3. ASSUME \A i \in 1..(m + 2) : told[i].at <= told[m + 2].at
        PROVE  at <= submitted /\ \A i \in 1..m : time[i] <= submitted
    <3>1. at <= submitted
      BY <1>10, <1>11, <2>2, <2>3
    <3>2. ASSUME NEW i \in 1..m PROVE time[i] <= submitted
      <4>1. told[i + 1].at <= told[m + 2].at
        BY <2>1, <2>3
      <4> QED BY <1>11, <1>12, <4>1
    <3> QED BY <3>1, <3>2
  <2>4. ASSUME at <= submitted, \A i \in 1..m : time[i] <= submitted, NEW i \in 1..(m + 2)
        PROVE  told[i].at <= told[m + 2].at
    <3>1. CASE i = 1
      BY <1>10, <1>11, <2>4, <3>1
    <3>2. CASE i = m + 2
      BY <1>11, <2>2, <3>2
    <3>3. ASSUME NEW k \in 1..m, i = k + 1 PROVE told[i].at <= told[m + 2].at
      BY <1>11, <1>12, <2>4, <3>3
    <3> QED BY <1>14, <3>1, <3>2, <3>3
  <2> QED BY <2>3, <2>4
<1>17. (\A i \in 2..((m + 2) - 2) : told[i].at <= told[i + 1].at)
         <=> \A i \in 1..(m - 1) : time[i] <= time[i + 1]
  <2>1. ASSUME NEW i \in 2..((m + 2) - 2)
        PROVE  /\ i - 1 \in 1..(m - 1)
               /\ told[i].at = time[i - 1] /\ told[i + 1].at = time[(i - 1) + 1]
    <3>1. i - 1 \in 1..m /\ i \in 1..m /\ (i - 1) + 1 = i /\ i - 1 \in 1..(m - 1)
      OBVIOUS
    <3> QED BY <1>12, <3>1
  <2>2. ASSUME NEW i \in 1..(m - 1)
        PROVE  /\ i + 1 \in 2..((m + 2) - 2)
               /\ told[i + 1].at = time[i] /\ told[(i + 1) + 1].at = time[i + 1]
    <3>1. i \in 1..m /\ i + 1 \in 1..m /\ i + 1 \in 2..((m + 2) - 2)
      OBVIOUS
    <3> QED BY <1>12, <3>1
  <2>3. ASSUME \A i \in 1..(m - 1) : time[i] <= time[i + 1], NEW i \in 2..((m + 2) - 2)
        PROVE  told[i].at <= told[i + 1].at
    BY <2>1, <2>3
  <2>4. ASSUME \A i \in 2..((m + 2) - 2) : told[i].at <= told[i + 1].at,
               NEW i \in 1..(m - 1)
        PROVE  time[i] <= time[i + 1]
    BY <2>2, <2>4
  <2> QED BY <2>3, <2>4
<1>18. InOrder(input, at, submitted) <=>
         /\ at <= submitted
         /\ \A i \in 1..m : time[i] <= submitted
         /\ \A i \in 1..(m - 1) : time[i] <= time[i + 1]
  <2>1. \A i \in 1..m : time[i] = input.events[i].at
    BY <1>4
  <2>2. \A i \in 1..(m - 1) : time[i] = input.events[i].at /\ time[i + 1] = input.events[i + 1].at
    <3> SUFFICES ASSUME NEW i \in 1..(m - 1)
                 PROVE  time[i] = input.events[i].at /\ time[i + 1] = input.events[i + 1].at
      OBVIOUS
    <3>1. i \in 1..m /\ i + 1 \in 1..m
      OBVIOUS
    <3> QED BY <2>1, <3>1
  <2> QED BY <1>3, <2>1, <2>2 DEF InOrder
<1>19. HistoryIsTold(package, input) <=>
         /\ FileAt(package, DataPath(input.name)) = {premis.object.sum.sha256}
         /\ Len(told) = Len(input.events) + 2
         /\ \A i, j \in 1..Len(told) : told[i].id = told[j].id => i = j
         /\ \A i \in 1..Len(told) : told[i].at <= told[Len(told)].at
         /\ \A i \in 1..Len(input.events) : told[i + 1].type = input.events[i].action
         /\ \A i \in 2..(Len(told) - 2) : told[i].at <= told[i + 1].at
  <2>1. HistoryIsTold(package, input) <=>
         /\ FileAt(package, DataPath(input.name)) = {premis.object.sum.sha256}
         /\ Len(premis.events) = Len(input.events) + 2
         /\ \A i, j \in 1..Len(premis.events) : premis.events[i].id = premis.events[j].id => i = j
         /\ \A i \in 1..Len(premis.events) :
              premis.events[i].at <= premis.events[Len(premis.events)].at
         /\ \A i \in 1..Len(input.events) : premis.events[i + 1].type = input.events[i].action
         /\ \A i \in 2..(Len(premis.events) - 2) : premis.events[i].at <= premis.events[i + 1].at
    BY <1>6, Zenon DEF HistoryIsTold
  <2>2. premis.events = told
    BY <1>2
  <2> QED BY <2>1, <2>2
<1>20. \A i \in 1..m : told[i + 1].type = input.events[i].action
  BY <1>4, <1>12
<1>21. HistoryIsTold(package, input) <=>
         /\ DocumentIsAlone(input)
         /\ \A i \in 1..(m + 2) : told[i].at <= told[m + 2].at
         /\ \A i \in 2..((m + 2) - 2) : told[i].at <= told[i + 1].at
  <2>1. FileAt(package, DataPath(input.name)) = {premis.object.sum.sha256}
          <=> DocumentIsAlone(input)
    BY <1>7, <1>8
  <2> QED BY <1>3, <1>9, <1>15, <1>19, <1>20, <2>1
<1> QED BY <1>1, <1>16, <1>17, <1>18, <1>21
=============================================================================
