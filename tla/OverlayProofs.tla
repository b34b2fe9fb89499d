---------------------------- MODULE OverlayProofs ----------------------------
(***************************************************************************)
(* Proofs about the script editor and the overlay it runs in, for any list *)
(* of files, any buffer size and any lengths.  EditorInv relates the list, *)
(* the selected index and the text to the directory; WindowInv relates the *)
(* view, its references and the window procedure to the point the render   *)
(* thread and UnhookD3D have reached.                                      *)
(***************************************************************************)
EXTENDS Overlay, FiniteSetTheorems, TLAPS

-------------------------------------------------------------------------------
(* The list of scripts.                                                      *)

\* The rank of a place among the places I.
Rank(I, i) == Cardinality({j \in I : j <= i})

\* Places of Names are finitely many, and so are the ones up to a given place.
LEMMA PlacesFinite ==
    ASSUME NEW I \in SUBSET (1..Len(Names))
    PROVE  /\ IsFiniteSet(I) /\ Cardinality(I) \in Nat
           /\ \A i \in I : IsFiniteSet({j \in I : j <= i}) /\ Rank(I, i) \in 1..Cardinality(I)
  <1>1. Len(Names) \in Nat
    BY EditorAssumption
  <1>2. IsFiniteSet(1..Len(Names))
    BY <1>1, FS_Interval
  <1>3. IsFiniteSet(I) /\ Cardinality(I) \in Nat
    BY <1>2, FS_Subset, FS_CardinalityType
  <1>4. ASSUME NEW i \in I
        PROVE  IsFiniteSet({j \in I : j <= i}) /\ Rank(I, i) \in 1..Cardinality(I)
    <2> DEFINE U == {j \in I : j <= i}
    <2>1. U \subseteq I /\ i \in U
      BY <1>1
    <2>2. IsFiniteSet(U) /\ Cardinality(U) \in Nat /\ Cardinality(U) <= Cardinality(I)
      BY <1>3, <2>1, FS_Subset, FS_CardinalityType
    <2>3. Cardinality(U) # 0
      BY <2>1, <2>2, FS_EmptySet
    <2> QED
      BY <1>3, <2>2, <2>3 DEF Rank
  <1> QED
    BY <1>3, <1>4

\* Two places have different ranks.
LEMMA RankInjective ==
    ASSUME NEW I \in SUBSET (1..Len(Names)), NEW i \in I, NEW k \in I, Rank(I, i) = Rank(I, k)
    PROVE  i = k
  <1>0. Len(Names) \in Nat
    BY EditorAssumption
  <1>1. ASSUME NEW a \in I, NEW b \in I, Rank(I, a) = Rank(I, b), a < b PROVE FALSE
    <2>1. {j \in I : j <= a} \subseteq {j \in I : j <= b} /\ b \in {j \in I : j <= b} /\ b \notin {j \in I : j <= a}
      <3>1. \A j \in I : j \in Nat
        BY <1>0
      <3>2. \A j \in I : j <= a => j <= b
        BY <1>1, <3>1
      <3>3. ~(b <= a) /\ b <= b
        BY <1>1, <3>1
      <3> QED
        BY <3>2, <3>3
    <2>2. IsFiniteSet({j \in I : j <= b})
      BY PlacesFinite
    <2>3. {j \in I : j <= a} = {j \in I : j <= b}
      BY <1>1, <2>1, <2>2, FS_Subset DEF Rank
    <2> QED
      BY <2>1, <2>3
  <1>2. i < k \/ k < i \/ i = k
    BY <1>0
  <1> QED
    BY <1>1, <1>2

\* Every rank up to the number of places is the rank of one of them.
LEMMA RankSurjective ==
    ASSUME NEW I \in SUBSET (1..Len(Names)), NEW k \in 1..Cardinality(I)
    PROVE  \E i \in I : Rank(I, i) = k
  <1> DEFINE f == [i \in I |-> Rank(I, i)]
             T == 1..Cardinality(I)
  <1>0. Cardinality(I) \in Nat
    BY PlacesFinite
  <1>1. IsFiniteSet(T) /\ Cardinality(T) = Cardinality(I)
    BY <1>0, FS_Interval
  <1>2. f \in [I -> T]
    BY PlacesFinite
  <1>3. \A a, b \in I : f[a] = f[b] => a = b
    BY RankInjective
  <1>4. f \in Injection(I, T)
    BY <1>2, <1>3 DEF Injection, IsInjective
  <1>5. f \in Surjection(I, T)
    BY <1>1, <1>4, FS_Injection
  <1> QED
    BY <1>5 DEF Surjection

\* The list holds every existing file once and nothing else.
LEMMA ListingIs ==
    ASSUME NEW I \in SUBSET (1..Len(Names))
    PROVE  /\ Listing(I) \in Seq({Names[i] : i \in I}) /\ Len(Listing(I)) = Cardinality(I)
           /\ \A i \in I : \E k \in 1..Len(Listing(I)) : Listing(I)[k] = Names[i]
  <1> DEFINE At(k) == CHOOSE i \in I : Rank(I, i) = k
             S == {Names[i] : i \in I}
  <1>0. Cardinality(I) \in Nat
    BY PlacesFinite
  <1>1. \A k \in 1..Cardinality(I) : At(k) \in I /\ Rank(I, At(k)) = k
    BY RankSurjective
  <1>2. Listing(I) = [k \in 1..Cardinality(I) |-> Names[At(k)]]
    BY DEF Listing, Rank
  <1> HIDE DEF At
  <1>3. Listing(I) \in [1..Cardinality(I) -> S]
    BY <1>1, <1>2
  <1>4. Listing(I) \in Seq(S) /\ Len(Listing(I)) = Cardinality(I)
    BY <1>0, <1>3
  <1>5. ASSUME NEW i \in I PROVE \E k \in 1..Len(Listing(I)) : Listing(I)[k] = Names[i]
    <2>1. Rank(I, i) \in 1..Cardinality(I)
      BY PlacesFinite
    <2>2. At(Rank(I, i)) = i
      BY <1>1, <2>1, RankInjective
    <2> QED
      BY <1>2, <1>4, <2>1, <2>2
  <1> QED
    BY <1>4, <1>5

-------------------------------------------------------------------------------
(* The editor.                                                               *)

EditorType ==
    /\ files \in [FileNames -> {NoFile} \cup Contents]
    /\ scriptFiles \in Seq(FileNames) /\ selectedScript \in Nat
    /\ EditorBuffer \in [from : FileNames \cup {Placeholder, ErrorText}, len : 0..(BufferSize - 1)]

\* A file the editor wrote fits; without large files every file does.
FilesFit ==
    \A n \in FileNames : files[n] # NoFile /\ (files[n].own \/ "large" \notin trouble) => files[n].len < BufferSize

\* No other program changes the directory, and it can be read to its end.
Calm == "others" \notin trouble /\ "failure" \notin trouble

\* Then the list is the directory's, once it has been read, and the index lies in it.
Listed ==
    Calm =>
        \/ scriptFiles = Listing(Existing(files)) /\ SelectionValid
        \/ scriptFiles = <<>> /\ selectedScript = 0

\* The text is the selected file's when nothing disturbs the editor.
TextBelongs ==
    /\ trouble = {} /\ selectedScript > 0 /\ EditorBuffer.from \in FileNames
          => EditorBuffer.from = scriptFiles[selectedScript]
    /\ EditorBuffer.from = ErrorText => "failure" \in trouble

EditorInv == EditorType /\ FilesFit /\ Listed /\ TextBelongs

\* The directory of a well-typed state lists well.
LEMMA DirectoryListing ==
    ASSUME NEW dir \in [FileNames -> {NoFile} \cup Contents]
    PROVE  LET list == Listing(Existing(dir))
           IN  /\ list \in Seq(FileNames)
               /\ \A k \in 1..Len(list) : list[k] \in FileNames /\ dir[list[k]] \in Contents
               /\ \A n \in FileNames : dir[n] # NoFile => \E k \in 1..Len(list) : list[k] = n
  <1> DEFINE I == Existing(dir)
             S == {Names[i] : i \in I}
  <1>1. I \in SUBSET (1..Len(Names))
    BY DEF Existing
  <1>2. S \subseteq FileNames /\ \A n \in S : dir[n] \in Contents
    BY DEF Existing, FileNames
  <1>3. \A n \in FileNames : dir[n] # NoFile => \E i \in I : Names[i] = n
    BY DEF Existing, FileNames
  <1> HIDE DEF I
  <1>4. Listing(I) \in Seq(S)
    BY <1>1, ListingIs
  <1>5. \A i \in I : \E k \in 1..Len(Listing(I)) : Listing(I)[k] = Names[i]
    BY <1>1, ListingIs
  <1>6. Listing(I) \in Seq(FileNames)
    BY <1>2, <1>4
  <1>7. \A k \in 1..Len(Listing(I)) : Listing(I)[k] \in S
    BY <1>4
  <1> QED
    BY <1>2, <1>3, <1>5, <1>6, <1>7 DEF I

\* What LoadScriptFiles leaves in the list.
LEMMA ListRead ==
    ASSUME NEW dir \in [FileNames -> {NoFile} \cup Contents], LoadScriptFiles(dir)
    PROVE  scriptFiles' \in Seq(FileNames) /\ (Calm => scriptFiles' = Listing(Existing(dir)))
  <1> DEFINE list == Listing(Existing(dir))
  <1>1. list \in Seq(FileNames)
    BY DirectoryListing
  <1>2. scriptFiles' = list \/ ("failure" \in trouble /\ \E k \in 0..Len(list) : scriptFiles' = SubSeq(list, 1, k))
    BY DEF LoadScriptFiles
  <1> HIDE DEF list
  <1>3. ASSUME NEW k \in 0..Len(list) PROVE SubSeq(list, 1, k) \in Seq(FileNames)
    <2>1. Len(list) \in Nat /\ k \in Nat /\ k <= Len(list)
      BY <1>1
    <2>2. \A i \in 1..k : list[i] \in FileNames
      BY <1>1, <2>1
    <2>3. SubSeq(list, 1, k) = [i \in 1..k |-> list[i]]
      BY <1>1, <2>1
    <2> QED
      BY <2>1, <2>2, <2>3
  <1> QED
    BY <1>1, <1>2, <1>3 DEF Calm, list

\* A list depends on which files exist, not on what they hold.
LEMMA SameListing ==
    ASSUME NEW dir, NEW new, \A n \in FileNames : dir[n] = NoFile <=> new[n] = NoFile
    PROVE  Existing(new) = Existing(dir)
  BY DEF Existing, FileNames

\* The size test of LoadScriptContent compares the length without the mark.
LEMMA FitsIs == ASSUME NEW f \in Contents PROVE Fits(f) <=> f.len < BufferSize
  BY EditorAssumption DEF Fits, FileSize, Contents

\* What the editor writes is a file with the length it was given.
LEMMA Written ==
    ASSUME NEW l \in Nat, NEW b \in BOOLEAN, NEW o \in BOOLEAN
    PROVE  File(l, b, o) \in Contents /\ File(l, b, o) # NoFile /\ File(l, b, o).len = l /\ (File(l, b, o).own <=> o)
  <1>1. File(l, b, o) \in Contents /\ File(l, b, o).len = l /\ (File(l, b, o).own <=> o)
    BY DEF File, Contents
  <1> QED
    BY <1>1, EditorAssumption

\* What Create writes.
LEMMA NewFileIs == ASSUME NEW f \in NewFile PROVE f \in Contents /\ f # NoFile /\ f.len < BufferSize
  <1>1. HeaderLength \in Nat /\ HeaderLength < BufferSize /\ 0 < BufferSize
    BY EditorAssumption
  <1>2. f = File(HeaderLength, FALSE, TRUE) \/ f = File(0, FALSE, TRUE)
    BY DEF NewFile
  <1> QED
    BY <1>1, <1>2, Written

\* What other programs write is not the editor's, and fits unless large files are about.
LEMMA ForeignIs ==
    ASSUME NEW f \in Foreign
    PROVE  f \in Contents /\ ~f.own /\ (f.len < BufferSize \/ "large" \in trouble)
  BY EditorAssumption DEF Foreign, Contents

\* What LoadScriptContent may leave in the buffer.
LEMMA Loaded ==
    ASSUME EditorType, NEW dir \in [FileNames -> {NoFile} \cup Contents], NEW n \in FileNames, LoadScriptContent(n, dir)
    PROVE  /\ EditorBuffer' \in [from : FileNames \cup {Placeholder, ErrorText}, len : 0..(BufferSize - 1)]
           /\ \/ EditorBuffer'.from = n
              \/ EditorBuffer' = EditorBuffer /\ ~(dir[n] # NoFile /\ dir[n].len < BufferSize /\ "failure" \notin trouble)
              \/ EditorBuffer'.from = ErrorText /\ "failure" \in trouble
  <1> DEFINE loads == dir[n] # NoFile /\ Fits(dir[n])
  <1>1. dir[n] # NoFile => dir[n] \in Contents /\ (Fits(dir[n]) <=> dir[n].len < BufferSize)
    BY FitsIs
  <1>2. CASE loads /\ EditorBuffer' = Text(n, dir[n].len)
    <2>1. dir[n].len \in 0..(BufferSize - 1)
      BY <1>1, <1>2, EditorAssumption DEF Contents
    <2> QED
      BY <1>2, <2>1 DEF Text
  <1>3. CASE (~loads \/ "failure" \in trouble) /\ UNCHANGED EditorBuffer
    BY <1>1, <1>3 DEF EditorType
  <1>4. CASE "failure" \in trouble /\ EditorBuffer' = Text(ErrorText, 1)
    BY <1>4, EditorAssumption DEF Text
  <1> QED
    BY <1>2, <1>3, <1>4 DEF LoadScriptContent

\* The buttons that change the text or the window, not the list or the directory.
LEMMA TextSteps ==
    ASSUME EditorInv, UNCHANGED <<files, scriptFiles, selectedScript, trouble>>,
           \/ UNCHANGED EditorBuffer \/ Clear \/ \E len \in Lengths : Type(len)
    PROVE  EditorInv'
  <1>1. EditorBuffer' \in [from : FileNames \cup {Placeholder, ErrorText}, len : 0..(BufferSize - 1)]
    <2>1. CASE UNCHANGED EditorBuffer
      BY <2>1 DEF EditorInv, EditorType
    <2>2. CASE Clear
      BY <2>2, EditorAssumption DEF Clear, Text
    <2>3. ASSUME NEW len \in Lengths, Type(len)
          PROVE  EditorBuffer' \in [from : FileNames \cup {Placeholder, ErrorText}, len : 0..(BufferSize - 1)]
      <3>1. len \in 0..(BufferSize - 1)
        BY <2>3, EditorAssumption DEF Type
      <3> QED
        BY <2>3, <3>1 DEF Type, EditorInv, EditorType
    <2> QED
      BY <2>1, <2>2, <2>3
  <1>2. EditorBuffer'.from = EditorBuffer.from \/ EditorBuffer'.from = Placeholder
    BY DEF Clear, Type, Text, EditorInv, EditorType
  <1>3. EditorType' /\ FilesFit'
    BY <1>1 DEF EditorInv, EditorType, FilesFit
  <1>4. Listed'
    BY DEF EditorInv, Listed, SelectionValid, Calm
  <1>5. TextBelongs'
    BY <1>2, EditorAssumption DEF EditorInv, TextBelongs
  <1> QED
    BY <1>3, <1>4, <1>5 DEF EditorInv

\* Reading the list again does not move the selected index off its file, unless
\* another program changed the directory.
LEMMA ListSteps ==
    ASSUME EditorInv, Initialize \/ Refresh
    PROVE  EditorInv'
  <1>1. LoadScriptFiles(files) /\ UNCHANGED <<files, selectedScript, EditorBuffer, trouble>>
    BY DEF Initialize, Refresh
  <1>2. scriptFiles' \in Seq(FileNames) /\ (Calm => scriptFiles' = Listing(Existing(files)))
    BY <1>1, ListRead DEF EditorInv, EditorType
  <1>3. EditorType' /\ FilesFit'
    BY <1>1, <1>2 DEF EditorInv, EditorType, FilesFit
  <1>4. Calm => scriptFiles' = scriptFiles \/ selectedScript = 0
    BY <1>2 DEF EditorInv, Listed
  <1>5. Listed'
    <2>1. Len(scriptFiles') \in Nat
      BY <1>2
    <2>2. Calm => selectedScript <= Len(scriptFiles')
      BY <1>4, <2>1 DEF EditorInv, Listed, SelectionValid
    <2> QED
      BY <1>1, <1>2, <2>2 DEF Listed, SelectionValid, Calm
  <1>6. TextBelongs'
    BY <1>1, <1>4 DEF EditorInv, TextBelongs, Calm
  <1> QED
    BY <1>3, <1>5, <1>6 DEF EditorInv

\* Selecting an entry loads its file, unless it does not fit or cannot be read.
LEMMA SelectStep ==
    ASSUME EditorInv, NEW i \in 1..Len(Names), Select(i)
    PROVE  EditorInv'
  <1> DEFINE n == scriptFiles[i]
  <1>1. i \in 1..Len(scriptFiles) /\ selectedScript' = i /\ LoadScriptContent(n, files) /\ UNCHANGED <<files, scriptFiles, trouble>>
    BY DEF Select
  <1>2. n \in FileNames /\ i \in Nat /\ Len(scriptFiles) \in Nat
    BY <1>1, EditorAssumption DEF EditorInv, EditorType
  <1>3. Calm => files[n] \in Contents
    <2>1. Calm => scriptFiles = Listing(Existing(files))
      BY <1>1 DEF EditorInv, Listed
    <2> QED
      BY <1>1, <2>1, DirectoryListing DEF EditorInv, EditorType
  <1>4. EditorType
    BY DEF EditorInv
  <1>5. files \in [FileNames -> {NoFile} \cup Contents]
    BY <1>4 DEF EditorType
  <1> HIDE DEF n
  <1>6. /\ EditorBuffer' \in [from : FileNames \cup {Placeholder, ErrorText}, len : 0..(BufferSize - 1)]
        /\ \/ EditorBuffer'.from = n
           \/ EditorBuffer' = EditorBuffer /\ ~(files[n] # NoFile /\ files[n].len < BufferSize /\ "failure" \notin trouble)
           \/ EditorBuffer'.from = ErrorText /\ "failure" \in trouble
    BY <1>1, <1>2, <1>4, <1>5, Loaded
  <1>7. EditorType' /\ FilesFit'
    BY <1>1, <1>2, <1>6 DEF EditorInv, EditorType, FilesFit
  <1>8. Listed'
    BY <1>1, <1>2 DEF EditorInv, Listed, SelectionValid, Calm
  <1>9. trouble = {} => EditorBuffer'.from = n
    <2>1. trouble = {} => files[n] # NoFile /\ files[n].len < BufferSize
      BY <1>2, <1>3, EditorAssumption DEF EditorInv, FilesFit, Calm
    <2> QED
      BY <1>6, <2>1
  <1>10. TextBelongs'
    BY <1>1, <1>2, <1>6, <1>9, EditorAssumption DEF EditorInv, TextBelongs, n
  <1> QED
    BY <1>7, <1>8, <1>10 DEF EditorInv

\* Saving rewrites a listed file with a text that fits.
LEMMA SaveStep == ASSUME EditorInv, Save PROVE EditorInv'
  <1> DEFINE n == scriptFiles[selectedScript]
  <1>1. /\ selectedScript \in 1..Len(scriptFiles) /\ UNCHANGED <<scriptFiles, selectedScript, EditorBuffer, trouble>>
        /\ \E f \in {File(EditorBuffer.len, TRUE, TRUE), files[n], File(0, FALSE, TRUE)} : files' = [files EXCEPT ![n] = f]
    BY DEF Save
  <1>2. PICK f \in {File(EditorBuffer.len, TRUE, TRUE), files[n], File(0, FALSE, TRUE)} : files' = [files EXCEPT ![n] = f]
    BY <1>1
  <1>3. n \in FileNames
    BY <1>1 DEF EditorInv, EditorType
  <1>4. Calm => files[n] # NoFile
    <2>1. Calm => scriptFiles = Listing(Existing(files))
      BY <1>1 DEF EditorInv, Listed
    <2> QED
      BY <1>1, <2>1, DirectoryListing, EditorAssumption DEF EditorInv, EditorType
  <1> HIDE DEF n
  <1>5. EditorBuffer.len \in Nat /\ EditorBuffer.len < BufferSize /\ 0 < BufferSize
    BY EditorAssumption DEF EditorInv, EditorType
  <1>6. f = files[n] \/ (f \in Contents /\ f # NoFile /\ f.len < BufferSize)
    <2>1. CASE f = File(EditorBuffer.len, TRUE, TRUE)
      BY <2>1, <1>5, Written
    <2>2. CASE f = files[n]
      BY <2>2
    <2>3. CASE f = File(0, FALSE, TRUE)
      BY <2>3, <1>5, Written
    <2> QED
      BY <1>2, <2>1, <2>2, <2>3
  <1>7. files' \in [FileNames -> {NoFile} \cup Contents] /\ \A m \in FileNames : files'[m] = IF m = n THEN f ELSE files[m]
    BY <1>2, <1>3, <1>6 DEF EditorInv, EditorType
  <1>8. EditorType' /\ FilesFit'
    BY <1>1, <1>6, <1>7 DEF EditorInv, EditorType, FilesFit
  <1>9. Listed'
    <2>1. Calm => Existing(files') = Existing(files)
      BY <1>4, <1>6, <1>7, SameListing
    <2> QED
      BY <1>1, <2>1 DEF EditorInv, Listed, SelectionValid, Calm
  <1>10. TextBelongs'
    BY <1>1 DEF EditorInv, TextBelongs
  <1> QED
    BY <1>8, <1>9, <1>10 DEF EditorInv

\* Creating a file selects and loads it, unless the directory cannot be read that far.
LEMMA CreateStep == ASSUME EditorInv, NEW n \in FileNames, Create(n) PROVE EditorInv'
  <1>1. PICK f \in NewFile : files' = [files EXCEPT ![n] = f]
    BY DEF Create
  <1>2. f \in Contents /\ f # NoFile /\ f.len < BufferSize
    BY NewFileIs
  <1>3. files' \in [FileNames -> {NoFile} \cup Contents] /\ \A m \in FileNames : files'[m] = IF m = n THEN f ELSE files[m]
    BY <1>1, <1>2 DEF EditorInv, EditorType
  <1>4. LoadScriptFiles(files') /\ UNCHANGED trouble
    BY DEF Create
  <1>5. scriptFiles' \in Seq(FileNames) /\ (Calm => scriptFiles' = Listing(Existing(files')))
    BY <1>3, <1>4, ListRead
  <1>6. Calm => \E k \in 1..Len(scriptFiles') : scriptFiles'[k] = n
    <2>1. files'[n] # NoFile
      BY <1>2, <1>3
    <2> QED
      BY <1>3, <1>5, <2>1, DirectoryListing
  <1>7. FilesFit'
    BY <1>2, <1>3, <1>4 DEF EditorInv, FilesFit
  <1>8. EditorType
    BY DEF EditorInv
  <1>9. ASSUME NEW i \in 1..Len(scriptFiles'), scriptFiles'[i] = n, selectedScript' = i, LoadScriptContent(n, files')
        PROVE  EditorInv'
    <2>1. /\ EditorBuffer' \in [from : FileNames \cup {Placeholder, ErrorText}, len : 0..(BufferSize - 1)]
          /\ \/ EditorBuffer'.from = n
             \/ EditorBuffer' = EditorBuffer /\ ~(files'[n] # NoFile /\ files'[n].len < BufferSize /\ "failure" \notin trouble)
             \/ EditorBuffer'.from = ErrorText /\ "failure" \in trouble
      BY <1>3, <1>8, <1>9, Loaded
    <2>2. selectedScript' \in Nat /\ selectedScript' <= Len(scriptFiles')
      BY <1>5, <1>9
    <2>3. EditorType'
      BY <1>3, <1>5, <2>1, <2>2 DEF EditorType
    <2>4. Listed'
      BY <1>4, <1>5, <2>2 DEF Listed, SelectionValid, Calm
    <2>5. "failure" \notin trouble => EditorBuffer'.from = n
      BY <1>2, <1>3, <2>1
    <2>6. TextBelongs'
      BY <1>4, <1>9, <2>5, EditorAssumption DEF TextBelongs
    <2> QED
      BY <1>7, <2>3, <2>4, <2>6 DEF EditorInv
  <1>10. ASSUME \A i \in 1..Len(scriptFiles') : scriptFiles'[i] # n, UNCHANGED <<selectedScript, EditorBuffer>>
         PROVE  EditorInv'
    <2>1. ~Calm
      BY <1>6, <1>10
    <2>2. EditorType'
      BY <1>3, <1>5, <1>8, <1>10 DEF EditorType
    <2>3. Listed' /\ TextBelongs'
      BY <1>4, <1>10, <2>1 DEF EditorInv, Listed, TextBelongs, Calm
    <2> QED
      BY <1>7, <2>2, <2>3 DEF EditorInv
  <1> QED
    BY <1>9, <1>10 DEF Create

\* Creating a file that the list does not show under its name leaves the list as it is.
LEMMA UnlistedStep == ASSUME EditorInv, CreateUnlisted PROVE EditorInv'
  <1>1. LoadScriptFiles(files') /\ UNCHANGED <<EditorBuffer, selectedScript, trouble>>
    BY DEF CreateUnlisted
  <1>2. files \in [FileNames -> {NoFile} \cup Contents]
    BY DEF EditorInv, EditorType
  <1>3. \/ UNCHANGED files
        \/ \E n \in FileNames, f \in NewFile : files[n] # NoFile /\ files' = [files EXCEPT ![n] = f]
    BY DEF CreateUnlisted
  <1>4. /\ files' \in [FileNames -> {NoFile} \cup Contents]
        /\ \A m \in FileNames : files'[m] = files[m] \/ (files'[m] \in NewFile /\ files[m] # NoFile)
    <2>1. CASE UNCHANGED files
      BY <1>2, <2>1
    <2>2. ASSUME NEW n \in FileNames, NEW f \in NewFile, files[n] # NoFile, files' = [files EXCEPT ![n] = f]
          PROVE  /\ files' \in [FileNames -> {NoFile} \cup Contents]
                 /\ \A m \in FileNames : files'[m] = files[m] \/ (files'[m] \in NewFile /\ files[m] # NoFile)
      BY <1>2, <2>2, NewFileIs
    <2> QED
      BY <1>3, <2>1, <2>2
  <1>5. Existing(files') = Existing(files)
    BY <1>4, NewFileIs, SameListing
  <1>6. scriptFiles' \in Seq(FileNames) /\ (Calm => scriptFiles' = Listing(Existing(files')))
    BY <1>1, <1>4, ListRead
  <1>7. EditorType'
    BY <1>1, <1>4, <1>6 DEF EditorInv, EditorType
  <1>8. FilesFit'
    BY <1>1, <1>4, NewFileIs DEF EditorInv, FilesFit
  <1>9. Calm => scriptFiles' = scriptFiles \/ selectedScript = 0
    BY <1>5, <1>6 DEF EditorInv, Listed
  <1>10. Listed'
    <2>1. Len(scriptFiles') \in Nat
      BY <1>6
    <2>2. Calm => selectedScript <= Len(scriptFiles')
      BY <1>9, <2>1 DEF EditorInv, Listed, SelectionValid
    <2> QED
      BY <1>1, <1>6, <2>2 DEF Listed, SelectionValid, Calm
  <1>11. TextBelongs'
    BY <1>1, <1>9 DEF EditorInv, TextBelongs, Calm
  <1> QED
    BY <1>7, <1>8, <1>10, <1>11 DEF EditorInv

\* Another program can break the list, not what the editor knows of its own files.
LEMMA OthersStep == ASSUME EditorInv, NEW n \in FileNames, OthersWrite(n) PROVE EditorInv'
  <1>1. /\ "others" \in trouble /\ UNCHANGED <<scriptFiles, selectedScript, EditorBuffer, trouble>>
        /\ \E f \in {NoFile} \cup Foreign : files' = [files EXCEPT ![n] = f]
    BY DEF OthersWrite
  <1>2. PICK f \in {NoFile} \cup Foreign : files' = [files EXCEPT ![n] = f]
    BY <1>1
  <1>3. f # NoFile => f \in Contents /\ ~f.own /\ (f.len < BufferSize \/ "large" \in trouble)
    BY ForeignIs
  <1>4. files' \in [FileNames -> {NoFile} \cup Contents] /\ \A m \in FileNames : files'[m] = IF m = n THEN f ELSE files[m]
    BY <1>2, <1>3 DEF EditorInv, EditorType
  <1>5. EditorType' /\ FilesFit'
    BY <1>1, <1>3, <1>4 DEF EditorInv, EditorType, FilesFit
  <1>6. Listed' /\ TextBelongs'
    BY <1>1 DEF EditorInv, Listed, TextBelongs, Calm
  <1> QED
    BY <1>5, <1>6 DEF EditorInv

\* Whatever the user and other programs do next, the editor keeps its invariant.
LEMMA EditorSteps ==
    ASSUME EditorInv, UNCHANGED editorVars \/ Initialize \/ Use \/ \E n \in FileNames : OthersWrite(n)
    PROVE  EditorInv'
  <1>1. CASE UNCHANGED editorVars
    BY <1>1, TextSteps DEF editorVars
  <1>2. ASSUME NEW len \in Lengths, Type(len) PROVE EditorInv'
    BY <1>2, TextSteps DEF Type
  <1>3. CASE Clear \/ New \/ Cancel
    BY <1>3, TextSteps DEF Clear, New, Cancel
  <1> QED
    BY <1>1, <1>2, <1>3, ListSteps, SelectStep, SaveStep, CreateStep, UnlistedStep, OthersStep DEF Use

-------------------------------------------------------------------------------
(* The view and the window procedure.                                        *)

WindowInv ==
    /\ render \in {"game", "frame", "resizing"} /\ hooking \in {"start", "present", "done"}
    /\ bInitImGui \in BOOLEAN /\ m_RenderTargetView \in BOOLEAN
    \* the reference is held exactly while the pointer is set
    /\ views = IF m_RenderTargetView THEN 1 ELSE 0
    /\ ~bInitImGui => ~m_RenderTargetView /\ render = "game" /\ wndProc = "game" /\ unhooking = "no"
    /\ bInitImGui => m_OldWndProc = "game"
    /\ render = "resizing" => ~m_RenderTargetView
    /\ bInitImGui /\ render # "resizing" /\ ~m_RenderTargetView => "failure" \in trouble

OverlayInv == EditorInv /\ WindowInv /\ ResizeSafe /\ WindowRestored

\* Every step of the three threads keeps the window's invariant.
LEMMA NextWindow == WindowInv /\ [OverlayNext]_overlayVars => WindowInv'
  <1> SUFFICES ASSUME WindowInv, [OverlayNext]_overlayVars PROVE WindowInv'
    OBVIOUS
  <1> USE DEF WindowInv, windowVars
  <1>0. OverlayNext => UNCHANGED trouble
    BY DEF OverlayNext, HookPresent, HookResize, AskUnhook, UnhookWindow, UnhookPresent, UnhookResize, InitImGui,
           InitImGuiFails, Fault, Present, UseEditor, DrawFault, EndFrame, Resize, ResizeBuffers, ResizeBuffersEnd,
           ResizeFault, Others, OthersWrite, Use, Initialize, Select, Type, Create, CreateUnlisted, Save, Refresh,
           Clear, New, Cancel, editorVars
  <1>1. CASE HookPresent \/ HookResize
    BY <1>1 DEF HookPresent, HookResize, editorVars
  <1>2. CASE AskUnhook
    BY <1>2 DEF AskUnhook, editorVars
  <1>3. CASE UnhookWindow \/ UnhookPresent \/ UnhookResize
    BY <1>3 DEF UnhookWindow, UnhookPresent, UnhookResize, editorVars
  <1>4. ASSUME NEW ok \in BOOLEAN, CreateView(ok), views = 0
        PROVE  m_RenderTargetView' \in BOOLEAN /\ views' = (IF m_RenderTargetView' THEN 1 ELSE 0) /\ (m_RenderTargetView' <=> ok)
    BY <1>4 DEF CreateView
  <1>5. CASE InitImGui
    <2>1. PICK ok \in Outcomes : CreateView(ok)
      BY <1>5 DEF InitImGui
    <2>2. ok \in BOOLEAN /\ (~ok => "failure" \in trouble)
      BY <2>1 DEF Outcomes
    <2>3. views = 0
      BY <1>5 DEF InitImGui
    <2>4. m_RenderTargetView' \in BOOLEAN /\ views' = (IF m_RenderTargetView' THEN 1 ELSE 0) /\ (m_RenderTargetView' <=> ok)
      BY <1>4, <2>1, <2>2, <2>3
    <2> QED
      BY <1>5, <2>2, <2>4 DEF InitImGui, Initialize, hookVars
  <1>6. CASE ResizeBuffersEnd
    <2>1. PICK ok \in Outcomes : CreateView(ok)
      BY <1>6 DEF ResizeBuffersEnd
    <2>2. ok \in BOOLEAN /\ (~ok => "failure" \in trouble)
      BY <2>1 DEF Outcomes
    <2>3. views = 0
      BY <1>6 DEF ResizeBuffersEnd
    <2>4. m_RenderTargetView' \in BOOLEAN /\ views' = (IF m_RenderTargetView' THEN 1 ELSE 0) /\ (m_RenderTargetView' <=> ok)
      BY <1>4, <2>1, <2>2, <2>3
    <2> QED
      BY <1>6, <2>2, <2>4 DEF ResizeBuffersEnd, hookVars, editorVars
  <1>7. CASE ResizeBuffers
    <2>1. views = 1 /\ bInitImGui /\ views' = views - 1 /\ m_RenderTargetView' = FALSE
      BY <1>7 DEF ResizeBuffers
    <2>2. views' = 0
      BY <2>1
    <2> QED
      BY <1>7, <2>1, <2>2 DEF ResizeBuffers, hookVars, editorVars
  <1>8. CASE InitImGuiFails \/ DrawFault \/ ResizeFault
    BY <1>8 DEF InitImGuiFails, DrawFault, ResizeFault, Fault, hookVars, editorVars
  <1>9. CASE Present \/ EndFrame \/ Resize
    BY <1>9 DEF Present, EndFrame, Resize, hookVars, editorVars
  <1>10. CASE UseEditor \/ Others
    <2>1. UNCHANGED <<hookVars, render, windowVars>>
      BY <1>10 DEF UseEditor, Others
    <2>2. UNCHANGED trouble
      BY <1>0, <1>10 DEF OverlayNext
    <2> QED
      BY <2>1, <2>2 DEF hookVars
  <1>11. CASE UNCHANGED overlayVars
    BY <1>11 DEF overlayVars, hookVars, editorVars
  <1> QED
    BY <1>1, <1>2, <1>3, <1>5, <1>6, <1>7, <1>8, <1>9, <1>10, <1>11 DEF OverlayNext

\* Every step keeps ResizeSafe: only a resize that finds a reference is blocked, and
\* after InitImGui the pointer is null only if Direct3D refused a view.
LEMMA NextResize == WindowInv /\ ResizeSafe /\ [OverlayNext]_overlayVars => ResizeSafe'
  <1> SUFFICES ASSUME WindowInv, ResizeSafe, [OverlayNext]_overlayVars PROVE ResizeSafe'
    OBVIOUS
  <1> USE DEF ResizeSafe
  <1>1. CASE HookPresent \/ HookResize \/ AskUnhook \/ UnhookWindow \/ UnhookPresent \/ UnhookResize
    BY <1>1 DEF HookPresent, HookResize, AskUnhook, UnhookWindow, UnhookPresent, UnhookResize, windowVars, editorVars
  <1>2. CASE InitImGui
    BY <1>2 DEF InitImGui, Running
  <1>3. CASE InitImGuiFails \/ DrawFault
    BY <1>3 DEF InitImGuiFails, DrawFault, Fault, windowVars, editorVars
  <1>4. CASE ResizeFault
    BY <1>4 DEF ResizeFault, Fault, WindowInv, windowVars, editorVars
  <1>5. CASE Present \/ EndFrame
    BY <1>5 DEF Present, EndFrame, windowVars, editorVars
  <1>6. CASE UseEditor \/ Others
    BY <1>6 DEF UseEditor, Others, Running, windowVars
  <1>7. CASE Resize
    BY <1>7 DEF Resize, WindowInv, windowVars, editorVars
  <1>8. CASE ResizeBuffers
    <2>1. views = 1 /\ views' = views - 1
      BY <1>8 DEF ResizeBuffers, WindowInv
    <2>2. ~(views' > 0)
      BY <2>1
    <2> QED
      BY <1>8, <2>2 DEF ResizeBuffers, editorVars
  <1>9. CASE ResizeBuffersEnd
    BY <1>9 DEF ResizeBuffersEnd, editorVars
  <1>10. CASE UNCHANGED overlayVars
    BY <1>10 DEF overlayVars, windowVars, editorVars
  <1> QED
    BY <1>1, <1>2, <1>3, <1>4, <1>5, <1>6, <1>7, <1>8, <1>9, <1>10 DEF OverlayNext

\* Every step keeps WindowRestored: the procedure put back is the one InitImGui found.
LEMMA NextRestored == WindowInv /\ WindowRestored /\ [OverlayNext]_overlayVars => WindowRestored'
  <1> SUFFICES ASSUME WindowInv, WindowRestored, [OverlayNext]_overlayVars PROVE WindowRestored'
    OBVIOUS
  <1> USE DEF WindowRestored
  <1>1. CASE HookPresent \/ HookResize \/ AskUnhook \/ UnhookPresent \/ UnhookResize
    BY <1>1 DEF HookPresent, HookResize, AskUnhook, UnhookPresent, UnhookResize, windowVars
  <1>2. CASE UnhookWindow
    BY <1>2 DEF UnhookWindow, WindowInv
  <1>3. CASE InitImGui
    BY <1>3 DEF InitImGui, WindowInv, hookVars
  <1>4. CASE InitImGuiFails \/ DrawFault \/ ResizeFault
    BY <1>4 DEF InitImGuiFails, DrawFault, ResizeFault, Fault, hookVars, windowVars
  <1>5. CASE Present \/ EndFrame \/ UseEditor \/ Others
    BY <1>5 DEF Present, EndFrame, UseEditor, Others, hookVars, windowVars
  <1>6. CASE Resize \/ ResizeBuffers \/ ResizeBuffersEnd
    BY <1>6 DEF Resize, ResizeBuffers, ResizeBuffersEnd, hookVars, windowVars
  <1>7. CASE UNCHANGED overlayVars
    BY <1>7 DEF overlayVars, hookVars, windowVars
  <1> QED
    BY <1>1, <1>2, <1>3, <1>4, <1>5, <1>6, <1>7 DEF OverlayNext

\* Every step of the overlay is a step of the editor, or leaves it alone.
LEMMA NextEditor == EditorInv /\ [OverlayNext]_overlayVars => EditorInv'
  <1> SUFFICES ASSUME EditorInv, [OverlayNext]_overlayVars PROVE EditorInv'
    OBVIOUS
  <1>1. CASE HookPresent \/ HookResize \/ AskUnhook \/ UnhookWindow \/ UnhookPresent \/ UnhookResize
    BY <1>1, EditorSteps DEF HookPresent, HookResize, AskUnhook, UnhookWindow, UnhookPresent, UnhookResize
  <1>2. CASE InitImGui \/ UseEditor \/ Others
    BY <1>2, EditorSteps DEF InitImGui, UseEditor, Others
  <1>3. CASE InitImGuiFails \/ DrawFault \/ ResizeFault
    BY <1>3, EditorSteps DEF InitImGuiFails, DrawFault, ResizeFault, Fault
  <1>4. CASE Present \/ EndFrame \/ Resize \/ ResizeBuffers \/ ResizeBuffersEnd
    BY <1>4, EditorSteps DEF Present, EndFrame, Resize, ResizeBuffers, ResizeBuffersEnd
  <1>5. CASE UNCHANGED overlayVars
    BY <1>5, EditorSteps DEF overlayVars
  <1> QED
    BY <1>1, <1>2, <1>3, <1>4, <1>5 DEF OverlayNext

-------------------------------------------------------------------------------

\* The inductive invariant holds before the first hook and is kept by every step.
THEOREM Invariant == OverlaySpec => []OverlayInv
  <1>1. OverlayInit => OverlayInv
    <2> SUFFICES ASSUME OverlayInit PROVE OverlayInv
      OBVIOUS
    <2>1. WindowInv /\ ResizeSafe /\ WindowRestored
      BY DEF OverlayInit, WindowInv, ResizeSafe, WindowRestored
    <2>2. EditorInit
      BY DEF OverlayInit
    <2>3. files \in [FileNames -> {NoFile} \cup Foreign]
      BY <2>2 DEF EditorInit
    <2>4. \A n \in FileNames : files[n] # NoFile
             => files[n] \in Contents /\ ~files[n].own /\ (files[n].len < BufferSize \/ "large" \in trouble)
      BY <2>3, ForeignIs
    <2>5. EditorType
      BY <2>2, <2>3, <2>4, EditorAssumption DEF EditorInit, EditorType, Text
    <2>6. FilesFit
      BY <2>4 DEF FilesFit
    <2>7. Listed /\ TextBelongs
      BY <2>2, EditorAssumption DEF EditorInit, Listed, TextBelongs, Text
    <2> QED
      BY <2>1, <2>5, <2>6, <2>7 DEF OverlayInv, EditorInv
  <1>2. OverlayInv /\ [OverlayNext]_overlayVars => OverlayInv'
    BY NextEditor, NextWindow, NextResize, NextRestored DEF OverlayInv
  <1> QED
    BY <1>1, <1>2, PTL DEF OverlaySpec

\* No sequence of buttons makes Save write one file's text into another, and the index
\* stays in the list, unless another program changes the directory, a listing or another
\* input or output fails, or (the text) a file does not fit.
THEOREM SaveIsSafe == OverlaySpec => []BufferBelongs
  <1>1. OverlayInv => BufferBelongs
    BY DEF OverlayInv, EditorInv, EditorType, Listed, TextBelongs, BufferBelongs, SelectionValid, Calm
  <1> QED
    BY <1>1, Invariant, PTL

\* A file the editor wrote can always be loaded again.
THEOREM OwnFilesReload == OverlaySpec => []Reloadable
  <1>1. OverlayInv => Reloadable
    BY FitsIs DEF OverlayInv, EditorInv, EditorType, FilesFit, Reloadable
  <1> QED
    BY <1>1, Invariant, PTL

\* The view is released for every hooked resize, and missing only for the reasons
\* ResizeSafe names.
THEOREM ResizesAreSafe == OverlaySpec => []ResizeSafe
  BY Invariant, PTL DEF OverlayInv

\* After UnhookD3D the game's window has its own procedure again.
THEOREM WindowIsRestored == OverlaySpec => []WindowRestored
  BY Invariant, PTL DEF OverlayInv
==============================================================================
