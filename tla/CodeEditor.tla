------------------------------ MODULE CodeEditor ------------------------------
(***************************************************************************)
(* The script editor of the overlay (Menu.cpp, namespace CodeEditor): a    *)
(* list of the files in Scripts\, the index of the selected one, one text  *)
(* buffer, and the buttons that load, save, create and refresh.  A text is *)
(* its length and the file it was loaded from.  Other programs change the  *)
(* directory, files may not fit into the buffer and I/O may fail: which of *)
(* these happen is chosen at the start.                                    *)
(***************************************************************************)
EXTENDS Naturals, Sequences, FiniteSets

CONSTANTS
    Names,         \* the possible *.lua files, in the order the directory lists them
    BufferSize,    \* sizeof(EditorBuffer)
    BomSize,       \* length of the UTF-8 byte order mark
    HeaderLength,  \* length of what RenderNewFileModal writes into a new file
    Lengths,       \* bound: the lengths a text may be given
    NoFile, Placeholder, ErrorText

FileNames == {Names[i] : i \in 1..Len(Names)}

Contents == [len : Nat, bom : BOOLEAN, own : BOOLEAN]

ASSUME EditorAssumption ==
    /\ Names \in Seq(FileNames)
    /\ \A i, j \in 1..Len(Names) : Names[i] = Names[j] => i = j
    /\ {Placeholder, ErrorText} \cap FileNames = {} /\ Placeholder # ErrorText
    /\ NoFile \notin Contents
    /\ BufferSize \in Nat /\ BufferSize > 1 /\ BomSize \in Nat /\ Lengths \subseteq Nat
    /\ HeaderLength \in 0..(BufferSize - 1)

VARIABLES
    files,            \* the directory: per name its text, or NoFile
    scriptFiles, selectedScript,    \* the list; the index, 0 where the code has -1
    EditorBuffer,
    showNewFileModal,
    trouble           \* fixed: which disturbances happen, of Troubles

editorVars == <<files, scriptFiles, selectedScript, EditorBuffer, showNewFileModal, trouble>>

Troubles == {"others", "large", "failure"}   \* other programs, files that do not fit, I/O errors

\* own: the editor was the last to write the file.
File(len, bom, own) == [len |-> len, bom |-> bom, own |-> own]
Text(from, len)     == [from |-> from, len |-> len]

\* The text another program may leave in a file.
Foreign == [len : {l \in Lengths : l < BufferSize \/ "large" \in trouble}, bom : BOOLEAN, own : {FALSE}]

EditorInit ==
    /\ trouble \in SUBSET Troubles
    /\ files \in [FileNames -> {NoFile} \cup Foreign]
    /\ scriptFiles = <<>> /\ selectedScript = 0
    /\ EditorBuffer = Text(Placeholder, 1)
    /\ showNewFileModal = FALSE

------------------------------------------------------------------------------

\* The places in Names of the files that exist, and their list in the same order: its
\* k-th entry is the one with k of them up to its place.
Existing(dir) == {i \in 1..Len(Names) : dir[Names[i]] # NoFile}
Listing(I)    == [k \in 1..Cardinality(I) |-> Names[CHOOSE i \in I : Cardinality({j \in I : j <= i}) = k]]

\* LoadScriptFiles, for a directory dir.  FindFirstFileA may fail and FindNextFileA may
\* end early: then the list is empty or only its beginning.  The index is not touched.
LoadScriptFiles(dir) ==
    LET list == Listing(Existing(dir))
    IN  \/ scriptFiles' = list
        \/ "failure" \in trouble /\ \E k \in 0..Len(list) : scriptFiles' = SubSeq(list, 1, k)

FileSize(f) == f.len + (IF f.bom THEN BomSize ELSE 0)

\* Mutant: the size is compared with the mark still in it.
FitsWithMark(f) == FileSize(f) < BufferSize

\* The mark is skipped before the size is compared.
Fits(f) == LET offset == IF f.bom THEN BomSize ELSE 0 IN FileSize(f) - offset < BufferSize

\* LoadScriptContent of n: nothing happens if the file is gone or does not fit.  An
\* I/O error leaves the buffer alone (the file cannot be opened) or an error message.
LoadScriptContent(n, dir) ==
    LET loads == dir[n] # NoFile /\ Fits(dir[n])
    IN  \/ loads /\ EditorBuffer' = Text(n, dir[n].len)
        \/ (~loads \/ "failure" \in trouble) /\ UNCHANGED EditorBuffer
        \/ "failure" \in trouble /\ EditorBuffer' = Text(ErrorText, 1)

\* CodeEditor::Initialize
Initialize ==
    /\ LoadScriptFiles(files)
    /\ UNCHANGED <<files, selectedScript, EditorBuffer, showNewFileModal, trouble>>

\* The combo box: only another entry than the selected one is loaded.
Select(i) ==
    /\ ~showNewFileModal
    /\ i \in 1..Len(scriptFiles) /\ i # selectedScript
    /\ selectedScript' = i
    /\ LoadScriptContent(scriptFiles[i], files)
    /\ UNCHANGED <<files, scriptFiles, showNewFileModal, trouble>>

\* InputTextMultiline
Type(len) ==
    /\ ~showNewFileModal /\ len < BufferSize
    /\ EditorBuffer' = [EditorBuffer EXCEPT !.len = len]
    /\ UNCHANGED <<files, scriptFiles, selectedScript, showNewFileModal, trouble>>

\* SaveScript of the selected file.  Opening truncates; nothing is reported if the
\* file cannot be opened or written.
Save ==
    /\ ~showNewFileModal
    /\ selectedScript \in 1..Len(scriptFiles)
    /\ \E f \in {File(EditorBuffer.len, TRUE, TRUE)}
                \cup (IF "failure" \in trouble THEN {files[scriptFiles[selectedScript]], File(0, FALSE, TRUE)} ELSE {}) :
          files' = [files EXCEPT ![scriptFiles[selectedScript]] = f]
    /\ UNCHANGED <<scriptFiles, selectedScript, EditorBuffer, showNewFileModal, trouble>>

Refresh ==
    /\ ~showNewFileModal
    /\ LoadScriptFiles(files)
    /\ UNCHANGED <<files, selectedScript, EditorBuffer, showNewFileModal, trouble>>

Clear ==
    /\ ~showNewFileModal
    /\ EditorBuffer' = Text(Placeholder, 1)
    /\ UNCHANGED <<files, scriptFiles, selectedScript, showNewFileModal, trouble>>

New ==
    /\ ~showNewFileModal
    /\ showNewFileModal' = TRUE
    /\ UNCHANGED <<files, scriptFiles, selectedScript, EditorBuffer, trouble>>

\* The text of a new file; its write may fail unnoticed.
NewFile == {File(HeaderLength, FALSE, TRUE)} \cup (IF "failure" \in trouble THEN {File(0, FALSE, TRUE)} ELSE {})

\* Mutant: the new file is listed but not selected.
CreateOnly(n) ==
    /\ showNewFileModal
    /\ \E f \in NewFile : files' = [files EXCEPT ![n] = f]
    /\ LoadScriptFiles(files')
    /\ showNewFileModal' = FALSE
    /\ UNCHANGED <<EditorBuffer, selectedScript, trouble>>

\* Create in RenderNewFileModal: a file of that name is emptied without a question,
\* the list is read again, and if it shows the file, that is selected and loaded.
Create(n) ==
    /\ showNewFileModal
    /\ \E f \in NewFile : files' = [files EXCEPT ![n] = f]
    /\ LoadScriptFiles(files')
    /\ \/ \E i \in 1..Len(scriptFiles') :
             scriptFiles'[i] = n /\ selectedScript' = i /\ LoadScriptContent(n, files')
       \/ /\ \A i \in 1..Len(scriptFiles') : scriptFiles'[i] # n
          /\ UNCHANGED <<selectedScript, EditorBuffer>>
    /\ showNewFileModal' = FALSE
    /\ UNCHANGED trouble

\* Create with a name the list does not hold: it does not end in .lua, or it is the name
\* of an existing file in another case.  The list is read again, the index stays.
CreateUnlisted ==
    /\ showNewFileModal
    /\ \/ UNCHANGED files
       \/ \E n \in FileNames, f \in NewFile : files[n] # NoFile /\ files' = [files EXCEPT ![n] = f]
    /\ LoadScriptFiles(files')
    /\ showNewFileModal' = FALSE
    /\ UNCHANGED <<EditorBuffer, selectedScript, trouble>>

\* Cancel, or a Create that cannot open its file and is cancelled then.
Cancel ==
    /\ showNewFileModal
    /\ showNewFileModal' = FALSE
    /\ UNCHANGED <<files, scriptFiles, selectedScript, EditorBuffer, trouble>>

\* Another program writes, creates or deletes a file.
OthersWrite(n) ==
    /\ "others" \in trouble
    /\ \E f \in {NoFile} \cup Foreign : f # files[n] /\ files' = [files EXCEPT ![n] = f]
    /\ UNCHANGED <<scriptFiles, selectedScript, EditorBuffer, showNewFileModal, trouble>>

Use ==
    \/ \E i \in 1..Len(Names) : Select(i)
    \/ \E len \in Lengths : Type(len)
    \/ \E n \in FileNames : Create(n)
    \/ CreateUnlisted \/ Save \/ Refresh \/ Clear \/ New \/ Cancel

------------------------------------------------------------------------------

\* The combo box of every frame reads scriptFiles[selectedScript].
SelectionValid == selectedScript <= Len(scriptFiles)

\* No sequence of New, Create, Refresh, Select, Clear and Save makes Save write the text
\* of one file into another.  What breaks this is known: the index leaves the list only
\* after another program changed the directory or the directory could not be read to
\* its end; the buffer holds another file's text for the same reasons, or because the
\* selected file does not fit or cannot be read.
BufferBelongs ==
    selectedScript > 0 =>
        /\ ~SelectionValid => trouble \cap {"others", "failure"} # {}
        /\ SelectionValid /\ EditorBuffer.from \in FileNames
              => EditorBuffer.from = scriptFiles[selectedScript] \/ trouble # {}
        /\ EditorBuffer.from = ErrorText => "failure" \in trouble

\* Whatever else happens, a file the editor itself wrote can be loaded again,
\* a text that fills the buffer to its last byte included.
Reloadable == \A n \in FileNames : files[n] # NoFile /\ files[n].own => Fits(files[n])
==============================================================================
