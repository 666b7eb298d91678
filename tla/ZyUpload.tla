------------------------------ MODULE ZyUpload ------------------------------
(***************************************************************************)
(* The upload page of the cloud disk (resources/yundisk/zyupload): ZYFILE  *)
(* keeps the files to upload and sends each in a request of its own;       *)
(* zyUpload shows a preview of every file, which it composes while file    *)
(* readers work in the background.  Both run on the one thread of the      *)
(* browser: a step is the handler of one event, from its start to its end. *)
(*                                                                         *)
(* The answers to the requests, the ends of the readers and the clicks of  *)
(* the user arrive in any order.  The readers of a selection run one after *)
(* another, and the one that ends looks for the file it read in "file",    *)
(* which funDealtPreviewHtml does not declare: one variable of the page,   *)
(* shared by all the selections.                                           *)
(*                                                                         *)
(* Bounds: MaxFiles files are taken over a session, at most MaxBatch in a  *)
(* selection, and MaxXhr requests are under way at a time.                 *)
(***************************************************************************)
EXTENDS Naturals, Sequences, Functions, FiniteSets

CONSTANTS
    Name,      \* names of files
    MaxFiles,  \* bound: files taken over
    MaxBatch,  \* bound: files of one selection
    MaxXhr,    \* bound: requests under way
    NULL       \* undefined

ASSUME BoundsAssumption == {MaxFiles, MaxBatch, MaxXhr} \subseteq Nat \ {0}

VARIABLES
    uploadFile,     \* ZYFILE: the files still to be uploaded
    perUploadFile,  \* ZYFILE: all the files taken over; an index points here
    fileNum,        \* ZYFILE: the index of the next file
    finishDel,      \* the option to hide what was uploaded
    file,           \* the variable of the page that names the file being read
    reading,        \* the selections whose previews are being composed
    preview,        \* the elements of the preview area
    status,         \* the number of files the status line shows
    xhr,            \* file -> its requests under way
    loaded,         \* history: the files with an answered request
    failed,         \* history: a request failed
    removed,        \* history: the files the user removed
    complete,       \* history: onComplete was called since the last selection
    overlap         \* history: a selection was made while readers were at work

vars == <<uploadFile, perUploadFile, fileNum, finishDel, file, reading, preview,
          status, xhr, loaded, failed, removed, complete, overlap>>
lists == <<uploadFile, perUploadFile, fileNum, finishDel>>
answers == <<xhr, loaded, failed, removed, complete>>

(* A file object of the browser; id is its identity, index what the code gives it. *)
Id == 1..MaxFiles
File == [id : Id, name : Name, index : 0..(MaxFiles - 1)]

(* Undefined is no file. *)
ASSUME NullAssumption == NULL \notin File

(* What the user picks: a name, and whether type and size are acceptable. *)
Pick == [name : Name, eligible : BOOLEAN]

Names(s) == {f.name : f \in Range(s)}
Ids(s) == {f.id : f \in Range(s)}

(* The number of requests under way, of all files together. *)
Sum(f) ==
    LET sum[i \in 0..MaxFiles] == IF i = 0 THEN 0 ELSE sum[i - 1] + f[i]
    IN  sum[MaxFiles]

(* What a loop over s that pushes all but the members of E leaves behind. *)
Omit(s, E) ==
    LET push[i \in 0..Len(s)] ==
            IF i = 0 THEN <<>>
            ELSE IF s[i] \in E THEN push[i - 1] ELSE Append(push[i - 1], s[i])
    IN  push[Len(s)]

Init ==
    /\ uploadFile = <<>> /\ perUploadFile = <<>> /\ fileNum = 0
    /\ finishDel \in BOOLEAN
    /\ file = NULL
    /\ reading = {}
    /\ preview = <<>>
    /\ status = 0
    /\ xhr = [i \in Id |-> 0]
    /\ loaded = {} /\ removed = {} /\ failed = FALSE
    /\ complete = FALSE
    /\ overlap = FALSE
------------------------------------------------------------------------------
(***************************************************************************)
(* ZYFILE: selection.                                                      *)
(***************************************************************************)
funFilterEligibleFile(picks) == Omit(picks, {p \in Pick : ~p.eligible})

(* The eligible picks whose names are not among the files still to upload. *)
Fresh(picks) ==
    Omit(funFilterEligibleFile(picks), {p \in Pick : p.name \in Names(uploadFile)})

Dealt_FromZero(picks) ==
    LET fresh == Fresh(picks)
    IN  [k \in 1..Len(fresh) |->
            [id |-> Len(perUploadFile) + k, name |-> fresh[k].name, index |-> k - 1]]

Dealt_FromOne(picks) ==
    LET fresh == Fresh(picks)
    IN  [k \in 1..Len(fresh) |->
            [id |-> Len(perUploadFile) + k, name |-> fresh[k].name, index |-> fileNum + k]]

(* funDealtFiles numbers them on from fileNum. *)
Dealt(picks) ==
    LET fresh == Fresh(picks)
    IN  [k \in 1..Len(fresh) |->
            [id |-> Len(perUploadFile) + k, name |-> fresh[k].name, index |-> fileNum + k - 1]]

(* A new element of the preview area, for the file with this index. *)
Element(index) == [index |-> index, shown |-> TRUE]

Elements(html) == [k \in DOMAIN html |-> Element(html[k])]

funDealtPreviewHtml_Prepends(others, sel, i, html) ==
    IF i \in DOMAIN sel
    THEN /\ file' = sel[i]
         /\ reading' = others \cup {[sel |-> sel, i |-> i, html |-> html]}
         /\ UNCHANGED preview
    ELSE /\ file' = NULL
         /\ reading' = others
         /\ preview' = Elements(html) \o preview

(***************************************************************************)
(* funDealtPreviewHtml for the i-th file of a selection: start a reader on *)
(* it, or append what was composed to the preview area when there is none. *)
(* Either way the shared variable now names that file.                     *)
(***************************************************************************)
funDealtPreviewHtml(others, sel, i, html) ==
    IF i \in DOMAIN sel
    THEN /\ file' = sel[i]
         /\ reading' = others \cup {[sel |-> sel, i |-> i, html |-> html]}
         /\ UNCHANGED preview
    ELSE /\ file' = NULL
         /\ reading' = others
         /\ preview' = preview \o Elements(html)

(* funGetFiles with funDealtFiles and the onSelect of zyUpload. *)
funGetFiles(picks) ==
    LET sel == Dealt(picks) IN
    /\ Len(perUploadFile) + Len(sel) <= MaxFiles
    /\ perUploadFile' = perUploadFile \o sel
    /\ fileNum' = fileNum + Len(sel)
    /\ uploadFile' = uploadFile \o sel
    /\ status' = Len(uploadFile')
    /\ funDealtPreviewHtml(reading, sel, 1, <<>>)
    /\ complete' = FALSE
    /\ overlap' = (overlap \/ reading # {})
    /\ UNCHANGED <<finishDel, xhr, loaded, failed, removed>>

(* reader.onload: the preview is composed for the file the variable names now. *)
reader_onload(r) ==
    /\ r \in reading
    /\ file # NULL
    /\ funDealtPreviewHtml(reading \ {r}, r.sel, r.i + 1, Append(r.html, file.index))
    /\ UNCHANGED <<lists, status, answers, overlap>>

(* With the variable undefined funDisposePreviewHtml throws: the previews are lost. *)
reader_onload_Throws(r) ==
    /\ r \in reading
    /\ file = NULL
    /\ reading' = reading \ {r}
    /\ UNCHANGED <<lists, file, preview, status, answers, overlap>>
------------------------------------------------------------------------------
(***************************************************************************)
(* ZYFILE: removal and upload; the callbacks of zyUpload.                  *)
(***************************************************************************)
(* The first element with this index is faded out. *)
Hide(index) ==
    [k \in DOMAIN preview |->
        [preview[k] EXCEPT !.shown = @ /\ ~(/\ preview[k].index = index
                                            /\ \A j \in 1..(k - 1) : preview[j].index # index)]]

funDeleteFile_Keeps(index) == uploadFile

(* What is left of uploadFile without the file the index points to. *)
funDeleteFile(index) == Omit(uploadFile, {perUploadFile[index + 1]})

(***************************************************************************)
(* A click on the delete button of an element.  The handler is bound again *)
(* whenever previews are appended and then runs more than once, to the     *)
(* same effect.                                                            *)
(***************************************************************************)
file_del(k) ==
    /\ preview[k].shown
    /\ uploadFile' = funDeleteFile(preview[k].index)
    /\ preview' = Hide(preview[k].index)
    /\ status' = Len(uploadFile')
    /\ removed' = removed \cup {perUploadFile[preview[k].index + 1].id}
    /\ UNCHANGED <<perUploadFile, fileNum, finishDel, file, reading, xhr, loaded, failed,
                   complete, overlap>>

(* The upload button: a request for every file still to be uploaded. *)
funUploadFiles ==
    /\ uploadFile # <<>>
    /\ Sum(xhr) + Len(uploadFile) <= MaxXhr
    /\ xhr' = [i \in Id |-> IF i \in Ids(uploadFile) THEN xhr[i] + 1 ELSE xhr[i]]
    /\ UNCHANGED <<lists, file, reading, preview, status, loaded, failed, removed, complete,
                   overlap>>

(* The button with nothing to upload: an alert. *)
upload_btn_Nothing ==
    /\ uploadFile = <<>>
    /\ UNCHANGED vars

onSuccess_NoStatus(f) ==
    /\ preview' = IF finishDel THEN Hide(f.index) ELSE preview
    /\ UNCHANGED status

(* onSuccess of zyUpload: what was uploaded is hidden when finishDel is set. *)
onSuccess(f) ==
    /\ preview' = IF finishDel THEN Hide(f.index) ELSE preview
    /\ status' = IF finishDel THEN Len(uploadFile') ELSE status

onComplete_BeforeDelete == complete' = (complete \/ uploadFile = <<>>)

(* onComplete is called when no file is left once the answered one is deleted. *)
onComplete == complete' = (complete \/ uploadFile' = <<>>)

(* The load event: the request was answered, whatever the answer says. *)
xhr_load(f) ==
    /\ xhr[f.id] > 0
    /\ xhr' = [xhr EXCEPT ![f.id] = @ - 1]
    /\ uploadFile' = funDeleteFile(f.index)
    /\ onSuccess(f)
    /\ onComplete
    /\ loaded' = loaded \cup {f.id}
    /\ UNCHANGED <<perUploadFile, fileNum, finishDel, file, reading, failed, removed, overlap>>

(* The error event: the file stays among those to upload. *)
xhr_error(f) ==
    /\ xhr[f.id] > 0
    /\ xhr' = [xhr EXCEPT ![f.id] = @ - 1]
    /\ failed' = TRUE
    /\ UNCHANGED <<lists, file, reading, preview, status, loaded, removed, complete, overlap>>
------------------------------------------------------------------------------
Next ==
    \/ \E n \in 1..MaxBatch : \E picks \in [1..n -> Pick] : funGetFiles(picks)
    \/ \E r \in reading : reader_onload(r) \/ reader_onload_Throws(r)
    \/ \E k \in DOMAIN preview : file_del(k)
    \/ funUploadFiles
    \/ upload_btn_Nothing
    \/ \E f \in Range(perUploadFile) : xhr_load(f) \/ xhr_error(f)

(* The browser ends every request and every reader; the user need do nothing. *)
Answer(i) == \E f \in Range(perUploadFile) : f.id = i /\ (xhr_load(f) \/ xhr_error(f))
Read == \E r \in reading : reader_onload(r) \/ reader_onload_Throws(r)

Fairness == WF_vars(Read) /\ \A i \in Id : WF_vars(Answer(i))

Spec == Init /\ [][Next]_vars /\ Fairness
------------------------------------------------------------------------------
(* The variables range over files, elements and counts within the bounds. *)
TypeOK ==
    /\ Range(uploadFile) \cup Range(perUploadFile) \subseteq File
    /\ fileNum \in 0..MaxFiles
    /\ finishDel \in BOOLEAN /\ complete \in BOOLEAN /\ overlap \in BOOLEAN
    /\ file \in File \cup {NULL}
    /\ \A r \in reading : /\ Range(r.sel) \subseteq File
                          /\ r.i \in DOMAIN r.sel
                          /\ Range(r.html) \subseteq 0..(MaxFiles - 1)
    /\ \A e \in Range(preview) : e \in [index : 0..(MaxFiles - 1), shown : BOOLEAN]
    /\ status \in 0..MaxFiles
    /\ xhr \in [Id -> 0..MaxXhr]
    /\ failed \in BOOLEAN /\ {loaded, removed} \subseteq SUBSET Id

(* The files still to be uploaded are those taken over, in their order, but *)
(* for the ones the user removed and the ones with an answered request; an  *)
(* index finds its own file, however selections, removals and answers mix.  *)
FilesAccounted ==
    /\ uploadFile = Omit(perUploadFile, {f \in Range(perUploadFile) : f.id \in loaded \cup removed})
    /\ \A k \in DOMAIN perUploadFile : perUploadFile[k].index = k - 1

(* The status line shows how many files are left to upload; without         *)
(* finishDel it does not notice the ones that were uploaded.                *)
StatusCounts ==
    /\ finishDel => status = Len(uploadFile)
    /\ status >= Len(uploadFile)
    /\ status - Len(uploadFile) <= Cardinality(loaded)

(* While no selection is made before the readers of the one before are      *)
(* through, the preview area shows the files taken over, in their order.    *)
PreviewInOrder ==
    ~overlap =>
        /\ reading = {} => Len(preview) = Len(perUploadFile)
        /\ \A k \in DOMAIN preview : preview[k].index = perUploadFile[k].index

(* When no reader is at work, every file taken over has its preview, and    *)
(* with it the only button that removes it.                                 *)
PreviewForEveryFile ==
    reading = {} => {e.index : e \in Range(preview)} = {f.index : f \in Range(perUploadFile)}

(* A request is made only for a file that is neither uploaded nor removed,  *)
(* also after a failure and when the button is clicked again.               *)
NeverResent ==
    [][\A i \in Id : xhr'[i] > xhr[i] => i \notin loaded \cup removed]_vars

(* When all the files left are on their way and no request fails,           *)
(* onComplete is called, unless the user selects more files meanwhile.      *)
Completes ==
    \A n \in Id :
        (fileNum = n /\ uploadFile # <<>> /\ ~failed /\ \A i \in Ids(uploadFile) : xhr[i] > 0)
            ~> (complete \/ failed \/ fileNum # n)
==============================================================================
