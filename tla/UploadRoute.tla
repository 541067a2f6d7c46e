------------------------------ MODULE UploadRoute ------------------------------
(***************************************************************************)
(* The upload route (http/upload.go) and MultipartFormFile of              *)
(* magicCommon's foundation/net/form.go: the file of a form is copied      *)
(* piece by piece into a file of that name, which os.Create empties first. *)
(* Two uploads of one name have two handles on one file.                   *)
(***************************************************************************)
EXTENDS Naturals, Sequences

CONSTANTS
  Requests,
  FileNames,   \* valid names that uploads give
  Old,         \* whose bytes a file has that is there already
  MaxPieces    \* bound: io.Copy writes a file in so many pieces

UploadAssumption == MaxPieces \in Nat \ {0} /\ Old \notin Requests

VARIABLES
  disk,        \* the upload directory: whose pieces a file holds, "absent" for none
  names,       \* the file name of a request
  upload,      \* what it is doing
  written,     \* pieces that its handle has written
  overlapped,  \* history: another upload of that name had the file open meanwhile
  answer

uploadVars == <<disk, names, upload, written, overlapped>>

Whole(r) == [i \in 1..MaxPieces |-> r]
Hole == "hole"   \* bytes in front of what a handle wrote after another one's os.Create

UploadInit ==
  /\ disk \in [FileNames -> {<<>>, Whole(Old)}]
  /\ names \in [Requests -> FileNames]
  /\ upload = [r \in Requests |-> "idle"]
  /\ written = [r \in Requests |-> 0]
  /\ overlapped = [r \in Requests |-> FALSE]

Turns(r, from, to) == upload[r] = from /\ upload' = [upload EXCEPT ![r] = to]

-------------------------------------------------------------------------------
BeginUpload(r) ==
  /\ Turns(r, "idle", "parse")
  /\ UNCHANGED <<disk, names, written, overlapped, answer>>

\* ParseMultipartForm, FormFile, the checks of the directory and of the name, and
\* os.Create: each of them may fail before the file is touched.
FormFails(r) ==
  /\ Turns(r, "parse", "failed")
  /\ UNCHANGED <<disk, names, written, overlapped, answer>>

\* os.Create empties the file that is there.
Create(r) ==
  LET others == {s \in Requests \ {r} : upload[s] = "copy" /\ names[s] = names[r]} IN
  /\ Turns(r, "parse", "copy")
  /\ disk' = [disk EXCEPT ![names[r]] = <<>>]
  /\ overlapped' = [s \in Requests |->
                      overlapped[s] \/ s \in others \/ (s = r /\ others # {})]
  /\ UNCHANGED <<names, written, answer>>

\* A handle writes at its own offset.
PutAt(f, i, r) ==
  [k \in 1..(IF i > Len(f) THEN i ELSE Len(f)) |->
     IF k = i THEN r ELSE IF k <= Len(f) THEN f[k] ELSE Hole]

CopyPiece(r) ==
  /\ upload[r] = "copy" /\ written[r] < MaxPieces
  /\ written' = [written EXCEPT ![r] = @ + 1]
  /\ disk' = [disk EXCEPT ![names[r]] = PutAt(@, written[r] + 1, r)]
  /\ UNCHANGED <<names, upload, overlapped, answer>>

\* Mutant: the error of io.Copy is logged only.
CopyFails_Logged(r) ==
  /\ written[r] < MaxPieces
  /\ Turns(r, "copy", "ok")
  /\ UNCHANGED <<disk, names, written, overlapped, answer>>

\* io.Copy fails between two pieces; what it wrote stays.
CopyFails(r) ==
  /\ written[r] < MaxPieces
  /\ Turns(r, "copy", "failed")
  /\ UNCHANGED <<disk, names, written, overlapped, answer>>

Copied(r) ==
  /\ written[r] = MaxPieces
  /\ Turns(r, "copy", "ok")
  /\ UNCHANGED <<disk, names, written, overlapped, answer>>

\* The deferred function: the callback is given err, or the status tells it.
AnswerUpload(r) ==
  /\ \/ Turns(r, "ok", "done") /\ answer' = [answer EXCEPT ![r] = "200"]
     \/ Turns(r, "failed", "done") /\ answer' = [answer EXCEPT ![r] = "400"]
  /\ UNCHANGED <<disk, names, written, overlapped>>

UploadStep(r) ==
  FormFails(r) \/ Create(r) \/ CopyPiece(r) \/ CopyFails(r) \/ Copied(r) \/ AnswerUpload(r)

-------------------------------------------------------------------------------
\* A file that no upload has open is the old one, the whole file of an upload that is
\* answered 200, or the beginning of one that is answered 400, unless two uploads of
\* that name overlapped; nothing that was answered 200 is left in pieces
\* (upload.go:59-88, form.go:51-68).
UploadedIsWhole ==
  \A n \in FileNames :
    LET its == {r \in Requests : names[r] = n} IN
    (\A r \in its : upload[r] \in {"idle", "parse", "done"} /\ ~overlapped[r]) =>
      \A i \in 1..Len(disk[n]) :
        /\ disk[n][i] = disk[n][1]
        /\ disk[n][1] \in its =>
             answer[disk[n][1]] = IF Len(disk[n]) = MaxPieces THEN "200" ELSE "400"

===============================================================================
