------------------------------ MODULE PdfStore ------------------------------
(***************************************************************************)
(* Generated PDFs: ledger/pdf_store.py and the end of the views of         *)
(* ledger/pdf_views.py.  One user's folder; each file-system call of       *)
(* store_pdf, find_pdf and delete_expired is a step, and several sweeps    *)
(* may overlap.  An action for each call; Worker composes them.            *)
(*                                                                         *)
(* A document is written under a name that ends in .part and then renamed; *)
(* it keeps the time it was written.                                       *)
(***************************************************************************)
EXTENDS Integers, FiniteSets

CONSTANTS
  Files,    \* documents ever generated
  Sweepers  \* processes that may run delete_expired

VARIABLES
  wanted,   \* documents that users ask for
  folder,   \* the user's folder exists
  disk,     \* each document: "none", "part", "pdf", or "torn", a .pdf not yet complete
  old,      \* documents written GENERATED_PDF_TTL_SECONDS ago or longer
  writer,   \* each document's request
  reader,   \* each document's download
  sweep     \* each process's delete_expired: where it is, and the names left of its listing

store == <<wanted, folder, disk, old, writer, reader>>

NoSweep == [at |-> "off", left |-> {}]

InitStore(files) ==
  /\ wanted = files
  /\ folder = FALSE
  /\ disk = [f \in Files |-> "none"] /\ old = {}
  /\ writer = [f \in Files |-> "new"] /\ reader = [f \in Files |-> "none"]
  /\ sweep = [p \in Sweepers |-> NoSweep]

Writes(f, from, to) == writer[f] = from /\ writer' = [writer EXCEPT ![f] = to]

-----------------------------------------------------------------------------
(* store_pdf.                                                              *)

MakeFolder(f) ==
  /\ f \in wanted /\ Writes(f, "new", "made")
  /\ folder' = TRUE
  /\ UNCHANGED <<wanted, disk, old, reader, sweep>>

\* Mutant: the document is written under its final name.
BeginsAsFinal == "torn"

BeginsAs == "part"

\* write_bytes opens the file; a sweep may have removed the empty folder.
OpenFile(f) ==
  /\ IF folder
     THEN Writes(f, "made", "open") /\ disk' = [disk EXCEPT ![f] = BeginsAs]
     ELSE Writes(f, "made", "failed") /\ UNCHANGED disk
  /\ UNCHANGED <<wanted, folder, old, reader, sweep>>

\* os.replace fails on a file that was swept as it was being written.
Rename(f) ==
  /\ IF disk[f] # "none"
     THEN Writes(f, "open", "stored") /\ disk' = [disk EXCEPT ![f] = "pdf"]
     ELSE Writes(f, "open", "failed") /\ UNCHANGED disk
  /\ UNCHANGED <<wanted, folder, old, reader, sweep>>

WriterDies(f) ==
  /\ writer[f] \in {"made", "open"}
  /\ writer' = [writer EXCEPT ![f] = "failed"]
  /\ UNCHANGED <<wanted, folder, disk, old, reader, sweep>>

Ages(f) ==
  /\ disk[f] # "none" /\ f \notin old
  /\ old' = old \cup {f}
  /\ UNCHANGED <<wanted, folder, disk, writer, reader, sweep>>

-----------------------------------------------------------------------------
(* pdf_file_view: find_pdf, which globs for *.pdf, and the file is opened. *)

Find(f) ==
  /\ reader[f] = "none" /\ writer[f] # "new"
  /\ reader' = [reader EXCEPT ![f] = IF disk[f] \in {"pdf", "torn"} THEN "found" ELSE "missing"]
  /\ UNCHANGED <<wanted, folder, disk, old, writer, sweep>>

\* A sweep may have removed the file since; one that is open can be read to its end.
Open(f) ==
  /\ reader[f] = "found"
  /\ reader' = [reader EXCEPT ![f] = CASE disk[f] = "pdf" -> "whole"
                                       [] disk[f] = "torn" -> "half"
                                       [] OTHER -> "error"]
  /\ UNCHANGED <<wanted, folder, disk, old, writer, sweep>>

-----------------------------------------------------------------------------
(* delete_expired.                                                         *)

Sweeps(p, at, left) == sweep' = [sweep EXCEPT ![p] = [at |-> at, left |-> left]]
Stored == {f \in Files : disk[f] # "none"}

BeginSweep(p) == IF folder THEN Sweeps(p, "list", {}) ELSE Sweeps(p, "off", {})

\* iterdir fails, and the sweep with it, when another one has removed the folder.
List(p) ==
  /\ sweep[p].at = "list"
  /\ IF folder THEN Sweeps(p, "files", {<<f, disk[f]>> : f \in Stored}) ELSE Sweeps(p, "off", {})
  /\ UNCHANGED store

\* The listed name is still there and its file has expired.
Removable(f, name) == disk[f] = name /\ f \in old

SweepFile(p) ==
  /\ sweep[p].at = "files"
  /\ \E entry \in sweep[p].left :
       /\ disk' = IF Removable(entry[1], entry[2]) THEN [disk EXCEPT ![entry[1]] = "none"] ELSE disk
       /\ Sweeps(p, "files", sweep[p].left \ {entry})
  /\ UNCHANGED <<wanted, folder, old, writer, reader>>

\* rmdir only succeeds when the folder is empty.
RemoveFolder(p) ==
  /\ sweep[p].at = "files" /\ sweep[p].left = {}
  /\ folder' = (folder /\ Stored # {})
  /\ Sweeps(p, "off", {})
  /\ UNCHANGED <<wanted, disk, old, writer, reader>>

SweepStep(p) == List(p) \/ SweepFile(p) \/ RemoveFolder(p)

Request(f) ==
  \/ MakeFolder(f) \/ OpenFile(f) \/ Rename(f) \/ WriterDies(f) \/ Ages(f) \/ Find(f) \/ Open(f)

-----------------------------------------------------------------------------
(* Properties.                                                             *)

\* A download is never half a document, and finds every document that was stored and has
\* not expired, whatever sweeps and writers do at the same time.  "a download never sees a
\* half-written file".
DownloadsWhole ==
  \A f \in Files : /\ reader[f] # "half"
                   /\ writer[f] = "stored" /\ f \notin old => disk[f] = "pdf" /\ reader[f] # "error"
=============================================================================
