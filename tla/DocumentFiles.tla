---------------------------- MODULE DocumentFiles ----------------------------
(***************************************************************************)
(* FileService for one document: uploads and deletions, each a transaction *)
(* over the table of files together with a write to a file storage that no *)
(* transaction covers.  At most one file is the main one; a partial unique *)
(* index guards it, and the rows an open transaction has touched are       *)
(* locked.                                                                 *)
(*                                                                         *)
(* files, main, uploaded and deleted are what is committed; what a         *)
(* transaction has done so far is in the record of its worker.  MIME type, *)
(* extension, signature and size checks are left out: an upload here is    *)
(* one that passed them.                                                   *)
(***************************************************************************)
EXTENDS Naturals, FiniteSets

CONSTANTS
    FileIds,      \* primary keys, each used for one upload at most
    Workers,
    MaxDeletions  \* bound: FILE_DELETED records for one file

ASSUME FilesAssumption == MaxDeletions \in Nat

VARIABLES
    editable,  \* the document is a draft or returned
    files,     \* the rows of DocumentFile
    main,      \* those with is_main
    blobs,     \* the names in the file storage
    uploaded,  \* the files with a FILE_UPLOADED record in the history
    deleted,   \* deleted[f]: the number of FILE_DELETED records of f
    task       \* task[w]: the request worker w is serving

vars == <<editable, files, main, blobs, uploaded, deleted, task>>

Idle == [phase |-> "idle"]

\* as_main: the new file becomes the main one; candidates: the main rows the
\* UPDATE saw when it began; unset: the rows it has changed and locked.
Upload ==
    [phase: {"loaded", "chosen", "updating", "updated", "stored", "inserted"}, file: FileIds,
     as_main: BOOLEAN, candidates: SUBSET FileIds, unset: SUBSET FileIds]

Deletion == [phase: {"found", "removed", "committed"}, file: FileIds]

TypeOK ==
    /\ editable \in BOOLEAN
    /\ files \in SUBSET FileIds /\ main \in SUBSET files
    /\ blobs \in SUBSET FileIds /\ uploaded \in SUBSET FileIds
    /\ deleted \in [FileIds -> Nat]
    /\ task \in [Workers -> {Idle} \cup Upload \cup Deletion]

Init ==
    /\ editable = TRUE
    /\ files = {} /\ main = {} /\ blobs = {} /\ uploaded = {}
    /\ deleted = [f \in FileIds |-> 0]
    /\ task = [w \in Workers |-> Idle]

-----------------------------------------------------------------------------
(* Rows that open transactions have changed.                               *)

InPhase(w, phases) == task[w].phase \in phases

Unset(w) == IF InPhase(w, {"updated", "stored", "inserted"}) THEN task[w].unset ELSE {}
Removed(w) == IF InPhase(w, {"removed"}) THEN {task[w].file} ELSE {}
InsertedMain(w) == InPhase(w, {"inserted"}) /\ task[w].as_main

LockedByOthers(w) == UNION {Unset(v) \cup Removed(v) : v \in Workers \ {w}}

\* The workers that are about to record a deletion of f.
Deleting(f) == {w \in Workers : InPhase(w, {"found", "removed"}) /\ task[w].file = f}

Used(f) == f \in blobs \cup uploaded \/ \E w \in Workers : ~InPhase(w, {"idle"}) /\ task[w].file = f

-----------------------------------------------------------------------------
(* FileService.upload.                                                     *)

\* The view has loaded the document; ensure_can_edit looks at that copy.
BeginUpload(w, f) ==
    /\ task[w] = Idle
    /\ editable
    /\ ~Used(f)
    /\ \E asked \in BOOLEAN :
          task' = [task EXCEPT ![w] =
             [phase |-> "loaded", file |-> f, as_main |-> asked,
              candidates |-> {}, unset |-> {}]]
    /\ UNCHANGED <<editable, files, main, blobs, uploaded, deleted>>

\* Mutant: the first file is main only when asked.
MakesMainWhenAsked(asked, existing) == asked

\* The first file of a document is its main file, asked or not.
MakesMain(asked, existing) == asked \/ existing = {}

\* existing_files is one query; nothing stops another upload from committing
\* between it and the next statement.
ChooseMain(w) ==
    /\ InPhase(w, {"loaded"})
    /\ LET makes_main == MakesMain(task[w].as_main, files) IN
       task' = [task EXCEPT ![w].phase = IF makes_main THEN "chosen" ELSE "updated",
                            ![w].as_main = makes_main]
    /\ UNCHANGED <<editable, files, main, blobs, uploaded, deleted>>

\* The UPDATE that takes is_main from the others sees the main rows there are
\* when it begins ...
BeginUpdate(w) ==
    /\ InPhase(w, {"chosen"})
    /\ task' = [task EXCEPT ![w].phase = "updating", ![w].candidates = main]
    /\ UNCHANGED <<editable, files, main, blobs, uploaded, deleted>>

\* ... waits for those that are locked, and changes those still main then.
UnsetMain(w) ==
    /\ InPhase(w, {"updating"})
    /\ task[w].candidates \cap LockedByOthers(w) = {}
    /\ task' = [task EXCEPT ![w].phase = "updated", ![w].unset = task[w].candidates \cap main]
    /\ UNCHANGED <<editable, files, main, blobs, uploaded, deleted>>

\* DocumentFile.objects.create writes the file before it inserts the row.
StoreBlob(w) ==
    /\ InPhase(w, {"updated"})
    /\ blobs' = blobs \cup {task[w].file}
    /\ task' = [task EXCEPT ![w].phase = "stored"]
    /\ UNCHANGED <<editable, files, main, uploaded, deleted>>

\* The unique index holds a second main row back while the transaction that
\* may take the first one away or has just put it in is open.
IndexIsBusy(w) ==
    /\ task[w].as_main
    /\ \/ \E v \in Workers \ {w} : InsertedMain(v)
       \/ main \cap LockedByOthers(w) # {}

ViolatesIndex(w) == task[w].as_main /\ main \ task[w].unset # {}

InsertFile(w) ==
    /\ InPhase(w, {"stored"})
    /\ ~IndexIsBusy(w) /\ ~ViolatesIndex(w)
    /\ task' = [task EXCEPT ![w].phase = "inserted"]
    /\ UNCHANGED <<editable, files, main, blobs, uploaded, deleted>>

\* IntegrityError, answered 409: the rows roll back, the stored file stays.
UploadConflict(w) ==
    /\ InPhase(w, {"stored"})
    /\ ~IndexIsBusy(w) /\ ViolatesIndex(w)
    /\ task' = [task EXCEPT ![w] = Idle]
    /\ UNCHANGED <<editable, files, main, blobs, uploaded, deleted>>

CommitUpload(w) ==
    /\ InPhase(w, {"inserted"})
    /\ files' = files \cup {task[w].file}
    /\ main' = IF task[w].as_main THEN (main \ task[w].unset) \cup {task[w].file} ELSE main
    /\ uploaded' = uploaded \cup {task[w].file}
    /\ task' = [task EXCEPT ![w] = Idle]
    /\ UNCHANGED <<editable, blobs, deleted>>

-----------------------------------------------------------------------------
(* FileService.delete.                                                     *)

\* get_object has loaded the file and, with it, the document.
FindFile(w, f) ==
    /\ task[w] = Idle
    /\ f \in files /\ editable
    /\ deleted[f] + Cardinality(Deleting(f)) < MaxDeletions
    /\ task' = [task EXCEPT ![w] = [phase |-> "found", file |-> f]]
    /\ UNCHANGED <<editable, files, main, blobs, uploaded, deleted>>

\* Mutant: the storage is cleared at once, not after the commit.
RemoveFileAndBlob(w) ==
    /\ InPhase(w, {"found"})
    /\ task[w].file \notin LockedByOthers(w)
    /\ blobs' = blobs \ {task[w].file}
    /\ task' = [task EXCEPT ![w].phase = "removed"]
    /\ UNCHANGED <<editable, files, main, uploaded, deleted>>

\* The history record and the DELETE, which waits for a locked row and is
\* content to find no row any more.
RemoveFile(w) ==
    /\ InPhase(w, {"found"})
    /\ task[w].file \notin LockedByOthers(w)
    /\ task' = [task EXCEPT ![w].phase = "removed"]
    /\ UNCHANGED <<editable, files, main, blobs, uploaded, deleted>>

\* Mutant: the deletion is not recorded.
CommitRemovalUnrecorded(w) ==
    LET f == task[w].file IN
    /\ InPhase(w, {"removed"})
    /\ files' = files \ {f}
    /\ main' = main \ {f}
    /\ task' = [task EXCEPT ![w].phase = "committed"]
    /\ UNCHANGED <<editable, blobs, uploaded, deleted>>

\* Mutant: no on_commit hook.
CommitRemovalOnly(w) ==
    LET f == task[w].file IN
    /\ InPhase(w, {"removed"})
    /\ files' = files \ {f}
    /\ main' = main \ {f}
    /\ deleted' = [deleted EXCEPT ![f] = @ + 1]
    /\ task' = [task EXCEPT ![w] = Idle]
    /\ UNCHANGED <<editable, blobs, uploaded>>

CommitRemoval(w) ==
    LET f == task[w].file IN
    /\ InPhase(w, {"removed"})
    /\ files' = files \ {f}
    /\ main' = main \ {f}
    /\ deleted' = [deleted EXCEPT ![f] = @ + 1]
    /\ task' = [task EXCEPT ![w].phase = "committed"]
    /\ UNCHANGED <<editable, blobs, uploaded>>

\* The on_commit hook deletes the file from the storage, if it is there.
DropBlob(w) ==
    /\ InPhase(w, {"committed"})
    /\ blobs' = blobs \ {task[w].file}
    /\ task' = [task EXCEPT ![w] = Idle]
    /\ UNCHANGED <<editable, files, main, uploaded, deleted>>

-----------------------------------------------------------------------------
\* The worker dies.  An open transaction rolls back; the storage does not.
Crash(w) ==
    /\ task[w] # Idle
    /\ task' = [task EXCEPT ![w] = Idle]
    /\ UNCHANGED <<editable, files, main, blobs, uploaded, deleted>>

\* The document is sent for approval, or returned.
ChangeStatus ==
    /\ editable' = ~editable
    /\ UNCHANGED <<files, main, blobs, uploaded, deleted, task>>

Step(w) ==
    \/ ChooseMain(w) \/ BeginUpdate(w) \/ UnsetMain(w) \/ StoreBlob(w)
    \/ InsertFile(w) \/ UploadConflict(w) \/ CommitUpload(w)
    \/ RemoveFile(w) \/ CommitRemoval(w) \/ DropBlob(w)

Next ==
    \/ \E w \in Workers, f \in FileIds : BeginUpload(w, f) \/ FindFile(w, f)
    \/ \E w \in Workers : Step(w) \/ Crash(w)
    \/ ChangeStatus

Spec == Init /\ [][Next]_vars

-----------------------------------------------------------------------------
(* Properties.                                                             *)

\* Every file the API lists can be downloaded: whatever order uploads,
\* deletions and crashes come in, a committed row has its file in the storage.
\* (The converse fails: see OnlyFailuresLeaveFiles.)
EveryFileHasItsBlob == files \subseteq blobs

\* A document never has two main files, and it only ever loses its main file
\* to a deletion, not to two uploads that take the mark from each other.
MainFileIsKept ==
    /\ Cardinality(main) <= 1
    /\ files # {} /\ main = {} => \E f \in FileIds : deleted[f] > 0

\* The history accounts for the files: those uploaded and not deleted are
\* exactly those there are.
HistoryAccountsForFiles == files = {f \in uploaded : deleted[f] = 0}

\* The stored files some worker has yet to insert a row for or to drop.
InHand == {f \in FileIds : \E w \in Workers :
              InPhase(w, {"stored", "inserted", "committed"}) /\ task[w].file = f}

\* The storage keeps a file no row lists and no request will see to only
\* because a worker died or the index refused an upload; uploads and deletions
\* that come to an end leave nothing behind, in whatever order they do.
OnlyFailuresLeaveFiles ==
    [][(blobs \ (files \cup InHand))' \subseteq blobs \ (files \cup InHand)
       \/ \E w \in Workers : Crash(w) \/ UploadConflict(w)]_vars
=============================================================================
