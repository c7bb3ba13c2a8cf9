-------------------------- MODULE DocumentFilesProofs --------------------------
(***************************************************************************)
(* The files of a document, for any files and workers.                     *)
(***************************************************************************)
EXTENDS DocumentFiles, FiniteSetTheorems, TLAPS

UploadPhases == {"loaded", "chosen", "updating", "updated", "stored", "inserted"}
DeletionPhases == {"found", "removed", "committed"}

\* The phase tells an upload, a deletion and an idle worker apart.
LEMMA PhaseOfTask ==
    /\ Idle.phase = "idle"
    /\ \A t \in Upload : t.phase \in UploadPhases
    /\ \A t \in Deletion : t.phase \in DeletionPhases
BY DEF Idle, Upload, Deletion, UploadPhases, DeletionPhases

\* What the phase of a worker says of its task.
LEMMA TaskFields ==
    ASSUME TypeOK, NEW w \in Workers
    PROVE  /\ task[w].phase \in UploadPhases =>
                 /\ task[w] \in Upload /\ task[w].file \in FileIds /\ task[w].as_main \in BOOLEAN
                 /\ task[w].unset \in SUBSET FileIds /\ task[w].candidates \in SUBSET FileIds
           /\ task[w].phase \in DeletionPhases => task[w] \in Deletion /\ task[w].file \in FileIds
           /\ task[w] = Idle \/ task[w].phase \in UploadPhases \/ task[w].phase \in DeletionPhases
           /\ task[w] = Idle <=> task[w].phase = "idle"
<1>1. task[w] = Idle \/ task[w] \in Upload \/ task[w] \in Deletion
    BY DEF TypeOK
<1>2. UploadPhases \cap DeletionPhases = {} /\ "idle" \notin UploadPhases \cup DeletionPhases
    BY DEF UploadPhases, DeletionPhases
<1>3. task[w] \in Upload =>
          /\ task[w].file \in FileIds /\ task[w].as_main \in BOOLEAN
          /\ task[w].unset \in SUBSET FileIds /\ task[w].candidates \in SUBSET FileIds
    BY DEF Upload
<1>4. task[w] \in Deletion => task[w].file \in FileIds
    BY DEF Deletion
<1> QED
    BY <1>1, <1>2, <1>3, <1>4, PhaseOfTask

-----------------------------------------------------------------------------
(* The inductive invariant.                                                *)

Uploading(w) == task[w].phase \in UploadPhases
Removing(w) == task[w].phase \in DeletionPhases

\* The key of an upload is its own until it is committed; its file is in the
\* storage once it has been stored, and it only takes the mark from others to
\* be the main file.  A deletion is of a file once uploaded, and once it is
\* committed that file is out of the table for good.
TaskOK(w) ==
    /\ Uploading(w) => task[w].file \notin uploaded
    /\ task[w].phase \in {"chosen", "updating"} => task[w].as_main
    /\ task[w].phase \in {"stored", "inserted"} => task[w].file \in blobs
    /\ Removing(w) => task[w].file \in uploaded
    /\ task[w].phase = "committed" => deleted[task[w].file] > 0

KeysOK ==
    \A v, w \in Workers : Uploading(v) /\ Uploading(w) /\ task[v].file = task[w].file => v = w

Nobody == \A f \in FileIds : deleted[f] = 0

\* One main row; an open transaction that has inserted another is alone and
\* has taken the mark from the one there is.
MainOK ==
    /\ \A f, g \in main : f = g
    /\ \A w \in Workers : InsertedMain(w) => main \subseteq task[w].unset
    /\ \A v, w \in Workers : InsertedMain(v) /\ InsertedMain(w) => v = w

\* As long as nothing was deleted, an upload that is not to become the main
\* file has seen others, and one of those is.
FirstIsMain ==
    Nobody =>
        /\ files # {} => main # {}
        /\ \A w \in Workers :
              task[w].phase \in {"updated", "stored", "inserted"} /\ ~task[w].as_main => files # {}

FilesOK ==
    /\ EveryFileHasItsBlob
    /\ HistoryAccountsForFiles
    /\ \A f \in FileIds : deleted[f] > 0 => f \in uploaded

IInv ==
    /\ TypeOK
    /\ FilesOK
    /\ KeysOK
    /\ \A w \in Workers : TaskOK(w)
    /\ MainOK
    /\ FirstIsMain

\* The document begins without files.
LEMMA InitIInv == Init => IInv
<1> SUFFICES ASSUME Init PROVE IInv
    OBVIOUS
<1>1. \A w \in Workers : task[w].phase = "idle"
    BY PhaseOfTask DEF Init
<1>2. TypeOK
    BY DEF Init, TypeOK
<1>3. FilesOK
    BY DEF Init, FilesOK, EveryFileHasItsBlob, HistoryAccountsForFiles
<1>4. KeysOK /\ \A w \in Workers : TaskOK(w)
    BY <1>1 DEF KeysOK, TaskOK, Uploading, Removing, UploadPhases, DeletionPhases
<1>5. MainOK /\ FirstIsMain
    BY <1>1 DEF Init, MainOK, FirstIsMain, InsertedMain, InPhase
<1> QED
    BY <1>2, <1>3, <1>4, <1>5 DEF IInv

\* A step of w that leaves the tables alone and adds to the storage at most.
LEMMA TaskKeeps ==
    ASSUME IInv, NEW w \in Workers, NEW t \in {Idle} \cup Upload \cup Deletion,
           task' = [task EXCEPT ![w] = t], editable' \in BOOLEAN,
           UNCHANGED <<files, main, uploaded, deleted>>,
           blobs \subseteq blobs', blobs' \in SUBSET FileIds,
           t.phase \in UploadPhases =>
              /\ t.file \notin uploaded
              /\ \A v \in Workers \ {w} : Uploading(v) => task[v].file # t.file,
           t.phase \in {"chosen", "updating"} => t.as_main,
           t.phase \in {"stored", "inserted"} => t.file \in blobs',
           t.phase \in DeletionPhases => t.file \in uploaded /\ t.phase # "committed",
           t.phase = "inserted" /\ t.as_main =>
              /\ main \subseteq t.unset
              /\ \A v \in Workers \ {w} : ~InsertedMain(v),
           t.phase \in {"updated", "stored", "inserted"} /\ ~t.as_main =>
              \/ files # {}
              \/ task[w].phase \in {"updated", "stored", "inserted"} /\ ~task[w].as_main
    PROVE  IInv'
<1>1. task'[w] = t /\ \A v \in Workers \ {w} : task'[v] = task[v]
    BY DEF IInv, TypeOK
<1>2. TypeOK'
    BY DEF IInv, TypeOK
<1>3. FilesOK'
    BY DEF IInv, FilesOK, EveryFileHasItsBlob, HistoryAccountsForFiles
<1>4. KeysOK'
    <2> SUFFICES ASSUME NEW u \in Workers, NEW v \in Workers, Uploading(u)', Uploading(v)',
                        task'[u].file = task'[v].file
                 PROVE  u = v
        BY DEF KeysOK
    <2>1. CASE u # w /\ v # w
        BY <1>1, <2>1 DEF IInv, KeysOK, Uploading
    <2>2. CASE u = w /\ v # w
        BY <1>1, <2>2 DEF Uploading
    <2>3. CASE u # w /\ v = w
        BY <1>1, <2>3 DEF Uploading
    <2> QED
        BY <2>1, <2>2, <2>3
<1>5. ASSUME NEW v \in Workers PROVE TaskOK(v)'
    <2>1. CASE v = w
        <3>1. "committed" \in DeletionPhases
            BY DEF DeletionPhases
        <3> QED
            BY <1>1, <2>1, <3>1 DEF TaskOK, Uploading, Removing
    <2>2. CASE v # w
        BY <1>1, <2>2 DEF IInv, TaskOK, Uploading, Removing
    <2> QED
        BY <2>1, <2>2
<1>6. MainOK'
    <2>1. \A v \in Workers \ {w} : InsertedMain(v)' <=> InsertedMain(v)
        BY <1>1 DEF InsertedMain, InPhase
    <2>2. InsertedMain(w)' => /\ main \subseteq t.unset
                              /\ \A v \in Workers \ {w} : ~InsertedMain(v)
        BY <1>1 DEF InsertedMain, InPhase
    <2> QED
        BY <1>1, <2>1, <2>2 DEF IInv, MainOK
<1>7. FirstIsMain'
    BY <1>1 DEF IInv, FirstIsMain, Nobody
<1> QED
    BY <1>2, <1>3, <1>4, <1>5, <1>6, <1>7 DEF IInv

\* A request ends without a commit.
LEMMA EndKeeps ==
    ASSUME IInv, NEW w \in Workers, task' = [task EXCEPT ![w] = Idle],
           UNCHANGED <<editable, files, main, blobs, uploaded, deleted>>
    PROVE  IInv'
<1>1. Idle.phase \notin UploadPhases \cup DeletionPhases
    BY PhaseOfTask DEF UploadPhases, DeletionPhases
<1>2. UNCHANGED <<files, main, uploaded, deleted>> /\ blobs \subseteq blobs'
      /\ editable' \in BOOLEAN /\ blobs' \in SUBSET FileIds
    BY DEF IInv, TypeOK
<1> QED
    BY <1>1, <1>2, TaskKeeps DEF UploadPhases

\* An upload goes on with its file.
LEMMA UploadGoesOn ==
    ASSUME IInv, NEW w \in Workers, Uploading(w), NEW t \in Upload, t.file = task[w].file,
           task' = [task EXCEPT ![w] = t],
           UNCHANGED <<editable, files, main, uploaded, deleted>>,
           blobs' = blobs \/ blobs' = blobs \cup {t.file},
           t.phase \in {"chosen", "updating"} => t.as_main,
           t.phase \in {"stored", "inserted"} => t.file \in blobs',
           t.phase = "inserted" /\ t.as_main =>
              /\ main \subseteq t.unset
              /\ \A v \in Workers \ {w} : ~InsertedMain(v),
           t.phase \in {"updated", "stored", "inserted"} /\ ~t.as_main =>
              \/ files # {}
              \/ task[w].phase \in {"updated", "stored", "inserted"} /\ ~task[w].as_main
    PROVE  IInv'
<1>1. /\ t.file \notin uploaded
      /\ \A v \in Workers \ {w} : Uploading(v) => task[v].file # t.file
    BY DEF IInv, KeysOK, TaskOK
<1>2. t.phase \notin DeletionPhases
    BY PhaseOfTask DEF UploadPhases, DeletionPhases
<1>3. t.file \in FileIds
    BY DEF Upload
<1>4. blobs \subseteq blobs' /\ editable' \in BOOLEAN /\ blobs' \in SUBSET FileIds
      /\ UNCHANGED <<files, main, uploaded, deleted>>
    BY <1>3 DEF IInv, TypeOK
<1> QED
    BY <1>1, <1>2, <1>4, TaskKeeps

\* A committed upload is the file's one history record and its one row.
LEMMA CommitUploadKeeps ==
    ASSUME IInv, NEW w \in Workers, CommitUpload(w)
    PROVE  IInv'
<1> DEFINE f == task[w].file
<1>1. /\ TypeOK /\ Uploading(w) /\ f \in FileIds /\ task[w].unset \in SUBSET FileIds
      /\ task[w].phase = "inserted" /\ task[w].as_main \in BOOLEAN
    BY TaskFields DEF CommitUpload, InPhase, Uploading, UploadPhases, IInv
<1>2. f \notin uploaded /\ f \in blobs /\ deleted[f] = 0
    BY <1>1 DEF IInv, TaskOK, FilesOK, TypeOK
<1>3. /\ files' = files \cup {f} /\ uploaded' = uploaded \cup {f}
      /\ main' = IF task[w].as_main THEN (main \ task[w].unset) \cup {f} ELSE main
      /\ task' = [task EXCEPT ![w] = Idle] /\ UNCHANGED <<editable, blobs, deleted>>
    BY DEF CommitUpload
<1>4. \A v \in Workers : task'[v] = IF v = w THEN Idle ELSE task[v]
    BY <1>1, <1>3 DEF TypeOK
<1>5. task[w].as_main => main' = {f}
    <2>1. task[w].as_main => main \subseteq task[w].unset
        BY <1>1 DEF IInv, MainOK, InsertedMain, InPhase
    <2> QED
        BY <1>3, <2>1
<1> HIDE DEF f
<1>6. TypeOK'
    BY <1>1, <1>3, <1>5 DEF TypeOK
<1>7. FilesOK'
    BY <1>1, <1>2, <1>3 DEF IInv, FilesOK, EveryFileHasItsBlob, HistoryAccountsForFiles
<1>8. \A v \in Workers \ {w} : Uploading(v) => task[v].file # f
    BY <1>1 DEF IInv, KeysOK, f
<1>9. ~Uploading(w)' /\ ~Removing(w)' /\ task'[w].phase = "idle"
    BY <1>4, PhaseOfTask DEF Uploading, Removing, UploadPhases, DeletionPhases
<1>10. KeysOK'
    BY <1>4, <1>9 DEF IInv, KeysOK, Uploading
<1>11. ASSUME NEW v \in Workers PROVE TaskOK(v)'
    <2>1. CASE v = w
        BY <1>9, <2>1 DEF TaskOK
    <2>2. CASE v # w
        BY <1>3, <1>4, <1>8, <2>2 DEF IInv, TaskOK, Uploading, Removing
    <2> QED
        BY <2>1, <2>2
<1>12. MainOK'
    <2>1. \A v \in Workers : InsertedMain(v)' => v # w /\ InsertedMain(v)
        BY <1>4, <1>9 DEF InsertedMain, InPhase
    <2>2. CASE task[w].as_main
        <3>1. \A v \in Workers : ~InsertedMain(v)'
            BY <1>1, <2>1, <2>2 DEF IInv, MainOK, InsertedMain, InPhase
        <3> QED
            BY <1>5, <2>2, <3>1 DEF MainOK
    <2>3. CASE ~task[w].as_main
        BY <1>3, <1>4, <2>1, <2>3 DEF IInv, MainOK
    <2> QED
        BY <2>2, <2>3
<1>13. FirstIsMain'
    <2>1. Nobody' => main' # {}
        <3>1. CASE task[w].as_main
            BY <1>5, <3>1
        <3>2. CASE ~task[w].as_main
            BY <1>1, <1>3, <3>2 DEF IInv, FirstIsMain, Nobody
        <3> QED
            BY <3>1, <3>2
    <2> QED
        BY <1>3, <2>1 DEF FirstIsMain
<1> QED
    BY <1>6, <1>7, <1>10, <1>11, <1>12, <1>13 DEF IInv

\* After a deletion is committed its row is gone and its record there.
LEMMA CommitRemovalKeeps ==
    ASSUME IInv, NEW w \in Workers, CommitRemoval(w)
    PROVE  IInv'
<1> DEFINE f == task[w].file
           t == [task[w] EXCEPT !.phase = "committed"]
<1>1. TypeOK /\ Removing(w) /\ task[w] \in Deletion /\ f \in FileIds /\ f \in uploaded
    BY TaskFields DEF CommitRemoval, InPhase, Removing, DeletionPhases, IInv, TaskOK
<1>2. t \in Deletion /\ t.phase = "committed" /\ t.file = f
    BY <1>1 DEF Deletion
<1>3. /\ files' = files \ {f} /\ main' = main \ {f}
      /\ deleted' = [deleted EXCEPT ![f] = @ + 1]
      /\ task' = [task EXCEPT ![w] = t] /\ UNCHANGED <<editable, blobs, uploaded>>
    BY <1>1 DEF CommitRemoval, TypeOK
<1> HIDE DEF f, t
<1>4. \A v \in Workers : task'[v] = IF v = w THEN t ELSE task[v]
    BY <1>1, <1>3 DEF TypeOK
<1>5. /\ \A g \in FileIds : deleted'[g] = IF g = f THEN deleted[f] + 1 ELSE deleted[g]
      /\ deleted' \in [FileIds -> Nat] /\ deleted'[f] > 0
    BY <1>1, <1>3 DEF TypeOK
<1>6. TypeOK'
    BY <1>1, <1>2, <1>3, <1>5 DEF TypeOK
<1>7. FilesOK'
    <2>1. EveryFileHasItsBlob'
        BY <1>3 DEF IInv, FilesOK, EveryFileHasItsBlob
    <2>2. \A g \in FileIds : deleted'[g] = 0 <=> deleted[g] = 0 /\ g # f
        BY <1>1, <1>5 DEF TypeOK
    <2>3. HistoryAccountsForFiles'
        BY <1>1, <1>3, <2>2 DEF IInv, FilesOK, HistoryAccountsForFiles, TypeOK
    <2>4. \A g \in FileIds : deleted'[g] > 0 => g \in uploaded'
        BY <1>1, <1>3, <1>5 DEF IInv, FilesOK
    <2> QED
        BY <2>1, <2>3, <2>4 DEF FilesOK
<1>8. ~Uploading(w)' /\ task'[w] = t
    BY <1>2, <1>4 DEF Uploading, UploadPhases
<1>9. KeysOK'
    BY <1>4, <1>8 DEF IInv, KeysOK, Uploading
<1>10. ASSUME NEW v \in Workers PROVE TaskOK(v)'
    <2>1. CASE v = w
        BY <1>1, <1>2, <1>3, <1>5, <1>8, <2>1 DEF TaskOK
    <2>2. CASE v # w
        <3>1. task[v].phase = "committed" => task[v].file \in FileIds
            BY <1>1, TaskFields DEF DeletionPhases
        <3>2. task[v].phase = "committed" => deleted'[task[v].file] > 0
            BY <1>1, <1>5, <3>1 DEF IInv, TaskOK, TypeOK
        <3> QED
            BY <1>3, <1>4, <2>2, <3>2 DEF IInv, TaskOK, Uploading, Removing
    <2> QED
        BY <2>1, <2>2
<1>11. MainOK'
    <2>1. \A v \in Workers : InsertedMain(v)' => InsertedMain(v) /\ task'[v] = task[v]
        BY <1>2, <1>4 DEF InsertedMain, InPhase
    <2> QED
        BY <1>3, <2>1 DEF IInv, MainOK
<1>12. FirstIsMain'
    BY <1>1, <1>5 DEF FirstIsMain, Nobody
<1> QED
    BY <1>6, <1>7, <1>9, <1>10, <1>11, <1>12 DEF IInv

\* The hook takes out of the storage what no row and no upload needs.
LEMMA DropBlobKeeps ==
    ASSUME IInv, NEW w \in Workers, DropBlob(w)
    PROVE  IInv'
<1> DEFINE f == task[w].file
<1>1. TypeOK /\ f \in FileIds /\ f \in uploaded /\ deleted[f] > 0
    <2>1. task[w].phase = "committed" /\ "committed" \in DeletionPhases
        BY DEF DropBlob, InPhase, DeletionPhases
    <2> QED
        BY <2>1, TaskFields DEF IInv, TaskOK, Removing
<1>2. task' = [task EXCEPT ![w] = Idle] /\ blobs' = blobs \ {f}
      /\ UNCHANGED <<editable, files, main, uploaded, deleted>>
    BY DEF DropBlob
<1> HIDE DEF f
<1>3. \A v \in Workers : task'[v] = IF v = w THEN Idle ELSE task[v]
    BY <1>1, <1>2 DEF TypeOK
<1>4. f \notin files
    BY <1>1 DEF IInv, FilesOK, HistoryAccountsForFiles, TypeOK
<1>5. TypeOK'
    BY <1>1, <1>2 DEF TypeOK
<1>6. FilesOK'
    BY <1>2, <1>4 DEF IInv, FilesOK, EveryFileHasItsBlob, HistoryAccountsForFiles
<1>7. ~Uploading(w)' /\ ~Removing(w)' /\ task'[w].phase = "idle"
    BY <1>3, PhaseOfTask DEF Uploading, Removing, UploadPhases, DeletionPhases
<1>8. KeysOK'
    BY <1>3, <1>7 DEF IInv, KeysOK, Uploading
<1>9. ASSUME NEW v \in Workers PROVE TaskOK(v)'
    <2>1. CASE v = w
        BY <1>7, <2>1 DEF TaskOK
    <2>2. CASE v # w
        <3>1. task[v].phase \in {"stored", "inserted"} => task[v].file # f
            BY <1>1 DEF IInv, TaskOK, Uploading, UploadPhases
        <3> QED
            BY <1>2, <1>3, <2>2, <3>1 DEF IInv, TaskOK, Uploading, Removing
    <2> QED
        BY <2>1, <2>2
<1>10. MainOK'
    <2>1. \A v \in Workers : InsertedMain(v)' => InsertedMain(v) /\ task'[v] = task[v]
        BY <1>3, <1>7 DEF InsertedMain, InPhase
    <2> QED
        BY <1>2, <2>1 DEF IInv, MainOK
<1>11. FirstIsMain'
    BY <1>2, <1>3, <1>7 DEF IInv, FirstIsMain, Nobody
<1> QED
    BY <1>5, <1>6, <1>8, <1>9, <1>10, <1>11 DEF IInv

-----------------------------------------------------------------------------
\* Every statement of an upload or deletion, and every crash, keeps it.
LEMMA IInvIsInductive == IInv /\ [Next]_vars => IInv'
<1> SUFFICES ASSUME IInv, [Next]_vars PROVE IInv'
    OBVIOUS
<1>0. TypeOK
    BY DEF IInv
<1>1. ASSUME NEW w \in Workers, NEW f \in FileIds, BeginUpload(w, f)
      PROVE  IInv'
    <2>1. PICK asked \in BOOLEAN :
              task' = [task EXCEPT ![w] = [phase |-> "loaded", file |-> f, as_main |-> asked,
                                           candidates |-> {}, unset |-> {}]]
        BY <1>1 DEF BeginUpload
    <2> DEFINE t == [phase |-> "loaded", file |-> f, as_main |-> asked,
                     candidates |-> {}, unset |-> {}]
    <2>2. t \in Upload /\ t.phase = "loaded" /\ t.file = f
        BY DEF Upload
    <2>3. /\ f \notin uploaded
          /\ \A v \in Workers \ {w} : Uploading(v) => task[v].file # f
        BY <1>1 DEF BeginUpload, Used, InPhase, Uploading, UploadPhases
    <2>4. task' = [task EXCEPT ![w] = t] /\ editable' \in BOOLEAN /\ blobs' \in SUBSET FileIds
          /\ UNCHANGED <<files, main, blobs, uploaded, deleted>>
        BY <1>0, <1>1, <2>1 DEF BeginUpload, TypeOK
    <2> HIDE DEF t
    <2> QED
        BY <2>2, <2>3, <2>4, TaskKeeps DEF DeletionPhases
<1>2. ASSUME NEW w \in Workers, NEW f \in FileIds, FindFile(w, f)
      PROVE  IInv'
    <2> DEFINE t == [phase |-> "found", file |-> f]
    <2>1. t \in Deletion /\ t.phase = "found" /\ t.file = f
        BY DEF Deletion
    <2>2. f \in uploaded
        BY <1>2 DEF FindFile, IInv, FilesOK, HistoryAccountsForFiles
    <2>3. task' = [task EXCEPT ![w] = t] /\ editable' \in BOOLEAN /\ blobs' \in SUBSET FileIds
          /\ UNCHANGED <<files, main, blobs, uploaded, deleted>>
        BY <1>0, <1>2 DEF FindFile, TypeOK
    <2> HIDE DEF t
    <2> QED
        BY <2>1, <2>2, <2>3, TaskKeeps DEF UploadPhases
<1>3. ASSUME NEW w \in Workers, ChooseMain(w)
      PROVE  IInv'
    <2>1. Uploading(w) /\ task[w] \in Upload /\ task[w].as_main \in BOOLEAN
        BY <1>0, <1>3, TaskFields DEF ChooseMain, InPhase, Uploading, UploadPhases
    <2> DEFINE m == MakesMain(task[w].as_main, files)
               t == [task[w] EXCEPT !.phase = IF m THEN "chosen" ELSE "updated", !.as_main = m]
    <2>2. m \in BOOLEAN /\ (~m => files # {})
        BY <2>1 DEF MakesMain
    <2>3. task' = [task EXCEPT ![w] = t] /\ UNCHANGED <<editable, files, main, blobs, uploaded, deleted>>
        BY <1>0, <1>3 DEF ChooseMain, TypeOK
    <2> HIDE DEF m
    <2>4. t \in Upload /\ t.file = task[w].file /\ t.as_main = m
          /\ t.phase \in {"chosen", "updated"} /\ (t.phase = "chosen" => m)
        BY <2>1, <2>2 DEF Upload
    <2> HIDE DEF t
    <2> QED
        BY <2>1, <2>2, <2>3, <2>4, UploadGoesOn
<1>4. ASSUME NEW w \in Workers, BeginUpdate(w)
      PROVE  IInv'
    <2>1. Uploading(w) /\ task[w] \in Upload
        BY <1>0, <1>4, TaskFields DEF BeginUpdate, InPhase, Uploading, UploadPhases
    <2> DEFINE t == [task[w] EXCEPT !.phase = "updating", !.candidates = main]
    <2>2. t \in Upload /\ t.file = task[w].file /\ t.phase = "updating" /\ t.as_main
        BY <1>0, <1>4, <2>1 DEF Upload, TypeOK, IInv, TaskOK, BeginUpdate, InPhase
    <2>3. task' = [task EXCEPT ![w] = t] /\ UNCHANGED <<editable, files, main, blobs, uploaded, deleted>>
        BY <1>0, <1>4 DEF BeginUpdate, TypeOK
    <2> HIDE DEF t
    <2> QED
        BY <2>1, <2>2, <2>3, UploadGoesOn
<1>5. ASSUME NEW w \in Workers, UnsetMain(w)
      PROVE  IInv'
    <2>1. Uploading(w) /\ task[w] \in Upload /\ task[w].candidates \in SUBSET FileIds
        BY <1>0, <1>5, TaskFields DEF UnsetMain, InPhase, Uploading, UploadPhases
    <2> DEFINE t == [task[w] EXCEPT !.phase = "updated", !.unset = task[w].candidates \cap main]
    <2>2. t \in Upload /\ t.file = task[w].file /\ t.phase = "updated" /\ t.as_main = task[w].as_main
        BY <2>1 DEF Upload
    <2>3. task' = [task EXCEPT ![w] = t] /\ UNCHANGED <<editable, files, main, blobs, uploaded, deleted>>
        BY <1>0, <1>5 DEF UnsetMain, TypeOK
    <2> HIDE DEF t
    <2>4. task[w].as_main
        BY <1>5 DEF IInv, TaskOK, UnsetMain, InPhase
    <2> QED
        BY <2>1, <2>2, <2>3, <2>4, UploadGoesOn
<1>6. ASSUME NEW w \in Workers, StoreBlob(w)
      PROVE  IInv'
    <2>1. Uploading(w) /\ task[w] \in Upload /\ task[w].phase = "updated"
        BY <1>0, <1>6, TaskFields DEF StoreBlob, InPhase, Uploading, UploadPhases
    <2> DEFINE t == [task[w] EXCEPT !.phase = "stored"]
    <2>2. t \in Upload /\ t.file = task[w].file /\ t.phase = "stored" /\ t.as_main = task[w].as_main
        BY <2>1 DEF Upload
    <2>3. task' = [task EXCEPT ![w] = t] /\ blobs' = blobs \cup {task[w].file}
          /\ UNCHANGED <<editable, files, main, uploaded, deleted>>
        BY <1>0, <1>6 DEF StoreBlob, TypeOK
    <2> HIDE DEF t
    <2> QED
        BY <2>1, <2>2, <2>3, UploadGoesOn
<1>7. ASSUME NEW w \in Workers, InsertFile(w)
      PROVE  IInv'
    <2>1. Uploading(w) /\ task[w] \in Upload /\ task[w].phase = "stored"
        BY <1>0, <1>7, TaskFields DEF InsertFile, InPhase, Uploading, UploadPhases
    <2> DEFINE t == [task[w] EXCEPT !.phase = "inserted"]
    <2>2. t \in Upload /\ t.file = task[w].file /\ t.phase = "inserted"
          /\ t.as_main = task[w].as_main /\ t.unset = task[w].unset
        BY <2>1 DEF Upload
    <2>3. task' = [task EXCEPT ![w] = t] /\ UNCHANGED <<editable, files, main, blobs, uploaded, deleted>>
        BY <1>0, <1>7 DEF InsertFile, TypeOK
    <2>4. t.file \in blobs
        BY <2>1, <2>2 DEF IInv, TaskOK
    <2> HIDE DEF t
    <2>5. t.as_main => /\ main \subseteq t.unset
                       /\ \A v \in Workers \ {w} : ~InsertedMain(v)
        BY <1>7, <2>2 DEF InsertFile, IndexIsBusy, ViolatesIndex
    <2> QED
        BY <2>1, <2>2, <2>3, <2>4, <2>5, UploadGoesOn
<1>8. ASSUME NEW w \in Workers, UploadConflict(w) \/ Crash(w)
      PROVE  IInv'
    BY <1>8, EndKeeps DEF UploadConflict, Crash
<1>9. ASSUME NEW w \in Workers, RemoveFile(w)
      PROVE  IInv'
    <2>1. task[w] \in Deletion /\ task[w].file \in uploaded
        BY <1>0, <1>9, TaskFields DEF RemoveFile, InPhase, DeletionPhases, Removing, IInv, TaskOK
    <2> DEFINE t == [task[w] EXCEPT !.phase = "removed"]
    <2>2. t \in Deletion /\ t.file = task[w].file /\ t.phase = "removed"
        BY <2>1 DEF Deletion
    <2>3. task' = [task EXCEPT ![w] = t] /\ editable' \in BOOLEAN /\ blobs' \in SUBSET FileIds
          /\ UNCHANGED <<files, main, blobs, uploaded, deleted>>
        BY <1>0, <1>9 DEF RemoveFile, TypeOK
    <2> HIDE DEF t
    <2> QED
        BY <2>1, <2>2, <2>3, TaskKeeps DEF UploadPhases
<1>10. CASE ChangeStatus
    BY <1>0, <1>10 DEF ChangeStatus, IInv, TypeOK, FilesOK, EveryFileHasItsBlob,
       HistoryAccountsForFiles, KeysOK, TaskOK, MainOK, FirstIsMain, Nobody, InsertedMain, InPhase,
       Uploading, Removing
<1>11. CASE UNCHANGED vars
    BY <1>0, <1>11 DEF vars, IInv, TypeOK, FilesOK, EveryFileHasItsBlob,
       HistoryAccountsForFiles, KeysOK, TaskOK, MainOK, FirstIsMain, Nobody, InsertedMain, InPhase,
       Uploading, Removing
<1> QED
    BY <1>1, <1>2, <1>3, <1>4, <1>5, <1>6, <1>7, <1>8, <1>9, <1>10, <1>11,
       CommitUploadKeeps, CommitRemovalKeeps, DropBlobKeeps
    DEF Next, Step

\* Where files, rows and requests are, in every state.
THEOREM IInvHolds == Spec => []IInv
BY InitIInv, IInvIsInductive, PTL DEF Spec

\* The type invariant: no upload, deletion or crash leaves the tables, the
\* storage or the requests ill-typed.
THEOREM FilesTypeCorrect == Spec => []TypeOK
<1>1. IInv => TypeOK
    BY DEF IInv
<1> QED
    BY <1>1, IInvHolds, PTL

\* Every row has its file in the storage.
THEOREM EveryFileHasItsBlobHolds == Spec => []EveryFileHasItsBlob
<1>1. IInv => EveryFileHasItsBlob
    BY DEF IInv, FilesOK
<1> QED
    BY <1>1, IInvHolds, PTL

\* The files uploaded and not deleted are those there are.
THEOREM HistoryAccountsForFilesHolds == Spec => []HistoryAccountsForFiles
<1>1. IInv => HistoryAccountsForFiles
    BY DEF IInv, FilesOK
<1> QED
    BY <1>1, IInvHolds, PTL

\* There is one main file at most, and none only after a deletion.
THEOREM MainFileIsKeptHolds == Spec => []MainFileIsKept
<1>1. IInv => MainFileIsKept
    <2> SUFFICES ASSUME IInv PROVE MainFileIsKept
        OBVIOUS
    <2>1. Cardinality(main) <= 1
        <3>1. CASE main = {}
            BY <3>1, FS_EmptySet
        <3>2. CASE main # {}
            <4>1. PICK f \in main : TRUE
                BY <3>2
            <4>2. main = {f}
                BY <4>1 DEF IInv, MainOK
            <4> QED
                BY <4>2, FS_Singleton
        <3> QED
            BY <3>1, <3>2
    <2>2. files # {} /\ main = {} => \E f \in FileIds : deleted[f] > 0
        BY DEF IInv, FirstIsMain, Nobody, TypeOK
    <2> QED
        BY <2>1, <2>2 DEF MainFileIsKept
<1> QED
    BY <1>1, IInvHolds, PTL

-----------------------------------------------------------------------------
(* What is left in the storage.                                            *)

Left == blobs \ (files \cup InHand)
Holds(t, f) == t.phase \in {"stored", "inserted", "committed"} /\ t.file = f

\* One worker at a time: it leaves nothing if every stored file that its step
\* leaves unlisted and out of its hand was so before.
LEMMA NothingIsLeft ==
    ASSUME TypeOK, NEW w \in Workers, NEW t, task' = [task EXCEPT ![w] = t],
           blobs' \subseteq FileIds,
           \A f \in FileIds : f \in blobs' /\ f \notin files' /\ ~Holds(t, f) =>
                              f \in blobs /\ f \notin files /\ ~Holds(task[w], f)
    PROVE  Left' \subseteq Left
<1>1. task'[w] = t /\ \A v \in Workers \ {w} : task'[v] = task[v]
    BY DEF TypeOK
<1>2. ASSUME NEW f \in Left' PROVE f \in Left
    <2>1. f \in FileIds /\ f \in blobs' /\ f \notin files'
        BY <1>2 DEF Left
    <2>2. \A v \in Workers : ~Holds(task'[v], f)
        BY <1>2, <2>1 DEF Left, InHand, InPhase, Holds
    <2>3. f \in blobs /\ f \notin files /\ \A v \in Workers : ~Holds(task[v], f)
        BY <1>1, <2>1, <2>2
    <2> QED
        BY <2>1, <2>3 DEF Left, InHand, InPhase, Holds
<1> QED
    BY <1>2

\* Only a worker that dies and an upload that is refused leave a file in the
\* storage that no row lists.
THEOREM OnlyFailuresLeaveFilesHolds == Spec => OnlyFailuresLeaveFiles
<1>1. IInv /\ [Next]_vars =>
          \/ Left' \subseteq Left
          \/ \E w \in Workers : Crash(w) \/ UploadConflict(w)
    <2> SUFFICES ASSUME IInv, [Next]_vars,
                        ~\E w \in Workers : Crash(w) \/ UploadConflict(w)
                 PROVE  Left' \subseteq Left
        OBVIOUS
    <2>0. TypeOK /\ blobs \subseteq FileIds
        BY DEF IInv, TypeOK
    <2>1. ASSUME NEW w \in Workers, NEW f \in FileIds, BeginUpload(w, f) \/ FindFile(w, f)
          PROVE  Left' \subseteq Left
        <3>1. UNCHANGED <<files, blobs>> /\ task[w].phase = "idle"
            BY <2>1, PhaseOfTask DEF BeginUpload, FindFile
        <3>2. \E t : task' = [task EXCEPT ![w] = t]
            BY <2>1 DEF BeginUpload, FindFile
        <3>3. ~\E g : Holds(task[w], g)
            BY <3>1 DEF Holds
        <3> QED
            BY <2>0, <3>1, <3>2, <3>3, NothingIsLeft
    <2>2. ASSUME NEW w \in Workers,
                 ChooseMain(w) \/ BeginUpdate(w) \/ UnsetMain(w) \/ RemoveFile(w)
          PROVE  Left' \subseteq Left
        <3>1. /\ UNCHANGED <<files, blobs>>
              /\ task[w].phase \in {"loaded", "chosen", "updating", "found"}
            BY <2>2 DEF ChooseMain, BeginUpdate, UnsetMain, RemoveFile, InPhase
        <3>2. ~\E f : Holds(task[w], f)
            BY <3>1 DEF Holds
        <3>3. \E t : task' = [task EXCEPT ![w] = t]
            <4>1. task = [v \in Workers |-> task[v]]
                BY <2>0 DEF TypeOK
            <4> QED
                BY <2>2, <4>1 DEF ChooseMain, BeginUpdate, UnsetMain, RemoveFile
        <3> QED
            BY <2>0, <3>1, <3>2, <3>3, NothingIsLeft
    <2>3. ASSUME NEW w \in Workers, StoreBlob(w) \/ InsertFile(w) PROVE Left' \subseteq Left
        <3>1. task[w] \in Upload /\ task[w].file \in FileIds
            BY <2>0, <2>3, TaskFields DEF StoreBlob, InsertFile, InPhase, UploadPhases
        <3>2. PICK phase \in {"stored", "inserted"} :
                  task' = [task EXCEPT ![w] = [task[w] EXCEPT !.phase = phase]]
            BY <2>0, <2>3 DEF StoreBlob, InsertFile, TypeOK
        <3> DEFINE t == [task[w] EXCEPT !.phase = phase]
        <3>3. t.phase = phase /\ t.file = task[w].file
            BY <3>1 DEF Upload
        <3>4. files' = files /\ blobs' \subseteq blobs \cup {t.file} /\ Holds(t, t.file)
            BY <2>3, <3>3 DEF StoreBlob, InsertFile, Holds
        <3>5. \A f \in FileIds : f # t.file => ~Holds(task[w], f)
            BY <3>3 DEF Holds
        <3>6. task' = [task EXCEPT ![w] = t] /\ t.file \in FileIds
            BY <3>1, <3>2, <3>3
        <3> HIDE DEF t
        <3>7. blobs' \subseteq FileIds
            BY <2>0, <3>4, <3>6
        <3>8. \A f \in FileIds : f \in blobs' /\ ~Holds(t, f) => f \in blobs /\ ~Holds(task[w], f)
            BY <3>4, <3>5
        <3> QED
            BY <2>0, <3>4, <3>6, <3>7, <3>8, NothingIsLeft
    <2>4. ASSUME NEW w \in Workers, CommitUpload(w) PROVE Left' \subseteq Left
        <3>1. /\ task' = [task EXCEPT ![w] = Idle] /\ files' = files \cup {task[w].file}
              /\ blobs' = blobs
            BY <2>4 DEF CommitUpload
        <3> QED
            BY <2>0, <3>1, NothingIsLeft DEF Holds
    <2>5. ASSUME NEW w \in Workers, CommitRemoval(w) PROVE Left' \subseteq Left
        <3>1. task[w] \in Deletion /\ task[w].file \in FileIds /\ task[w].phase = "removed"
            BY <2>0, <2>5, TaskFields DEF CommitRemoval, InPhase, DeletionPhases
        <3> DEFINE t == [task[w] EXCEPT !.phase = "committed"]
        <3>2. t.phase = "committed" /\ t.file = task[w].file
            BY <3>1 DEF Deletion
        <3>3. task' = [task EXCEPT ![w] = t] /\ files' = files \ {t.file} /\ blobs' = blobs
            BY <2>0, <2>5, <3>2 DEF CommitRemoval, TypeOK
        <3> HIDE DEF t
        <3> QED
            BY <2>0, <3>1, <3>2, <3>3, NothingIsLeft DEF Holds
    <2>6. ASSUME NEW w \in Workers, DropBlob(w) PROVE Left' \subseteq Left
        <3>1. /\ task' = [task EXCEPT ![w] = Idle] /\ blobs' = blobs \ {task[w].file}
              /\ files' = files
            BY <2>6 DEF DropBlob
        <3> QED
            BY <2>0, <3>1, NothingIsLeft DEF Holds
    <2>7. CASE ChangeStatus \/ UNCHANGED vars
        BY <2>7 DEF ChangeStatus, vars, Left, InHand, InPhase
    <2> QED
        BY <2>1, <2>2, <2>3, <2>4, <2>5, <2>6, <2>7 DEF Next, Step
<1> QED
    BY <1>1, IInvHolds, PTL DEF Spec, OnlyFailuresLeaveFiles, Left

=============================================================================
