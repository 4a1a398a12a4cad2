----------------------------- MODULE Artifacts ------------------------------
(***************************************************************************)
(* Publishing a file a coworker left in its sandbox: the file is           *)
(* downloaded and checked, its content stored under a key made of its      *)
(* hash, and a row inserted.  An artifact's id is made of the turn, the    *)
(* sandbox and the path, so a path whose content changed comes back under  *)
(* the id of its earlier content; equal content in a channel is stored and *)
(* recorded once, whichever id it comes under.  The API and the worker     *)
(* both publish; only the worker removes what it stored when the row is    *)
(* refused.                                                                *)
(***************************************************************************)
EXTENDS Connections

CONSTANTS ArtifactId, Content,
          ArtifactCall,
          FromWorker      \* the calls the worker makes; the others are the API's

ASSUME ContentIsSomething == Content # {} /\ None \notin Content

VARIABLES file,           \* what the sandbox holds for each artifact
          blob,           \* the object store, by content
          row,            \* artifacts: the content each id's row names
          acall

artifactVars == <<file, blob, row, acall>>

ArtifactCallRow == [pc : {"new", "download", "put", "writing", "unlinked", "find", "insert", "again",
                          "delete", "read", "done"},
                    id : ArtifactId \cup {None}, want : Content \cup {None}, c : Content \cup {None},
                    ans : {"none", "published", "existing", "rejected", "conflict", "error",
                           "shown", "unavailable"}]

NewArtifactCall == [pc |-> "new", id |-> None, want |-> None, c |-> None, ans |-> "none"]

ArtifactAnswer(r, ans) == acall' = [acall EXCEPT ![r].pc = "done", ![r].ans = ans]

ArtifactGo(r, pc) == acall' = [acall EXCEPT ![r].pc = pc]

\* resolveSandboxCommandState: what the sandbox's events say of the command that wrote the file.
SandboxCommandState == {"creating", "running", "completed", "failed"}

\* validateDiscoveredArtifactMetadata: path, declared size and type, before any download.
MetadataValid == BOOLEAN

\* A file whose command has not completed, or whose metadata is wrong, goes no further.
publishSandboxArtifactFromDiscovery(r, id, want) ==
    \E state \in SandboxCommandState, valid \in MetadataValid :
       LET ready == state = "completed" /\ valid IN
       acall' = [acall EXCEPT ![r] = [NewArtifactCall EXCEPT
                    !.id = id, !.want = want,
                    !.pc = IF ready THEN "download" ELSE "done",
                    !.ans = IF ready THEN "none" ELSE "rejected"]]

\* The API publishes every file a turn's messages declare, unbound to any content.
persistAgUiSandboxArtifacts(r) ==
    /\ acall[r].pc = "new" /\ r \notin FromWorker
    /\ \E id \in ArtifactId : publishSandboxArtifactFromDiscovery(r, id, None)
    /\ UNCHANGED <<file, blob, row>>

\* loadSandboxArtifactDiscoveryBinding: the step's turn, and the discovery recorded for this id.
DiscoveryRecorded == BOOLEAN

\* A command of the worker names the hash and the size it expects, and the next revision.
executePublishSandboxArtifactCommand(r) ==
    /\ acall[r].pc = "new" /\ r \in FromWorker
    /\ \E id \in ArtifactId, recorded \in DiscoveryRecorded :
          IF recorded THEN publishSandboxArtifactFromDiscovery(r, id, file[id])
          ELSE ArtifactAnswer(r, "rejected")
    /\ UNCHANGED <<file, blob, row>>

\* The content hash and the size a command is bound to.
MatchesBinding(want, c) == want = None \/ want = c

\* validateDiscoveredArtifactDownload: size, type, archive members, and nothing that looks secret.
ContentAccepted == BOOLEAN

\* The sandbox may hold other bytes by now, or none.
downloadSandboxFile(r) ==
    LET q == acall[r] IN
    /\ q.pc = "download"
    /\ \E accepted \in ContentAccepted :
          IF accepted /\ MatchesBinding(q.want, file[q.id])
          THEN acall' = [acall EXCEPT ![r].pc = "put", ![r].c = file[q.id]]
          ELSE ArtifactAnswer(r, "rejected")
    /\ UNCHANGED <<file, blob, row>>

\* The object is created only if it is not there; one that is must hold the same bytes already,
\* which one still being written, or cut short by a crash, does not.
storeArtifactContent(r) ==
    LET q == acall[r] IN
    /\ q.pc = "put"
    /\ CASE blob[q.c] = "none" -> blob' = [blob EXCEPT ![q.c] = "torn"] /\ ArtifactGo(r, "writing")
         [] blob[q.c] = "torn" -> UNCHANGED blob /\ ArtifactAnswer(r, "error")
         [] blob[q.c] = "full" -> UNCHANGED blob /\ ArtifactGo(r, "find")
    /\ UNCHANGED <<file, row>>

\* A write into an object that was removed meanwhile succeeds and leaves nothing.
FinishWrite(r) ==
    LET q == acall[r] IN
    /\ q.pc \in {"writing", "unlinked"}
    /\ blob' = IF q.pc = "writing" THEN [blob EXCEPT ![q.c] = "full"] ELSE blob
    /\ ArtifactGo(r, "find")
    /\ UNCHANGED <<file, row>>

CrashWhileStoring(r) ==
    /\ acall[r].pc \in {"writing", "unlinked"}
    /\ ArtifactAnswer(r, "error")
    /\ UNCHANGED <<file, blob, row>>

Recorded(c) == \E id \in ArtifactId : row[id] = c

findArtifactByContentRevision(r) ==
    LET q == acall[r] IN
    /\ q.pc = "find"
    /\ IF Recorded(q.c) THEN ArtifactAnswer(r, "existing") ELSE ArtifactGo(r, "insert")
    /\ UNCHANGED <<file, blob, row>>

\* Unique by id, by storage key and by content.
insertArtifact(r) ==
    LET q == acall[r] IN
    /\ q.pc = "insert"
    /\ IF row[q.id] = None /\ ~Recorded(q.c)
       THEN row' = [row EXCEPT ![q.id] = q.c] /\ ArtifactAnswer(r, "published")
       ELSE UNCHANGED row /\ ArtifactGo(r, "again")
    /\ UNCHANGED <<file, blob>>

\* Mutant: the loser of a race cleans up although the winner's row names the same object.
RemovesDuplicate(r) == r \in FromWorker

\* What the worker removes: an object whose row was refused.
RemovesOnConflict(r) == r \in FromWorker /\ ~Recorded(acall[r].c)

\* After a unique violation: the row of this content is the answer, another content is a conflict.
PublishAgain(r) ==
    LET q == acall[r] IN
    /\ q.pc = "again"
    /\ IF RemovesOnConflict(r) THEN ArtifactGo(r, "delete")
       ELSE ArtifactAnswer(r, IF Recorded(q.c) THEN "existing" ELSE "conflict")
    /\ UNCHANGED <<file, blob, row>>

deleteObject(r) ==
    LET q == acall[r] IN
    /\ q.pc = "delete"
    /\ blob' = [blob EXCEPT ![q.c] = "none"]
    /\ acall' = [p \in ArtifactCall |->
                    IF p = r THEN [q EXCEPT !.pc = "done", !.ans = "conflict"]
                    ELSE IF acall[p].pc = "writing" /\ acall[p].c = q.c
                    THEN [acall[p] EXCEPT !.pc = "unlinked"] ELSE acall[p]]
    /\ UNCHANGED <<file, row>>

-----------------------------------------------------------------------------
(* Reading. *)

\* downloadArtifact and previewArtifact: the row first, then its object.
authorizeArtifact(r) ==
    /\ acall[r].pc = "new" /\ r \notin FromWorker
    /\ \E id \in ArtifactId :
          /\ row[id] # None
          /\ acall' = [acall EXCEPT ![r] = [NewArtifactCall EXCEPT
                          !.pc = "read", !.id = id, !.c = row[id]]]
    /\ UNCHANGED <<file, blob, row>>

\* The object's bytes are not compared with the row's hash.
readArtifactContent(r) ==
    LET q == acall[r] IN
    /\ q.pc = "read"
    /\ ArtifactAnswer(r, IF blob[q.c] = "none" THEN "unavailable" ELSE "shown")
    /\ UNCHANGED <<file, blob, row>>

\* The coworker writes the file again.
SandboxRewrites(id) ==
    /\ \E c \in Content \ {file[id]} : file' = [file EXCEPT ![id] = c]
    /\ UNCHANGED <<blob, row, acall>>

ArtifactStart(f) ==
    /\ file = f
    /\ blob = [c \in Content |-> "none"]
    /\ row = [id \in ArtifactId |-> None]
    /\ acall = [r \in ArtifactCall |-> NewArtifactCall]

ArtifactInit == \E f \in [ArtifactId -> Content] : ArtifactStart(f)

ArtifactStep ==
    \/ \E r \in ArtifactCall :
          \/ persistAgUiSandboxArtifacts(r) \/ executePublishSandboxArtifactCommand(r)
          \/ downloadSandboxFile(r)
          \/ storeArtifactContent(r) \/ FinishWrite(r) \/ CrashWhileStoring(r)
          \/ findArtifactByContentRevision(r) \/ insertArtifact(r) \/ PublishAgain(r) \/ deleteObject(r)
          \/ authorizeArtifact(r) \/ readArtifactContent(r)
    \/ \E id \in ArtifactId : SandboxRewrites(id)
=============================================================================
