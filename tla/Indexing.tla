------------------------------ MODULE Indexing ------------------------------
(***************************************************************************)
(* The indexing of one knowledge document.  Completing the upload holds    *)
(* points for it and queues a task; the process's one worker thread parses *)
(* the file, writes the index, takes the points and makes the document     *)
(* ready.  Its owner may meanwhile retry the task, rename, disable or      *)
(* delete the document.  The handlers run on the event loop one at a time, *)
(* each interleaved with the worker.                                       *)
(*                                                                         *)
(* The document, its holds, the index and the durable job are in the       *)
(* database; the task and the queue are in the process.  The removal of a  *)
(* deleted document's files, later and elsewhere, is not modelled.         *)
(***************************************************************************)
EXTENDS Integers, Sequences, SequencesExt

CONSTANTS
  MaxRetries,  \* how often a failed task is tried again by itself
  Retries,     \* bound: how often the owner asks for a retry
  Restarts,    \* bound: how often the process is restarted
  None

Documents == [status : {"uploaded", "processing_requested", "processing", "ready", "failed", "deleted"},
              index  : {"queued", "processing", "indexed", "failed", "disabled"}]

Tasks == [stage : {"QUEUED", "RUNNING", "COMPLETED", "FAILED"}, retries : Nat]

ASSUME ConstantsAssumption ==
  /\ MaxRetries \in Nat /\ Retries \in Nat /\ Restarts \in Nat
  /\ None \notin Documents /\ None \notin Tasks

VARIABLES
  doc,      \* the document's row: its status and its index state
  hold,     \* the reservations made for it, oldest first
  charged,  \* whether the ledger holds its settlement
  indexed,  \* whether rows of its index have been written
  job,      \* the durable processing job
  task,     \* the processing task
  queue,    \* how often the task is in the queue
  worker,   \* the worker thread
  call,     \* the handler that runs
  retried, restarted

vars == <<doc, hold, charged, indexed, job, task, queue, worker, call, retried, restarted>>
billing == <<hold, charged>>
bounds  == <<retried, restarted>>

NoCall   == [at |-> "none", doc |-> None, retries |-> 0]
NoWork   == [at |-> "idle", retries |-> 0]

Init ==
  /\ doc = [status |-> "uploaded", index |-> "queued"]
  /\ hold = <<>> /\ charged = FALSE /\ indexed = FALSE
  /\ job = [status |-> "none", retries |-> 0]
  /\ task = None /\ queue = 0 /\ worker = NoWork /\ call = NoCall
  /\ retried = 0 /\ restarted = 0

Calls(at) == call' = [call EXCEPT !.at = at]
Works(at) == worker' = [worker EXCEPT !.at = at]

-----------------------------------------------------------------------------
(* Holds.  Each quote has at most one; the document's is its latest.       *)

HoldOf(quote) == {i \in DOMAIN hold : hold[i].quote = quote}
LatestHeld    == hold # <<>> /\ Last(hold).status = "reserved"
LatestBecomes(status) == hold' = [hold EXCEPT ![Len(hold)].status = status]

\* Held: the quote's hold exists already or is made, balance permitting.
Reserve(quote) ==
  \/ /\ HoldOf(quote) # {} /\ \A i \in HoldOf(quote) : hold[i].status = "reserved"
     /\ hold' = hold
  \/ /\ HoldOf(quote) = {}
     /\ hold' = Append(hold, [quote |-> quote, status |-> "reserved"])

\* Refused: the balance is too low, or the quote's hold has ended.
Refused(quote) == \A i \in HoldOf(quote) : hold[i].status # "reserved"

Release == IF LatestHeld THEN LatestBecomes("released") ELSE hold' = hold

-----------------------------------------------------------------------------
(* The handlers.                                                           *)

\* complete_upload: holds the quoted points, saves the document, submits it.
UploadReserves ==
  /\ call = NoCall /\ doc.status = "uploaded"
  /\ \/ Reserve(0) /\ Calls("upload saves")
     \/ Refused(0) /\ UNCHANGED <<hold, call>>
  /\ UNCHANGED <<doc, charged, indexed, job, task, queue, worker, bounds>>

UploadSaves ==
  /\ call.at = "upload saves" /\ Calls("upload submits")
  /\ doc' = [status |-> "processing_requested", index |-> "queued"]
  /\ UNCHANGED <<billing, indexed, job, task, queue, worker, bounds>>

UploadSubmits ==
  /\ call.at = "upload submits" /\ call' = NoCall
  /\ task' = [stage |-> "QUEUED", retries |-> 0]
  /\ job' = [status |-> "queued", retries |-> 0]
  /\ queue' = queue + 1
  /\ UNCHANGED <<doc, billing, indexed, worker, bounds>>

UploadFails ==
  /\ call.at \in {"upload saves", "upload submits"} /\ call' = NoCall
  /\ Release
  /\ UNCHANGED <<doc, charged, indexed, job, task, queue, worker, bounds>>

\* retry_task: whatever the task's stage, a new quote is held and the task
\* is queued once more.
RetryReads ==
  /\ call = NoCall /\ task # None /\ retried < Retries
  /\ call' = [at |-> "retry reserves", doc |-> doc, retries |-> task.retries]
  /\ retried' = retried + 1
  /\ UNCHANGED <<doc, billing, indexed, job, task, queue, worker, restarted>>

RetryReserves ==
  /\ call.at = "retry reserves"
  /\ LET quote == call.retries + 1 IN
     \/ Reserve(quote) /\ Calls("retry resets")
     \/ Refused(quote) /\ hold' = hold /\ call' = NoCall
  /\ UNCHANGED <<doc, charged, indexed, job, task, queue, worker, bounds>>

RetryResets ==
  /\ call.at = "retry resets" /\ Calls("retry queues")
  /\ task' = [stage |-> "QUEUED", retries |-> call.retries]
  /\ UNCHANGED <<doc, billing, indexed, job, queue, worker, bounds>>

RetryQueues ==
  /\ call.at = "retry queues" /\ call' = NoCall
  /\ doc' = [call.doc EXCEPT !.status = "processing_requested"]
  /\ queue' = queue + 1
  /\ UNCHANGED <<billing, indexed, job, task, worker, bounds>>

\* delete_document.
DeleteReads ==
  /\ call = NoCall /\ doc.status # "deleted"
  /\ call' = [at |-> "delete saves", doc |-> doc, retries |-> 0]
  /\ UNCHANGED <<doc, billing, indexed, job, task, queue, worker, bounds>>

DeleteSaves ==
  /\ call.at = "delete saves" /\ Calls("delete releases")
  /\ doc' = [call.doc EXCEPT !.status = "deleted"]
  /\ UNCHANGED <<billing, indexed, job, task, queue, worker, bounds>>

\* The hold is looked for through the document's tasks.
DeleteReleases ==
  /\ call.at = "delete releases" /\ call' = NoCall
  /\ IF task # None THEN Release ELSE hold' = hold
  /\ UNCHANGED <<doc, charged, indexed, job, task, queue, worker, bounds>>

\* rename_document and set_document_enabled.
EditReads ==
  /\ call = NoCall /\ doc.status # "deleted"
  /\ \E index \in {doc.index} \cup (IF doc.status = "ready" THEN {"indexed", "disabled"} ELSE {}) :
       call' = [at |-> "edit saves", doc |-> [doc EXCEPT !.index = index], retries |-> 0]
  /\ UNCHANGED <<doc, billing, indexed, job, task, queue, worker, bounds>>

EditSaves ==
  /\ call.at = "edit saves" /\ call' = NoCall
  /\ doc' = call.doc
  /\ UNCHANGED <<billing, indexed, job, task, queue, worker, bounds>>

-----------------------------------------------------------------------------
(* The worker.                                                             *)

Take ==
  /\ worker.at = "idle" /\ queue > 0
  /\ queue' = queue - 1
  /\ worker' = [at |-> "begin", retries |-> task.retries]
  /\ UNCHANGED <<doc, billing, indexed, job, task, call, bounds>>

Begin ==
  /\ worker.at = "begin" /\ Works("parse")
  /\ doc' = [status |-> "processing", index |-> "processing"]
  /\ UNCHANGED <<billing, indexed, job, task, queue, call, bounds>>

\* Mutant: a document whose text is cached is taken to be indexed.
ParseOnly ==
  /\ worker.at = "parse" /\ (Works("embed") \/ Works("check"))
  /\ task' = [stage |-> "RUNNING", retries |-> worker.retries]
  /\ UNCHANGED <<doc, billing, indexed, job, queue, call, bounds>>

Parse ==
  /\ worker.at = "parse" /\ Works("embed")
  /\ task' = [stage |-> "RUNNING", retries |-> worker.retries]
  /\ UNCHANGED <<doc, billing, indexed, job, queue, call, bounds>>

Embed ==
  /\ worker.at = "embed" /\ Works("check")
  /\ task' = [stage |-> "RUNNING", retries |-> worker.retries]
  /\ indexed' = TRUE
  /\ UNCHANGED <<doc, billing, job, queue, call, bounds>>

\* A document deleted by now is left alone and its hold is released.
Check ==
  /\ worker.at = "check"
  /\ IF doc.status = "deleted" THEN Release /\ worker' = NoWork
                               ELSE hold' = hold /\ Works("settle")
  /\ UNCHANGED <<doc, charged, indexed, job, task, queue, call, bounds>>

\* Mutant: how the hold has ended is not looked at.
SettleAnyhow ==
  /\ worker.at = "settle" /\ Works("complete")
  /\ IF LatestHeld THEN LatestBecomes("settled") /\ charged' = TRUE
                   ELSE UNCHANGED billing
  /\ UNCHANGED <<doc, indexed, job, task, queue, call, bounds>>

\* The ledger keeps one settlement of a document, whichever hold it ends.
Settle ==
  /\ worker.at = "settle"
  /\ \/ LatestHeld /\ LatestBecomes("settled") /\ charged' = TRUE
     \/ ~LatestHeld /\ Last(hold).status = "settled" /\ UNCHANGED billing
  /\ Works("complete")
  /\ UNCHANGED <<doc, indexed, job, task, queue, call, bounds>>

Complete ==
  /\ worker.at = "complete" /\ Works("ready")
  /\ task' = [stage |-> "COMPLETED", retries |-> worker.retries]
  /\ job' = [job EXCEPT !.status = "succeeded"]
  /\ UNCHANGED <<doc, billing, indexed, queue, call, bounds>>

MakeReady ==
  /\ worker.at = "ready" /\ worker' = NoWork
  /\ doc' = [status |-> "ready", index |-> "indexed"]
  /\ UNCHANGED <<billing, indexed, job, task, queue, call, bounds>>

\* Any step may raise; a settlement that has not settled does.
Fail(retryable) ==
  LET again == retryable /\ worker.retries < MaxRetries IN
  /\ worker.at \in {"begin", "parse", "embed", "check", "settle", "complete", "ready"}
  /\ task' = [stage |-> IF again THEN "QUEUED" ELSE "FAILED", retries |-> worker.retries + 1]
  /\ job' = [status |-> IF again /\ job.retries < MaxRetries THEN "retrying" ELSE "failed",
             retries |-> job.retries + 1]
  /\ Works(IF again THEN "requeue" ELSE "failed")
  /\ UNCHANGED <<doc, billing, indexed, queue, call, bounds>>

\* Mutant: the task is left to the durable job.
RequeueJob ==
  /\ worker.at = "requeue" /\ worker' = NoWork
  /\ UNCHANGED <<doc, billing, indexed, job, task, queue, call, bounds>>

Requeue ==
  /\ worker.at = "requeue" /\ worker' = NoWork
  /\ queue' = queue + 1
  /\ UNCHANGED <<doc, billing, indexed, job, task, call, bounds>>

SaveFailed ==
  /\ worker.at = "failed" /\ Works("release")
  /\ doc' = [status |-> "failed", index |-> "failed"]
  /\ UNCHANGED <<billing, indexed, job, task, queue, call, bounds>>

ReleaseFailed ==
  /\ worker.at = "release" /\ worker' = NoWork
  /\ Release
  /\ UNCHANGED <<doc, charged, indexed, job, task, queue, call, bounds>>

-----------------------------------------------------------------------------
\* Nothing in the process survives, and nobody claims the processing job.
Restart ==
  /\ restarted < Restarts /\ restarted' = restarted + 1
  /\ task' = None /\ queue' = 0 /\ worker' = NoWork /\ call' = NoCall
  /\ UNCHANGED <<doc, billing, indexed, job, retried>>

Upload == UploadReserves \/ UploadSaves \/ UploadSubmits \/ UploadFails
Retry  == RetryReads \/ RetryReserves \/ RetryResets \/ RetryQueues
Delete == DeleteReads \/ DeleteSaves \/ DeleteReleases
Edit   == EditReads \/ EditSaves
Runs   == \/ Take \/ Begin \/ Parse \/ Embed \/ Check \/ Settle \/ Complete \/ MakeReady
          \/ \E retryable \in BOOLEAN : Fail(retryable)
          \/ Requeue \/ SaveFailed \/ ReleaseFailed
Answers == \/ UploadSaves \/ UploadSubmits \/ RetryReserves \/ RetryResets \/ RetryQueues
           \/ DeleteSaves \/ DeleteReleases \/ EditSaves

Next == Upload \/ Retry \/ Delete \/ Edit \/ Runs \/ Restart

Spec == Init /\ [][Next]_vars

\* The worker thread runs on, and a handler that has begun ends.
FairSpec == Spec /\ WF_vars(Runs) /\ WF_vars(Answers)

-----------------------------------------------------------------------------
\* The types; a document that waits for its upload has no work, and the
\* ledger is charged exactly when a hold of the document stands as settled.
TypeOK ==
  /\ doc \in Documents
  /\ \A i \in DOMAIN hold : hold[i].status \in {"reserved", "settled", "released"}
  /\ task \in Tasks \cup {None}
  /\ call.doc \in Documents \cup {None}
  /\ queue > 0 \/ worker # NoWork => task # None
  /\ doc.status = "uploaded" => task = None
  /\ charged = (\E i \in DOMAIN hold : hold[i].status = "settled")

\* A document is ready only if it has been paid for, whatever was deleted,
\* released or retried while the worker ran.
ReadyIsPaid == doc.status = "ready" => charged

\* Points are taken only once the index has been written.
PaidHasIndex == charged => indexed

\* The document's latest hold does not stay held while the process lives: a
\* queued task ends, and takes or returns the points.
HoldEnds == LatestHeld ~> (~LatestHeld \/ restarted > 0)

\* A queued job is worked on, if need be by the next process, unless its
\* document has been deleted.
JobResumes == job.status = "queued" ~> (job.status # "queued" \/ doc.status = "deleted")

\* A deleted document stays deleted.
DeletedStaysDeleted == [][doc.status = "deleted" => doc'.status = "deleted"]_vars
=============================================================================
