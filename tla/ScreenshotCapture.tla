------------------------- MODULE ScreenshotCapture -------------------------
(***************************************************************************)
(* Screenshot answers of one live session.  A page, or a shortcut on the   *)
(* companion, asks for a capture; the companion learns of it from an event *)
(* stream of which the server admits one per device, captures the screen   *)
(* and uploads it; a background job then has the picture answered.  A page *)
(* can also have pictures answered that it uploaded itself; those answers  *)
(* share one reservation.                                                  *)
(*                                                                         *)
(* Requests, tasks and uploads are in Redis; the jobs, the streams and     *)
(* their lease are in the process.                                         *)
(***************************************************************************)
EXTENDS Integers, FiniteSets

CONSTANTS
  Requests,  \* bound: the captures that are asked for
  Jobs,      \* bound: the answers that are worked on, each with its task
  Streams,   \* connections of the companion's event stream
  None

ASSUME ConstantsAssumption ==
  /\ None \notin Requests \cup Jobs \cup Streams
  /\ "picture" \notin Jobs

VARIABLES
  live,       \* whether the session is live
  request,    \* the capture requests: their status and their answer
  published,  \* requests whose first event is in the session's log
  cancelling, \* requests whose cancellation has read them as open
  companion,  \* what the companion is capturing
  lease,      \* the admitted stream of the device
  stream,     \* the companion's connections
  picture,    \* the picture that a page uploaded
  task,       \* the answer tasks
  charge,     \* what the wallet does with each usage id (UsageCharge)
  job         \* the jobs

vars == <<live, request, published, cancelling, companion, lease, stream,
          picture, task, charge, job>>
delivery == <<published, companion, lease, stream>>
answers  == <<picture, task, charge, job>>

\* A captured picture is a new one; the page's is the same for all who ask.
Usages == Jobs \cup {"picture"}

U == INSTANCE UsageCharge

Ended == {"completed", "failed", "cancelled"}

Nothing  == [request |-> None, pc |-> "idle"]
Offline  == [pc |-> "none", pending |-> None, passed |-> {}]
NoJob    == [kind |-> "none", pc |-> "none", request |-> None]
UsageOf(j) == IF job[j].kind = "page" THEN "picture" ELSE j

Init ==
  /\ live = TRUE
  /\ request = [r \in Requests |-> [status |-> "none", task |-> None]]
  /\ published = {} /\ cancelling = {} /\ companion = Nothing
  /\ lease = None /\ stream = [s \in Streams |-> Offline]
  /\ picture = "uploaded"
  /\ task = [j \in Jobs |-> "none"] /\ charge = [u \in Usages |-> "open"]
  /\ job = [j \in Jobs |-> NoJob]

-----------------------------------------------------------------------------
(* Requests.  save_remote_capture_request keeps one that has ended, unless *)
(* the record to be saved has ended too.                                   *)

\* Mutant: the repository that tests use keeps whatever is saved last.
SaveAnyRequest(r, status, t) == request' = [request EXCEPT ![r] = [status |-> status, task |-> t]]

SaveRequest(r, status, t) ==
  request' = IF request[r].status \in Ended /\ status \notin Ended THEN request
             ELSE [request EXCEPT ![r] = [status |-> status, task |-> t]]

CreateRequest(r) ==
  /\ live /\ request[r].status = "none"
  /\ SaveRequest(r, "requested", None)
  /\ UNCHANGED <<live, cancelling, delivery, answers>>

PublishRequest(r) ==
  /\ request[r].status # "none" /\ r \notin published
  /\ published' = published \cup {r}
  /\ UNCHANGED <<live, request, cancelling, companion, lease, stream, answers>>

Requested == {r \in Requests : request[r].status = "requested"}

\* The companion's shortcut asks for itself, unless an earlier request waits.
Shortcut(r) ==
  /\ live /\ request[r].status = "none" /\ companion = Nothing /\ Requested = {}
  /\ SaveRequest(r, "requested", None)
  /\ companion' = [request |-> r, pc |-> "capture"]
  /\ UNCHANGED <<live, cancelling, published, lease, stream, answers>>

CancelReads(r) ==
  /\ request[r].status \in {"requested", "processing"} /\ r \notin cancelling
  /\ cancelling' = cancelling \cup {r}
  /\ UNCHANGED <<live, request, delivery, answers>>

\* No open request names its answer yet, so that no task is deleted with it.
CancelSaves(r) ==
  /\ r \in cancelling /\ cancelling' = cancelling \ {r}
  /\ SaveRequest(r, "cancelled", None)
  /\ UNCHANGED <<live, delivery, answers>>

EndSession ==
  /\ live /\ live' = FALSE
  /\ UNCHANGED <<request, cancelling, delivery, answers>>

-----------------------------------------------------------------------------
(* The companion's stream: admitted, it looks for a request that waits,    *)
(* notes how far the log is, and from there on passes on its events.       *)

Goes(s, next) == stream' = [stream EXCEPT ![s] = next]

Acquire(s) ==
  /\ live /\ stream[s].pc = "none" /\ lease = None
  /\ lease' = s /\ Goes(s, [Offline EXCEPT !.pc = "admitted"])
  /\ UNCHANGED <<live, request, cancelling, published, companion, answers>>

LookForPending(s) ==
  /\ stream[s].pc = "admitted"
  /\ \E r \in IF Requested = {} THEN {None} ELSE Requested :
       Goes(s, [stream[s] EXCEPT !.pc = "looked", !.pending = r])
  /\ UNCHANGED <<live, request, cancelling, published, companion, lease, answers>>

\* A companion that is busy lets what it hears pass.
Hears(r) ==
  companion' = IF companion = Nothing /\ r # None THEN [request |-> r, pc |-> "capture"]
               ELSE companion

NoteCursor(s) ==
  /\ stream[s].pc = "looked"
  /\ Hears(stream[s].pending)
  /\ Goes(s, [pc |-> "open", pending |-> None, passed |-> published])
  /\ UNCHANGED <<live, request, cancelling, published, lease, answers>>

PassOn(s, r) ==
  /\ stream[s].pc = "open" /\ r \in published \ stream[s].passed
  /\ Hears(r)
  /\ Goes(s, [stream[s] EXCEPT !.passed = @ \cup {r}])
  /\ UNCHANGED <<live, request, cancelling, published, lease, answers>>

\* Mutant: a lease is given up without asking whose it is.
ReleaseAny(s) == lease' = None

Release(s) == lease' = IF lease = s THEN None ELSE lease

\* A stream that ends gives up its lease, and once more behind its response.
StreamEnds(s) ==
  /\ stream[s].pc \in {"admitted", "looked", "open"}
  /\ Release(s) /\ Goes(s, [Offline EXCEPT !.pc = "ended"])
  /\ UNCHANGED <<live, request, cancelling, published, companion, answers>>

ReleaseAgain(s) ==
  /\ stream[s].pc = "ended"
  /\ Release(s) /\ Goes(s, Offline)
  /\ UNCHANGED <<live, request, cancelling, published, companion, answers>>

\* Between two connections the companion asks once for what waits.
Poll(r) ==
  /\ live /\ r \in Requested /\ companion = Nothing
  /\ \A s \in Streams : stream[s].pc \in {"none", "ended"}
  /\ companion' = [request |-> r, pc |-> "capture"]
  /\ UNCHANGED <<live, request, cancelling, published, lease, stream, answers>>

-----------------------------------------------------------------------------
(* The companion captures, uploads, and reports what it takes for a        *)
(* failure, such as an upload whose response does not arrive.              *)

JobGoes(j, next) == job' = [job EXCEPT ![j] = next]
At(j, pc) == job[j].pc = pc

\* claim_remote_capture_request in the route, and again in the job.
Claimed(r) ==
  /\ request[r].status # "cancelled"
  /\ IF request[r].status = "completed" THEN UNCHANGED request
     ELSE SaveRequest(r, "processing", request[r].task)

Upload(j) ==
  /\ companion.pc = "capture" /\ live /\ job[j] = NoJob
  /\ Claimed(companion.request)
  /\ JobGoes(j, [kind |-> "capture", pc |-> "claim", request |-> companion.request])
  /\ companion' = [companion EXCEPT !.pc = "sent"]
  /\ UNCHANGED <<live, cancelling, published, lease, stream, picture, task, charge>>

CaptureDone ==
  /\ companion.pc = "sent" /\ companion' = Nothing
  /\ UNCHANGED <<live, request, cancelling, published, lease, stream, answers>>

ReportFailure ==
  /\ companion.pc \in {"capture", "sent"} /\ companion' = Nothing
  /\ IF live /\ request[companion.request].status # "cancelled"
     THEN SaveRequest(companion.request, "failed", request[companion.request].task)
     ELSE UNCHANGED request
  /\ UNCHANGED <<live, cancelling, published, lease, stream, answers>>

-----------------------------------------------------------------------------
(* A job: complete_remote_capture_request around answer_screenshots, or    *)
(* only the latter for a page.                                             *)

AskAboutPicture(j) ==
  /\ job[j] = NoJob
  /\ JobGoes(j, [NoJob EXCEPT !.kind = "page", !.pc = "take"])
  /\ UNCHANGED <<live, request, cancelling, delivery, picture, task, charge>>

\* Claimed again, stored, and announced as being looked at.  A request that
\* was cancelled meanwhile is refused, and so is the report of that failure.
JobClaims(j) ==
  /\ At(j, "claim")
  /\ \/ /\ request[job[j].request].status # "cancelled"
        /\ \/ /\ live /\ JobGoes(j, [job[j] EXCEPT !.pc = "take"])
              /\ Claimed(job[j].request)
           \/ JobGoes(j, [job[j] EXCEPT !.pc = "raised"]) /\ Claimed(job[j].request)
     \/ /\ request[job[j].request].status = "cancelled"
        /\ JobGoes(j, [job[j] EXCEPT !.pc = "done"]) /\ UNCHANGED request
  /\ UNCHANGED <<live, cancelling, delivery, picture, task, charge>>

\* What answer_screenshots raises fails a capture, and a page's request only.
Raises(j) == JobGoes(j, [job[j] EXCEPT !.pc = IF job[j].kind = "page" THEN "done" ELSE "raised"])

\* The picture is checked and read into memory before the upload is released.
TakePicture(j) ==
  /\ At(j, "take")
  /\ IF live /\ (job[j].kind = "page" => picture = "uploaded")
     THEN JobGoes(j, [job[j] EXCEPT !.pc = "reserve"])
     ELSE Raises(j)
  /\ UNCHANGED <<live, request, cancelling, delivery, picture, task, charge>>

\* A reservation of the same pictures is taken as it is, whatever became of it.
ReserveAndQueue(j) ==
  /\ At(j, "reserve")
  /\ picture' = IF job[j].kind = "page" THEN "deleted" ELSE picture
  /\ \/ /\ IF charge[UsageOf(j)] = "open" THEN U!Hold(UsageOf(j)) ELSE UNCHANGED charge
        /\ task' = [task EXCEPT ![j] = "working"]
        /\ JobGoes(j, [job[j] EXCEPT !.pc = "vision"])
     \/ /\ charge[UsageOf(j)] = "open" /\ Raises(j)
        /\ UNCHANGED <<task, charge>>
  /\ UNCHANGED <<live, request, cancelling, delivery>>

SaveTask(j, status) ==
  task' = IF task[j] \in Ended /\ status \notin Ended THEN task
          ELSE [task EXCEPT ![j] = status]

\* Neither the model's text nor its end looks whether the task was deleted.
VisionEnds(j) ==
  /\ At(j, "vision")
  /\ \E status \in {"completed", "failed"} :
       /\ SaveTask(j, status)
       /\ JobGoes(j, [job[j] EXCEPT !.pc = status])
  /\ UNCHANGED <<live, request, cancelling, delivery, picture, charge>>

\* The answer joins the transcript, which fails once the session has ended; a
\* capture's task is saved again with its timings.
AppendAnswer(j) ==
  /\ At(j, "completed")
  /\ IF live THEN /\ JobGoes(j, [job[j] EXCEPT !.pc = "settle"])
                  /\ IF job[j].kind = "capture" THEN SaveTask(j, "completed") ELSE UNCHANGED task
     ELSE Raises(j) /\ UNCHANGED task
  /\ UNCHANGED <<live, request, cancelling, delivery, picture, charge>>

\* Whatever else a job needs may fail it where it is.
BreaksOff(j) ==
  /\ job[j].pc \in {"reserve", "vision", "completed", "settle", "failed", "report", "report failure"}
  /\ Raises(j)
  /\ UNCHANGED <<live, request, cancelling, delivery, picture, task, charge>>

SettleOrRelease(j) ==
  /\ job[j].pc \in {"settle", "failed"}
  /\ IF charge[UsageOf(j)] # "held" THEN UNCHANGED charge
     ELSE IF At(j, "settle") THEN U!Charge(UsageOf(j)) ELSE U!Waive({UsageOf(j)})
  /\ JobGoes(j, [job[j] EXCEPT !.pc = IF job[j].kind = "page" THEN "done"
                                      ELSE IF @ = "settle" THEN "report" ELSE "report failure"])
  /\ UNCHANGED <<live, request, cancelling, delivery, picture, task>>

\* The task is saved once more, and the request with it.
\* Mutant: the answer is taken to be there once it is paid for.
ReportCompleted(j) ==
  /\ job[j].pc \in {"report", "report failure"}
  /\ SaveRequest(job[j].request, "completed", j)
  /\ JobGoes(j, [job[j] EXCEPT !.pc = "done"])
  /\ UNCHANGED <<live, cancelling, delivery, picture, task, charge>>

ReportAnswer(j) ==
  LET status == IF At(j, "report") THEN "completed" ELSE "failed" IN
  /\ job[j].pc \in {"report", "report failure"}
  /\ SaveTask(j, status) /\ SaveRequest(job[j].request, status, j)
  /\ JobGoes(j, [job[j] EXCEPT !.pc = "done"])
  /\ UNCHANGED <<live, cancelling, delivery, picture, charge>>

\* complete_remote_capture_request_safely: what was raised fails the request.
ReportRaised(j) ==
  LET r == job[j].request IN
  /\ At(j, "raised")
  /\ IF request[r].status = "cancelled" THEN UNCHANGED request
     ELSE SaveRequest(r, "failed", request[r].task)
  /\ JobGoes(j, [job[j] EXCEPT !.pc = "done"])
  /\ UNCHANGED <<live, cancelling, delivery, picture, task, charge>>

\* Deleting an answer, done or not, gives back what is still reserved for it.
\* Mutant: a deleted answer is settled.
DeleteAndSettle(j) ==
  /\ task[j] \notin {"none", "cancelled"}
  /\ SaveTask(j, "cancelled")
  /\ IF charge[UsageOf(j)] = "held" THEN U!Charge(UsageOf(j)) ELSE UNCHANGED charge
  /\ UNCHANGED <<live, request, cancelling, delivery, picture, job>>

DeleteTask(j) ==
  /\ task[j] \notin {"none", "cancelled"}
  /\ SaveTask(j, "cancelled")
  /\ IF charge[UsageOf(j)] = "held" THEN U!Waive({UsageOf(j)}) ELSE UNCHANGED charge
  /\ UNCHANGED <<live, request, cancelling, delivery, picture, job>>

-----------------------------------------------------------------------------
\* A task that nobody works on is found interrupted when it is next read.
TaskLapses(j) ==
  /\ task[j] = "working" /\ job[j].pc = "done"
  /\ SaveTask(j, "failed")
  /\ UNCHANGED <<live, request, cancelling, delivery, picture, charge, job>>

ReleaseStale ==
  LET stale == {u \in Usages : charge[u] = "held"
                  /\ \A j \in Jobs : UsageOf(j) = u => job[j].pc \in {"none", "done"}} IN
  /\ stale # {} /\ U!Waive(stale)
  /\ UNCHANGED <<live, request, cancelling, delivery, picture, task, job>>

Restart ==
  /\ cancelling' = {} /\ lease' = None
  /\ stream' = [s \in Streams |-> Offline]
  /\ job' = [j \in Jobs |-> IF job[j] = NoJob THEN NoJob ELSE [job[j] EXCEPT !.pc = "done"]]
  /\ UNCHANGED <<live, request, published, companion, picture, task, charge>>

Next ==
  \/ EndSession \/ CaptureDone \/ ReportFailure \/ ReleaseStale \/ Restart
  \/ \E r \in Requests :
       \/ CreateRequest(r) \/ PublishRequest(r) \/ Shortcut(r)
       \/ CancelReads(r) \/ CancelSaves(r) \/ Poll(r)
  \/ \E s \in Streams :
       \/ Acquire(s) \/ LookForPending(s) \/ NoteCursor(s)
       \/ StreamEnds(s) \/ ReleaseAgain(s)
       \/ \E r \in Requests : PassOn(s, r)
  \/ \E j \in Jobs :
       \/ Upload(j) \/ AskAboutPicture(j) \/ JobClaims(j) \/ TakePicture(j)
       \/ ReserveAndQueue(j) \/ VisionEnds(j) \/ AppendAnswer(j) \/ SettleOrRelease(j)
       \/ BreaksOff(j) \/ ReportAnswer(j) \/ ReportRaised(j) \/ DeleteTask(j) \/ TaskLapses(j)

Spec == Init /\ [][Next]_vars

-----------------------------------------------------------------------------
(* The types; the lease is that of a stream that runs.                     *)
TypeOK ==
  /\ live \in BOOLEAN /\ picture \in {"uploaded", "deleted"}
  /\ request \in [Requests -> [status : {"none", "requested", "processing"} \cup Ended,
                               task : Jobs \cup {None}]]
  /\ published \subseteq Requests /\ cancelling \subseteq Requests
  /\ companion \in [request : Requests \cup {None}, pc : {"idle", "capture", "sent"}]
  /\ lease \in Streams \cup {None}
  /\ lease # None => stream[lease].pc \in {"admitted", "looked", "open"}
  /\ task \in [Jobs -> {"none", "working"} \cup Ended]
  /\ charge \in [Usages -> U!States]

(* A device has one stream at a time, however fast it reconnects and       *)
(* although every stream gives up its lease twice.                         *)
OneStream ==
  \A s, t \in Streams :
    /\ stream[s].pc \in {"admitted", "looked", "open"}
    /\ stream[t].pc \in {"admitted", "looked", "open"}
    => s = t

(* What is charged was answered: some task of that reservation has been    *)
(* completed, even if it was deleted since.                                *)
ChargedWasAnswered ==
  \A u \in Usages : charge[u] = "charged" =>
    \E j \in Jobs : UsageOf(j) = u /\ task[j] \in {"completed", "cancelled"}
                    /\ job[j].pc \notin {"take", "reserve", "vision"}

(* A request that is shown as completed has an answer to show, which was   *)
(* completed and at most deleted by the user since.                        *)
CompletedHasAnswer ==
  \A r \in Requests : request[r].status = "completed" =>
    /\ request[r].task # None
    /\ task[request[r].task] \in {"completed", "cancelled"}

(* A capture that has ended, for the user to see, is never taken up again  *)
(* as being processed, though its job and the companion may still act.     *)
RequestStaysEnded ==
  [][\A r \in Requests : request[r].status \in Ended => request'[r].status \in Ended]_vars

(* What an open stream has left behind in the log, it has told the         *)
(* companion about: no request that waits is passed over.                  *)
NoRequestPassedOver ==
  \A s \in Streams, r \in Requested :
    stream[s].pc = "open" /\ r \in stream[s].passed => companion # Nothing
=============================================================================
