--------------------------- MODULE CompanionProofs ---------------------------
(***************************************************************************)
(* Theorems about what the desktop companion meets: ScreenshotCapture (the *)
(* captures it is asked for and the stream it hears of them on),           *)
(* DesktopPairing (the machine an interview is bound to) and FrameStream   *)
(* (the audio frames it sends).  The three are separate models; they share *)
(* this module, and no proof uses a fact of another one.                   *)
(***************************************************************************)
EXTENDS ScreenshotCapture, DesktopPairing, FrameStream, FiniteSetTheorems,
        SequenceTheorems, WellFoundedInduction, TLAPS

-----------------------------------------------------------------------------
(***************************************************************************)
(* ScreenshotCapture                                                       *)
(***************************************************************************)

Calls == [kind : {"none", "page", "capture"},
          pc : {"none", "claim", "take", "reserve", "vision", "completed", "failed",
                "settle", "report", "report failure", "raised", "done"},
          request : Requests \cup {None}]

Later == {"take", "reserve", "vision", "completed", "failed", "settle", "report",
          "report failure", "raised", "done"}

Statuses == {"none", "requested", "processing"} \cup Ended

Rows == [status : Statuses, task : Jobs \cup {None}]

\* A job is about a request exactly if it answers a capture, and only then
\* does it claim a request or report to it.
Placed(k) ==
  /\ k.pc = "none" => k = NoJob
  /\ k.kind = "none" => k.pc = "none"
  /\ k.kind = "capture" => k.request \in Requests
  /\ k.pc \in {"claim", "raised", "report", "report failure"} => k.kind = "capture"

Connections == [pc : {"none", "admitted", "looked", "open", "ended"},
                pending : Requests \cup {None}, passed : SUBSET Requests]

Shapes ==
  /\ live \in BOOLEAN /\ picture \in {"uploaded", "deleted"}
  /\ request \in [Requests -> Rows]
  /\ published \subseteq Requests /\ cancelling \subseteq Requests
  /\ companion \in [request : Requests \cup {None}, pc : {"idle", "capture", "sent"}]
  /\ companion.pc # "idle" => companion.request \in Requests
  /\ lease \in Streams \cup {None}
  /\ stream \in [Streams -> Connections]
  /\ task \in [Jobs -> {"none", "working"} \cup Ended]
  /\ charge \in [Usages -> U!States]
  /\ job \in [Jobs -> Calls]
  /\ \A j \in Jobs : Placed(job[j])

Running(s) == stream[s].pc \in {"admitted", "looked", "open"}

\* The stream that runs is the one that was admitted.
LeaseOfRunning ==
  /\ \A s \in Streams : Running(s) => lease = s
  /\ lease # None => Running(lease)

Delivered == {"completed", "cancelled"}

\* An answer that was completed, and that no step of its job takes back.
Answered(j) ==
  /\ task[j] \in Delivered
  /\ job[j].pc \in {"completed", "settle", "report", "raised", "done"}

\* A job settles and reports success only for an answer it has completed.
AnswersStand == \A j \in Jobs : job[j].pc \in {"completed", "settle", "report"} => task[j] \in Delivered

ChargesAnswered ==
  \A u \in Usages : charge[u] = "charged" => \E j \in Jobs : UsageOf(j) = u /\ Answered(j)

\* The answer a completed request names is of a job that is over.
CompletedIsOver ==
  \A r \in Requests : request[r].status = "completed" =>
    /\ request[r].task \in Jobs
    /\ task[request[r].task] \in Delivered
    /\ job[request[r].task].pc = "done"

CapturesInv == Shapes /\ LeaseOfRunning /\ AnswersStand /\ ChargesAnswered /\ CompletedIsOver
-----------------------------------------------------------------------------
(* What one assignment does                                                *)

(* A request is saved, or kept because it has ended.                       *)
LEMMA SavingRequest ==
  ASSUME Shapes, NEW r \in Requests, NEW to \in Statuses, NEW t \in Jobs \cup {None},
         SaveRequest(r, to, t)
  PROVE  /\ request' \in [Requests -> Rows]
         /\ \A q \in Requests :
              \/ request'[q] = request[q]
              \/ q = r /\ request'[q].status = to /\ request'[q].task = t
BY SMT DEF Shapes, SaveRequest, Rows, Statuses, Ended

(* A claim leaves completed requests as they are.                          *)
LEMMA ClaimedRequests ==
  ASSUME Shapes, NEW r \in Requests, Claimed(r)
  PROVE  /\ request' \in [Requests -> Rows]
         /\ \A q \in Requests : request'[q].status = "completed" => request'[q] = request[q]
<1>1. "processing" \in Statuses /\ request[r].task \in Jobs \cup {None}
  BY SMT DEF Shapes, Rows, Statuses
<1>2. CASE UNCHANGED request
  BY <1>2 DEF Shapes
<1>3. CASE SaveRequest(r, "processing", request[r].task)
  BY <1>1, <1>3, SavingRequest, Zenon
<1> QED
  BY <1>2, <1>3 DEF Claimed

(* A job moves, and the others stay.                                       *)
LEMMA OneJobMoves ==
  ASSUME Shapes, NEW j \in Jobs, NEW k \in Calls, Placed(k), JobGoes(j, k)
  PROVE  /\ job' \in [Jobs -> Calls] /\ \A i \in Jobs : Placed(job'[i])
         /\ job'[j] = k /\ \A i \in Jobs \ {j} : job'[i] = job[i]
BY SMT DEF Shapes, JobGoes

\* A job goes on to a stage, about the same request.
TaskGoesOn(j, p) ==
  /\ job' \in [Jobs -> Calls] /\ \A i \in Jobs : Placed(job'[i])
  /\ job'[j].pc = p /\ job'[j].kind = job[j].kind /\ job'[j].request = job[j].request
  /\ \A i \in Jobs \ {j} : job'[i] = job[i]

(* A job that only goes on stays about what it is about.                   *)
LEMMA JobGoesOn ==
  ASSUME Shapes, NEW j \in Jobs, job[j].kind # "none", NEW p \in Later,
         p \in {"raised", "report", "report failure"} => job[j].kind = "capture",
         JobGoes(j, [job[j] EXCEPT !.pc = p])
  PROVE  TaskGoesOn(j, p)
<1> DEFINE k == [job[j] EXCEPT !.pc = p]
<1>1. job[j] \in Calls /\ Placed(job[j])
  BY DEF Shapes
<1>2. k.pc = p /\ k.kind = job[j].kind /\ k.request = job[j].request
  BY <1>1 DEF Calls
<1>3. k \in Calls
  <2>1. p \in {"none", "claim", "take", "reserve", "vision", "completed", "failed",
                "settle", "report", "report failure", "raised", "done"}
    BY DEF Later
  <2> QED
    BY <1>1, <2>1, Zenon DEF Calls
<1>5. Placed(k)
  <2>1. k.pc # "none" /\ k.kind # "none"
    BY <1>2 DEF Later
  <2>2. k.kind = "capture" => k.request \in Requests
    BY <1>1, <1>2 DEF Placed
  <2>3. k.pc \in {"claim", "raised", "report", "report failure"} => k.kind = "capture"
    BY <1>2 DEF Later
  <2> HIDE DEF k
  <2> QED
    BY <2>1, <2>2, <2>3, Zenon DEF Placed
<1>4. JobGoes(j, k)
  OBVIOUS
<1> HIDE DEF k
<1> QED
  BY <1>2, <1>3, <1>4, <1>5, OneJobMoves DEF TaskGoesOn

(* A task is saved, or kept because it has ended.                          *)
LEMMA SavingTask ==
  ASSUME Shapes, NEW j \in Jobs, NEW to \in {"none", "working"} \cup Ended, SaveTask(j, to)
  PROVE  /\ task' \in [Jobs -> {"none", "working"} \cup Ended]
         /\ \A i \in Jobs \ {j} : task'[i] = task[i]
         /\ task'[j] = IF task[j] \in Ended /\ to \notin Ended THEN task[j] ELSE to
BY SMT DEF Shapes, SaveTask, Ended

(* What the wallet does keeps its shape, and charges one usage at most.    *)
LEMMA ChargeMoves ==
  ASSUME Shapes, NEW u \in Usages
  PROVE  /\ U!Hold(u) => /\ charge' \in [Usages -> U!States]
                         /\ \A x \in Usages : charge'[x] = "charged" => charge[x] = "charged"
         /\ U!Charge(u) => /\ charge' \in [Usages -> U!States]
                           /\ \A x \in Usages : charge'[x] = "charged" => x = u \/ charge[x] = "charged"
         /\ \A S \in SUBSET Usages : U!Waive(S) =>
              /\ charge' \in [Usages -> U!States]
              /\ \A x \in Usages : charge'[x] = "charged" => charge[x] = "charged"
BY SMT DEF Shapes, U!Hold, U!Charge, U!Waive, U!Move, U!States

\* The usage of an answer task is one of the wallet.
LEMMA UsagesOfJobs == \A j \in Jobs : UsageOf(j) \in Usages
BY DEF UsageOf, Usages

-----------------------------------------------------------------------------
(* What a step has to show                                                 *)

Over(j) == task[j] \in Delivered /\ job[j].pc = "done"

(* Answers that were given stay, and what is new rests on one.             *)
LEMMA AnswersStay ==
  ASSUME CapturesInv, Shapes', LeaseOfRunning', AnswersStand',
         \A j \in Jobs : Answered(j) => Answered(j)' /\ UsageOf(j)' = UsageOf(j),
         \A j \in Jobs : Over(j) => Over(j)',
         \A u \in Usages : charge'[u] = "charged" =>
            charge[u] = "charged" \/ \E j \in Jobs : UsageOf(j)' = u /\ Answered(j)',
         \A r \in Requests : request'[r].status = "completed" =>
            \/ request'[r] = request[r]
            \/ \E j \in Jobs : request'[r].task = j /\ Over(j)'
  PROVE  CapturesInv'
<1>1. ChargesAnswered'
  BY DEF CapturesInv, ChargesAnswered
<1>2. CompletedIsOver'
  BY DEF CapturesInv, CompletedIsOver, Over
<1> QED
  BY <1>1, <1>2 DEF CapturesInv

(* Steps that leave tasks, charges and jobs alone.                         *)
LEMMA RequestsMove ==
  ASSUME CapturesInv, Shapes', LeaseOfRunning', UNCHANGED <<task, charge, job>>,
         \A r \in Requests : request'[r].status = "completed" => request'[r] = request[r]
  PROVE  CapturesInv'
BY DEF CapturesInv, AnswersStand, ChargesAnswered, CompletedIsOver, Answered, UsageOf

Given == {"completed", "settle", "report", "raised", "done"}

(* The step of a job that has begun and is not over.                       *)
LEMMA JobStep ==
  ASSUME CapturesInv, NEW j \in Jobs, job[j].pc \notin {"none", "done"}, NEW p \in Later,
         TaskGoesOn(j, p),
         request' \in [Requests -> Rows], picture' \in {"uploaded", "deleted"},
         task' \in [Jobs -> {"none", "working"} \cup Ended],
         \A i \in Jobs \ {j} : task'[i] = task[i],
         charge' \in [Usages -> U!States],
         UNCHANGED <<live, cancelling, published, companion, lease, stream>>,
         Answered(j) => task'[j] \in Delivered /\ p \in Given,
         p \in {"completed", "settle", "report"} => task'[j] \in Delivered,
         \A u \in Usages : charge'[u] = "charged" =>
           charge[u] = "charged" \/ (u = UsageOf(j) /\ task'[j] \in Delivered /\ p \in Given),
         \A r \in Requests : request'[r].status = "completed" =>
           request'[r] = request[r] \/ (request'[r].task = j /\ task'[j] \in Delivered /\ p = "done")
  PROVE  CapturesInv'
<1>1. Shapes /\ LeaseOfRunning /\ AnswersStand
  BY DEF CapturesInv
<1>3. /\ job' \in [Jobs -> Calls] /\ \A i \in Jobs : Placed(job'[i])
      /\ job'[j].pc = p /\ job'[j].kind = job[j].kind /\ job'[j].request = job[j].request
      /\ \A i \in Jobs \ {j} : job'[i] = job[i]
  BY DEF TaskGoesOn
<1>4. Shapes'
  BY <1>1, <1>3, Zenon DEF Shapes, Placed
<1>5. LeaseOfRunning'
  BY <1>1 DEF LeaseOfRunning, Running
<1>6. AnswersStand'
  BY <1>1, <1>3, SMT DEF AnswersStand
<1>7. \A i \in Jobs : UsageOf(i)' = UsageOf(i)
  BY <1>3, Zenon DEF UsageOf
<1>8. \A i \in Jobs : Answered(i) => Answered(i)'
  BY <1>3, SMT DEF Answered, Given
<1>9. \A i \in Jobs : Over(i) => Over(i)'
  BY <1>3, SMT DEF Over
<1>10. task'[j] \in Delivered /\ p \in Given => Answered(j)'
  BY <1>3, SMT DEF Answered, Given
<1>11. task'[j] \in Delivered /\ p = "done" => Over(j)'
  BY <1>3 DEF Over
<1> QED
  BY <1>4, <1>5, <1>6, <1>7, <1>8, <1>9, <1>10, <1>11, AnswersStay

(* A connection moves, and the others stay.                                *)
LEMMA OneStreamMoves ==
  ASSUME Shapes, NEW s \in Streams, NEW k \in Connections, Goes(s, k)
  PROVE  /\ stream' \in [Streams -> Connections]
         /\ stream'[s] = k /\ \A t \in Streams \ {s} : stream'[t] = stream[t]
BY SMT DEF Shapes, Goes
-----------------------------------------------------------------------------
(* The requests                                                            *)

\* The steps of a request, from the companion or the page, keep the invariant.
LEMMA RequestSteps ==
  ASSUME CapturesInv,
         NEW r \in Requests,
         CreateRequest(r) \/ PublishRequest(r) \/ Shortcut(r) \/ CancelReads(r) \/ CancelSaves(r) \/ Poll(r)
  PROVE  CapturesInv'
<1>1. Shapes /\ LeaseOfRunning
  BY DEF CapturesInv
<1>2. UNCHANGED <<lease, stream>> => LeaseOfRunning'
  BY <1>1 DEF LeaseOfRunning, Running
<1>3. ASSUME NEW to \in Statuses, to # "completed", SaveRequest(r, to, None)
      PROVE  /\ request' \in [Requests -> Rows]
             /\ \A q \in Requests : request'[q].status = "completed" => request'[q] = request[q]
  <2>1. None \in Jobs \cup {None}
    OBVIOUS
  <2>2. /\ request' \in [Requests -> Rows]
        /\ \A q \in Requests : request'[q] = request[q] \/ (q = r /\ request'[q].status = to)
    BY <1>1, <1>3, <2>1, SavingRequest, ZenonT(60)
  <2> QED
    BY <1>3, <2>2
<1>4. [request |-> r, pc |-> "capture"] \in [request : Requests \cup {None}, pc : {"idle", "capture", "sent"}]
      /\ [request |-> r, pc |-> "capture"].request = r
  OBVIOUS
<1>5. CASE CreateRequest(r)
  <2>1. SaveRequest(r, "requested", None) /\ UNCHANGED <<live, cancelling, delivery, answers>>
    BY <1>5 DEF CreateRequest
  <2>2. Shapes'
    BY <1>1, <2>1, <1>3, Zenon DEF Shapes, delivery, answers, Statuses
  <2> QED
    BY <2>1, <2>2, <1>2, <1>3, RequestsMove DEF delivery, answers, Statuses
<1>6. CASE PublishRequest(r)
  BY <1>1, <1>2, <1>6, RequestsMove DEF PublishRequest, Shapes, answers
<1>7. CASE Shortcut(r)
  <2>1. /\ SaveRequest(r, "requested", None) /\ companion' = [request |-> r, pc |-> "capture"]
        /\ UNCHANGED <<live, cancelling, published, lease, stream, answers>>
    BY <1>7 DEF Shortcut
  <2>2. Shapes'
    BY <1>1, <2>1, <1>3, <1>4, Zenon DEF Shapes, answers, Statuses
  <2> QED
    BY <2>1, <2>2, <1>2, <1>3, RequestsMove DEF answers, Statuses
<1>8. CASE CancelReads(r)
  BY <1>1, <1>2, <1>8, RequestsMove DEF CancelReads, Shapes, delivery, answers
<1>9. CASE CancelSaves(r)
  <2>1. /\ SaveRequest(r, "cancelled", None) /\ cancelling' = cancelling \ {r}
        /\ UNCHANGED <<live, delivery, answers>>
    BY <1>9 DEF CancelSaves
  <2>3. "cancelled" \in Statuses
    BY DEF Statuses, Ended
  <2>4. cancelling' \subseteq Requests
    BY <1>1, <2>1 DEF Shapes
  <2>2. Shapes'
    BY <1>1, <2>1, <2>3, <2>4, <1>3, Zenon DEF Shapes, delivery, answers
  <2> QED
    BY <2>1, <2>2, <2>3, <1>2, <1>3, RequestsMove DEF delivery, answers
<1>10. CASE Poll(r)
  <2>1. /\ companion' = [request |-> r, pc |-> "capture"]
        /\ UNCHANGED <<live, request, cancelling, published, lease, stream, answers>>
    BY <1>10 DEF Poll
  <2>2. Shapes'
    BY <1>1, <2>1, <1>4, Zenon DEF Shapes, answers
  <2> QED
    BY <2>1, <2>2, <1>2, RequestsMove DEF answers
<1> QED
  BY <1>5, <1>6, <1>7, <1>8, <1>9, <1>10

(* The companion                                                           *)
LEMMA CompanionSteps ==
  ASSUME CapturesInv, EndSession \/ CaptureDone \/ ReportFailure
  PROVE  CapturesInv'
<1>1. Shapes /\ LeaseOfRunning
  BY DEF CapturesInv
<1>2. UNCHANGED <<lease, stream>> => LeaseOfRunning'
  BY <1>1 DEF LeaseOfRunning, Running
<1>3. CASE EndSession
  BY <1>1, <1>2, <1>3, RequestsMove DEF EndSession, Shapes, delivery, answers
<1>4. Nothing \in [request : Requests \cup {None}, pc : {"idle", "capture", "sent"}]
      /\ Nothing.pc = "idle"
  BY DEF Nothing
<1>5. CASE CaptureDone
  <2>1. /\ companion' = Nothing
        /\ UNCHANGED <<live, request, cancelling, published, lease, stream, answers>>
    BY <1>5 DEF CaptureDone
  <2>2. Shapes'
    BY <1>1, <2>1, <1>4, Zenon DEF Shapes, answers
  <2> QED
    BY <2>1, <2>2, <1>2, RequestsMove DEF answers
<1>6. CASE ReportFailure
  <2>1. companion.request \in Requests
    BY <1>1, <1>6, SMT DEF ReportFailure, Shapes
  <2>2. /\ companion' = Nothing
        /\ UNCHANGED <<live, cancelling, published, lease, stream, answers>>
    BY <1>6 DEF ReportFailure
  <2>3. "failed" \in Statuses /\ request[companion.request].task \in Jobs \cup {None}
    BY <1>1, <2>1, SMT DEF Shapes, Rows, Statuses, Ended
  <2>4. \/ UNCHANGED request
        \/ SaveRequest(companion.request, "failed", request[companion.request].task)
    BY <1>6 DEF ReportFailure
  <2>5. /\ request' \in [Requests -> Rows]
        /\ \A q \in Requests : request'[q].status = "completed" => request'[q] = request[q]
    <3>1. CASE UNCHANGED request
      BY <1>1, <3>1 DEF Shapes
    <3>2. CASE SaveRequest(companion.request, "failed", request[companion.request].task)
      BY <1>1, <2>1, <2>3, <3>2, SavingRequest, Zenon
    <3> QED
      BY <2>4, <3>1, <3>2
  <2>6. Shapes'
    BY <1>1, <2>2, <2>5, <1>4, Zenon DEF Shapes, answers
  <2> QED
    BY <2>2, <2>5, <2>6, <1>2, RequestsMove DEF answers
<1> QED
  BY <1>3, <1>5, <1>6

-----------------------------------------------------------------------------
(* The connections                                                         *)

(* What an open stream tells the companion, it captures or lets pass.      *)
LEMMA Heard ==
  ASSUME Shapes, NEW r \in Requests \cup {None}, Hears(r)
  PROVE  /\ companion' \in [request : Requests \cup {None}, pc : {"idle", "capture", "sent"}]
         /\ companion'.pc # "idle" => companion'.request \in Requests
BY SMT DEF Shapes, Hears

(* A connection that runs goes on running.                                 *)
LEMMA StreamGoesOn ==
  ASSUME CapturesInv, NEW s \in Streams, Running(s), NEW k \in Connections,
         k.pc \in {"admitted", "looked", "open"}, Goes(s, k),
         UNCHANGED <<live, request, cancelling, published, lease, answers>>,
         companion' \in [request : Requests \cup {None}, pc : {"idle", "capture", "sent"}],
         companion'.pc # "idle" => companion'.request \in Requests
  PROVE  CapturesInv'
<1>1. Shapes /\ LeaseOfRunning
  BY DEF CapturesInv
<1>2. /\ stream' \in [Streams -> Connections]
      /\ stream'[s] = k /\ \A t \in Streams \ {s} : stream'[t] = stream[t]
  BY <1>1, OneStreamMoves
<1>3. Shapes'
  BY <1>1, <1>2, Zenon DEF Shapes, answers
<1>4. \A t \in Streams : Running(t)' <=> Running(t)
  BY <1>2, Zenon DEF Running
<1>5. LeaseOfRunning'
  BY <1>1, <1>4, SMT DEF LeaseOfRunning, Shapes
<1> QED
  BY <1>3, <1>5, RequestsMove DEF answers

\* The steps of a stream that waits for requests keep the invariant.
LEMMA StreamsGoOn ==
  ASSUME CapturesInv, NEW s \in Streams,
         LookForPending(s) \/ NoteCursor(s) \/ \E r \in Requests : PassOn(s, r)
  PROVE  CapturesInv'
<1>1. Shapes /\ stream[s] \in Connections /\ published \subseteq Requests
  BY DEF CapturesInv, Shapes
<1>2. UNCHANGED companion =>
        /\ companion' \in [request : Requests \cup {None}, pc : {"idle", "capture", "sent"}]
        /\ companion'.pc # "idle" => companion'.request \in Requests
  BY <1>1 DEF Shapes
<1>3. CASE LookForPending(s)
  <2>1. PICK r \in IF Requested = {} THEN {None} ELSE Requested :
          Goes(s, [stream[s] EXCEPT !.pc = "looked", !.pending = r])
    BY <1>3 DEF LookForPending
  <2>2. r \in Requests \cup {None}
    BY <2>1 DEF Requested
  <2> DEFINE k == [stream[s] EXCEPT !.pc = "looked", !.pending = r]
  <2>3. k \in Connections /\ k.pc \in {"admitted", "looked", "open"}
    BY <1>1, <2>2 DEF Connections
  <2>4. Running(s) /\ UNCHANGED <<live, request, cancelling, published, companion, lease, answers>>
    BY <1>3 DEF LookForPending, Running
  <2>5. Goes(s, k)
    BY <2>1
  <2> HIDE DEF k
  <2> QED
    BY <1>2, <2>3, <2>4, <2>5, StreamGoesOn
<1>4. CASE NoteCursor(s)
  <2> DEFINE k == [pc |-> "open", pending |-> None, passed |-> published]
  <2>1. k \in Connections /\ k.pc \in {"admitted", "looked", "open"}
    BY <1>1 DEF Connections
  <2>2. Running(s) /\ Goes(s, k) /\ UNCHANGED <<live, request, cancelling, published, lease, answers>>
    BY <1>4 DEF NoteCursor, Running
  <2>3. stream[s].pending \in Requests \cup {None} /\ Hears(stream[s].pending)
    BY <1>1, <1>4 DEF NoteCursor, Connections
  <2> HIDE DEF k
  <2> QED
    BY <1>1, <2>1, <2>2, <2>3, Heard, StreamGoesOn
<1>5. ASSUME NEW r \in Requests, PassOn(s, r)
      PROVE  CapturesInv'
  <2> DEFINE k == [stream[s] EXCEPT !.passed = @ \cup {r}]
  <2>1. k \in Connections /\ k.pc \in {"admitted", "looked", "open"}
    <3>1. stream[s].pc = "open"
      BY <1>5 DEF PassOn
    <3>2. stream[s].passed \cup {r} \in SUBSET Requests
      BY <1>1 DEF Connections
    <3> QED
      BY <1>1, <3>1, <3>2 DEF Connections
  <2>2. /\ Running(s) /\ Goes(s, k) /\ Hears(r)
        /\ UNCHANGED <<live, request, cancelling, published, lease, answers>>
    BY <1>5 DEF PassOn, Running
  <2> HIDE DEF k
  <2> QED
    BY <1>1, <2>1, <2>2, Heard, StreamGoesOn
<1> QED
  BY <1>3, <1>4, <1>5

(* A stream that ends, ends its lease; a stream that has ended gives up    *)
(* only a lease of its own, so that the next one keeps its admission.      *)
LEMMA LeaseSteps ==
  ASSUME CapturesInv, NEW s \in Streams, Acquire(s) \/ StreamEnds(s) \/ ReleaseAgain(s)
  PROVE  CapturesInv'
<1>1. Shapes /\ LeaseOfRunning
  BY DEF CapturesInv
<1>2. PICK k \in Connections :
        /\ Goes(s, k)
        /\ \/ k.pc = "admitted" /\ lease = None /\ lease' = s
           \/ k.pc \in {"none", "ended"} /\ Release(s)
        /\ UNCHANGED <<live, request, cancelling, published, companion, answers>>
  <2>1. \A pc \in {"none", "admitted", "ended"} :
          /\ [Offline EXCEPT !.pc = pc] \in Connections /\ [Offline EXCEPT !.pc = pc].pc = pc
    BY DEF Offline, Connections
  <2>2. Offline \in Connections /\ Offline.pc = "none"
    BY DEF Offline, Connections
  <2>3. CASE Acquire(s)
    BY <2>1, <2>3, Zenon DEF Acquire
  <2>4. CASE StreamEnds(s)
    BY <2>1, <2>4, Zenon DEF StreamEnds
  <2>5. CASE ReleaseAgain(s)
    BY <2>2, <2>5, Zenon DEF ReleaseAgain
  <2> QED
    BY <2>3, <2>4, <2>5
<1>3. /\ stream' \in [Streams -> Connections]
      /\ stream'[s] = k /\ \A t \in Streams \ {s} : stream'[t] = stream[t]
  BY <1>1, <1>2, OneStreamMoves
<1>4. lease' \in Streams \cup {None}
  BY <1>1, <1>2 DEF Shapes, Release
<1>5. Shapes'
  BY <1>1, <1>2, <1>3, <1>4, Zenon DEF Shapes, answers
<1>6. \A t \in Streams \ {s} : Running(t)' <=> Running(t)
  BY <1>3, Zenon DEF Running
<1>7. Running(s)' <=> k.pc = "admitted"
  BY <1>2, <1>3 DEF Running
<1>8. None \notin Streams
  BY ConstantsAssumption
<1>9. LeaseOfRunning'
  BY <1>1, <1>2, <1>4, <1>6, <1>7, <1>8, SMT DEF LeaseOfRunning, Release, Shapes
<1> QED
  BY <1>2, <1>5, <1>9, RequestsMove DEF answers

\* A restart of the service keeps the invariant.
LEMMA RestartStep ==
  ASSUME CapturesInv, Restart
  PROVE  CapturesInv'
<1>1. Shapes /\ UNCHANGED <<live, request, published, companion, picture, task, charge>>
  BY DEF CapturesInv, Restart
<1>2. cancelling' = {} /\ lease' = None /\ stream' = [s \in Streams |-> Offline]
  BY DEF Restart
<1>3. \A j \in Jobs : job[j] \in Calls /\ Placed(job[j])
  BY <1>1 DEF Shapes
<1>4. NoJob \in Calls /\ Placed(NoJob) /\ NoJob.pc = "none" /\ NoJob.kind = "none"
  BY DEF NoJob, Calls, Placed
<1>5. \A j \in Jobs :
        /\ job'[j] \in Calls /\ Placed(job'[j])
        /\ job'[j].kind = job[j].kind
        /\ job'[j].pc = (IF job[j] = NoJob THEN "none" ELSE "done")
  <2> TAKE j \in Jobs
  <2>1. job'[j] = IF job[j] = NoJob THEN NoJob ELSE [job[j] EXCEPT !.pc = "done"]
    BY DEF Restart
  <2>2. CASE job[j] = NoJob
    BY <2>1, <2>2, <1>4
  <2>3. CASE job[j] # NoJob
    <3> DEFINE k == [job[j] EXCEPT !.pc = "done"]
    <3>1. k \in Calls
      BY <1>3, Zenon DEF Calls
    <3>2. k.pc = "done" /\ k.kind = job[j].kind /\ k.request = job[j].request
      BY <1>3 DEF Calls
    <3>3. k.kind # "none" /\ k.pc # "none"
      BY <1>3, <2>3, <3>2 DEF Placed
    <3>4. k.kind = "capture" => k.request \in Requests
      BY <1>3, <3>2 DEF Placed
    <3>5. job'[j] = k
      BY <2>1, <2>3
    <3>6. k.pc \notin {"none", "claim", "raised", "report", "report failure"}
      BY <3>2
    <3> HIDE DEF k
    <3>7. Placed(k)
      BY <3>3, <3>4, <3>6, Zenon DEF Placed
    <3> QED
      BY <2>3, <3>1, <3>2, <3>5, <3>7
  <2> QED
    BY <2>2, <2>3
<1>6. job' \in [Jobs -> Calls]
  <2>1. job' = [j \in Jobs |-> job'[j]]
    BY DEF Restart
  <2> QED
    BY <2>1, <1>5, Zenon
<1>7. Offline \in Connections /\ Offline.pc = "none"
  BY DEF Offline, Connections
<1>8. Shapes'
  BY <1>1, <1>2, <1>5, <1>6, <1>7, Zenon DEF Shapes
<1>9. LeaseOfRunning'
  BY <1>2, <1>7 DEF LeaseOfRunning, Running
<1>10. AnswersStand'
  BY <1>5 DEF AnswersStand
<1>11. \A j \in Jobs : Answered(j) => Answered(j)' /\ UsageOf(j)' = UsageOf(j)
  <2>1. \A j \in Jobs : Answered(j) => job[j] # NoJob
    BY <1>4 DEF Answered
  <2> QED
    BY <1>1, <1>5, <2>1 DEF Answered, UsageOf
<1>12. \A j \in Jobs : Over(j) => Over(j)'
  BY <1>1, <1>4, <1>5 DEF Over
<1> QED
  BY <1>1, <1>8, <1>9, <1>10, <1>11, <1>12, AnswersStay

-----------------------------------------------------------------------------
(* The jobs                                                                *)

(* A job begins, of which no answer is known yet.                          *)
LEMMA JobBegins ==
  ASSUME CapturesInv, NEW j \in Jobs, Upload(j) \/ AskAboutPicture(j)
  PROVE  CapturesInv'
<1>1. Shapes /\ LeaseOfRunning /\ AnswersStand
  BY DEF CapturesInv
<1>2. job[j] = NoJob /\ UNCHANGED <<live, cancelling, published, lease, stream, picture, task, charge>>
  BY DEF Upload, AskAboutPicture, delivery
<1>3. PICK k \in Calls : JobGoes(j, k) /\ Placed(k) /\ k.pc \in {"claim", "take"}
  <2>1. CASE Upload(j)
    <3> DEFINE k == [kind |-> "capture", pc |-> "claim", request |-> companion.request]
    <3>1. companion.request \in Requests
      BY <1>1, <2>1, SMT DEF Upload, Shapes
    <3>2. k \in Calls /\ Placed(k) /\ k.pc = "claim" /\ JobGoes(j, k)
      BY <2>1, <3>1 DEF Upload, Calls, Placed
    <3> QED
      BY <3>2, Zenon
  <2>2. CASE AskAboutPicture(j)
    <3> DEFINE k == [NoJob EXCEPT !.kind = "page", !.pc = "take"]
    <3>1. k \in Calls /\ Placed(k) /\ k.pc = "take"
      BY DEF NoJob, Calls, Placed
    <3>2. JobGoes(j, k)
      BY <2>2 DEF AskAboutPicture
    <3> QED
      BY <3>1, <3>2, Zenon
  <2> QED
    BY <2>1, <2>2
<1>4. /\ job' \in [Jobs -> Calls] /\ \A i \in Jobs : Placed(job'[i])
      /\ job'[j] = k /\ \A i \in Jobs \ {j} : job'[i] = job[i]
  BY <1>1, <1>3, OneJobMoves
<1>5. /\ request' \in [Requests -> Rows]
      /\ companion' \in [request : Requests \cup {None}, pc : {"idle", "capture", "sent"}]
      /\ companion'.pc # "idle" => companion'.request \in Requests
      /\ \A r \in Requests : request'[r].status = "completed" => request'[r] = request[r]
  <2>1. CASE AskAboutPicture(j)
    BY <1>1, <2>1 DEF AskAboutPicture, Shapes, delivery
  <2>2. CASE Upload(j)
    <3>1. companion.request \in Requests /\ companion' = [companion EXCEPT !.pc = "sent"]
      BY <1>1, <2>2, SMT DEF Upload, Shapes
    <3>2. /\ companion' \in [request : Requests \cup {None}, pc : {"idle", "capture", "sent"}]
          /\ companion'.request \in Requests
      BY <1>1, <3>1 DEF Shapes
    <3>3. Claimed(companion.request)
      BY <2>2 DEF Upload
    <3>4. /\ request' \in [Requests -> Rows]
          /\ \A r \in Requests : request'[r].status = "completed" => request'[r] = request[r]
      BY <1>1, <3>1, <3>3, ClaimedRequests
    <3> QED
      BY <3>2, <3>4
  <2> QED
    BY <2>1, <2>2
<1>6. Shapes'
  BY <1>1, <1>2, <1>4, <1>5, Zenon DEF Shapes
<1>7. LeaseOfRunning'
  BY <1>1, <1>2 DEF LeaseOfRunning, Running
<1>8. AnswersStand'
  BY <1>1, <1>2, <1>3, <1>4, SMT DEF AnswersStand
<1>9. ~Answered(j) /\ ~Over(j)
  BY <1>2 DEF Answered, Over, NoJob
<1>10. \A i \in Jobs : Answered(i) => Answered(i)' /\ UsageOf(i)' = UsageOf(i)
  BY <1>2, <1>4, <1>9, Zenon DEF Answered, UsageOf
<1>11. \A i \in Jobs : Over(i) => Over(i)'
  BY <1>2, <1>4, <1>9, Zenon DEF Over
<1> QED
  BY <1>2, <1>5, <1>6, <1>7, <1>8, <1>10, <1>11, AnswersStay

(* The steps of a job before the model has answered, and those that fail   *)
LEMMA JobPrepares ==
  ASSUME CapturesInv, NEW j \in Jobs, JobClaims(j) \/ TakePicture(j) \/ BreaksOff(j) \/ ReportRaised(j)
  PROVE  CapturesInv'
<1>1. Shapes /\ AnswersStand
  BY DEF CapturesInv
<1>2. job[j] \in Calls /\ Placed(job[j])
  BY <1>1 DEF Shapes
<1>3. job[j].pc \notin {"none", "done"} /\ job[j].kind # "none"
  BY <1>2 DEF JobClaims, TakePicture, BreaksOff, ReportRaised, At, Placed
<1>4. UNCHANGED <<live, cancelling, delivery, picture, task, charge>>
  BY DEF JobClaims, TakePicture, BreaksOff, ReportRaised
<1>5. /\ request' \in [Requests -> Rows]
      /\ \A r \in Requests : request'[r].status = "completed" => request'[r] = request[r]
  <2>1. CASE UNCHANGED request
    BY <1>1, <2>1 DEF Shapes
  <2>2. CASE JobClaims(j) /\ Claimed(job[j].request)
    <3>1. job[j].request \in Requests
      BY <1>2, <2>2 DEF JobClaims, At, Placed
    <3> QED
      BY <1>1, <2>2, <3>1, ClaimedRequests
  <2>3. CASE ReportRaised(j) /\ SaveRequest(job[j].request, "failed", request[job[j].request].task)
    <3>1. job[j].request \in Requests
      BY <1>2, <2>3 DEF ReportRaised, At, Placed
    <3>2. "failed" \in Statuses /\ request[job[j].request].task \in Jobs \cup {None}
      BY <1>1, <3>1, SMT DEF Shapes, Rows, Statuses, Ended
    <3> QED
      BY <1>1, <2>3, <3>1, <3>2, SavingRequest, Zenon
  <2> QED
    BY <2>1, <2>2, <2>3 DEF JobClaims, TakePicture, BreaksOff, ReportRaised
<1>6. \E p \in Later \ {"completed", "settle", "report"} :
        /\ JobGoes(j, [job[j] EXCEPT !.pc = p])
        /\ p \in {"raised", "report", "report failure"} => job[j].kind = "capture"
        /\ job[j].pc \in {"completed", "settle", "report", "raised", "done"} => p \in {"raised", "done"}
  <2>2. {"raised", "done", "take", "reserve"} \subseteq Later \ {"completed", "settle", "report"}
    BY DEF Later
  <2>1. ASSUME Raises(j)
        PROVE  \E p \in Later \ {"completed", "settle", "report"} :
                 /\ JobGoes(j, [job[j] EXCEPT !.pc = p])
                 /\ p \in {"raised", "report", "report failure"} => job[j].kind = "capture"
                 /\ p \in {"raised", "done"}
    <3>1. job[j].kind \in {"page", "capture"}
      BY <1>2, <1>3 DEF Calls
    <3>2. CASE job[j].kind = "page"
      BY <2>1, <2>2, <3>2 DEF Raises
    <3>3. CASE job[j].kind = "capture"
      BY <2>1, <2>2, <3>3 DEF Raises
    <3> QED
      BY <3>1, <3>2, <3>3
  <2>3. CASE JobClaims(j)
    <3>1. job[j].kind = "capture" /\ job[j].pc = "claim"
      BY <1>2, <2>3 DEF JobClaims, At, Placed
    <3>2. \E p \in {"take", "raised", "done"} : JobGoes(j, [job[j] EXCEPT !.pc = p])
      BY <2>3 DEF JobClaims
    <3> QED
      BY <2>2, <3>1, <3>2
  <2>4. CASE TakePicture(j)
    <3>1. job[j].pc = "take"
      BY <2>4 DEF TakePicture, At
    <3>2. CASE JobGoes(j, [job[j] EXCEPT !.pc = "reserve"])
      BY <2>2, <3>1, <3>2
    <3>3. CASE Raises(j)
      BY <2>1, <3>3
    <3> QED
      BY <2>4, <3>2, <3>3 DEF TakePicture
  <2>5. CASE BreaksOff(j)
    <3>1. Raises(j)
      BY <2>5 DEF BreaksOff
    <3> QED
      BY <2>1, <3>1
  <2>6. CASE ReportRaised(j)
    BY <2>2, <2>6 DEF ReportRaised
  <2> QED
    BY <2>3, <2>4, <2>5, <2>6
<1>7. PICK p \in Later \ {"completed", "settle", "report"} :
        /\ JobGoes(j, [job[j] EXCEPT !.pc = p])
        /\ p \in {"raised", "report", "report failure"} => job[j].kind = "capture"
        /\ job[j].pc \in {"completed", "settle", "report", "raised", "done"} => p \in {"raised", "done"}
  BY <1>6
<1>8. p \in Later /\ p \notin {"completed", "settle", "report"}
  BY <1>7
<1>9. TaskGoesOn(j, p)
  BY <1>1, <1>3, <1>7, <1>8, JobGoesOn
<1>10. Answered(j) => task'[j] \in Delivered /\ p \in Given
  BY <1>4, <1>7 DEF Answered, Given
<1>11. /\ picture' \in {"uploaded", "deleted"} /\ task' \in [Jobs -> {"none", "working"} \cup Ended]
       /\ charge' \in [Usages -> U!States] /\ \A i \in Jobs \ {j} : task'[i] = task[i]
       /\ UNCHANGED <<live, cancelling, published, companion, lease, stream>>
  BY <1>1, <1>4 DEF Shapes, delivery
<1>12. \A u \in Usages : charge'[u] = "charged" =>
         charge[u] = "charged" \/ (u = UsageOf(j) /\ task'[j] \in Delivered /\ p \in Given)
  <2>1. charge' = charge
    BY <1>4
  <2> QED
    BY <2>1, Zenon
<1>13. \A r \in Requests : request'[r].status = "completed" =>
         request'[r] = request[r] \/ (request'[r].task = j /\ task'[j] \in Delivered /\ p = "done")
  BY <1>5, Zenon
<1>14. p \in {"completed", "settle", "report"} => task'[j] \in Delivered
  BY <1>8
<1> QED
  BY <1>3, <1>5, <1>8, <1>9, <1>10, <1>11, <1>12, <1>13, <1>14, JobStep, SMT

(* The steps that reserve, answer, charge and report                       *)
LEMMA JobAnswers ==
  ASSUME CapturesInv, NEW j \in Jobs,
         ReserveAndQueue(j) \/ VisionEnds(j) \/ AppendAnswer(j) \/ SettleOrRelease(j) \/ ReportAnswer(j)
  PROVE  CapturesInv'
<1>1. Shapes /\ AnswersStand /\ UsageOf(j) \in Usages
  BY UsagesOfJobs DEF CapturesInv
<1>2. job[j] \in Calls /\ Placed(job[j])
  BY <1>1 DEF Shapes
<1>3. job[j].pc \in {"reserve", "vision", "completed", "settle", "failed", "report", "report failure"}
  BY DEF ReserveAndQueue, VisionEnds, AppendAnswer, SettleOrRelease, ReportAnswer, At
<1>4. job[j].kind \in {"page", "capture"} /\ (job[j].kind # "page" => job[j].kind = "capture")
  BY <1>2, <1>3 DEF Calls, Placed
<1>5. UNCHANGED <<live, cancelling, published, companion, lease, stream>>
  BY DEF ReserveAndQueue, VisionEnds, AppendAnswer, SettleOrRelease, ReportAnswer, delivery
<1>6. Later \subseteq {"take", "reserve", "vision", "completed", "failed", "settle", "report",
                       "report failure", "raised", "done"}
      /\ {"vision", "completed", "failed", "settle", "report", "report failure", "raised", "done"}
           \subseteq Later
  BY DEF Later
<1>7. ASSUME Raises(j)
      PROVE  \E p \in {"raised", "done"} :
               p \in Later /\ JobGoes(j, [job[j] EXCEPT !.pc = p])
               /\ (p \in {"raised", "report", "report failure"} => job[j].kind = "capture")
  <2>1. CASE job[j].kind = "page"
    BY <1>6, <1>7, <2>1 DEF Raises
  <2>2. CASE job[j].kind = "capture"
    BY <1>6, <1>7, <2>2 DEF Raises
  <2> QED
    BY <1>4, <2>1, <2>2
<1>8. ASSUME UNCHANGED request
      PROVE  /\ request' \in [Requests -> Rows]
             /\ \A p \in Later, r \in Requests : request'[r].status = "completed" =>
                  request'[r] = request[r] \/ (request'[r].task = j /\ task'[j] \in Delivered /\ p = "done")
  BY <1>1, <1>8 DEF Shapes
<1>9. ASSUME UNCHANGED task
      PROVE  /\ task' \in [Jobs -> {"none", "working"} \cup Ended]
             /\ \A i \in Jobs \ {j} : task'[i] = task[i]
  BY <1>1, <1>9 DEF Shapes
<1>10. ASSUME charge' \in [Usages -> U!States],
              \A u \in Usages : charge'[u] = "charged" => charge[u] = "charged"
       PROVE  \A p \in Later, u \in Usages : charge'[u] = "charged" =>
                charge[u] = "charged" \/ (u = UsageOf(j) /\ task'[j] \in Delivered /\ p \in Given)
  BY <1>10
<1>11. UNCHANGED charge => /\ charge' \in [Usages -> U!States]
                           /\ \A u \in Usages : charge'[u] = "charged" => charge[u] = "charged"
  BY <1>1 DEF Shapes
<1>12. UNCHANGED picture => picture' \in {"uploaded", "deleted"}
  BY <1>1 DEF Shapes

<1>r. CASE ReserveAndQueue(j)
  <2>1. job[j].pc = "reserve" /\ UNCHANGED request /\ picture' \in {"uploaded", "deleted"}
    BY <1>r, <1>1 DEF ReserveAndQueue, At, Shapes
  <2>2. ~Answered(j)
    BY <2>1 DEF Answered
  <2>3. charge' \in [Usages -> U!States] /\ \A u \in Usages : charge'[u] = "charged" => charge[u] = "charged"
    <3>1. UNCHANGED charge \/ U!Hold(UsageOf(j))
      BY <1>r DEF ReserveAndQueue
    <3> QED
      BY <1>1, <1>11, <3>1, ChargeMoves, Zenon
  <2>4. PICK p \in {"vision", "raised", "done"} :
          /\ p \in Later /\ JobGoes(j, [job[j] EXCEPT !.pc = p])
          /\ p \in {"raised", "report", "report failure"} => job[j].kind = "capture"
    <3>1. CASE JobGoes(j, [job[j] EXCEPT !.pc = "vision"])
      BY <1>6, <3>1
    <3>2. CASE Raises(j)
      BY <1>7, <3>2
    <3> QED
      BY <1>r, <3>1, <3>2 DEF ReserveAndQueue
  <2>5. /\ task' \in [Jobs -> {"none", "working"} \cup Ended]
        /\ \A i \in Jobs \ {j} : task'[i] = task[i]
    <3>1. UNCHANGED task \/ task' = [task EXCEPT ![j] = "working"]
      BY <1>r DEF ReserveAndQueue
    <3> QED
      BY <1>1, <3>1 DEF Shapes
  <2>6. TaskGoesOn(j, p) /\ p \notin {"completed", "settle", "report"}
    BY <1>1, <1>4, <2>4, JobGoesOn
  <2> QED
    BY <1>3, <1>5, <1>8, <1>10, <2>1, <2>2, <2>3, <2>4, <2>5, <2>6, JobStep

<1>v. CASE VisionEnds(j)
  <2>1. job[j].pc = "vision" /\ UNCHANGED request /\ UNCHANGED charge /\ UNCHANGED picture
    BY <1>v DEF VisionEnds, At
  <2>2. ~Answered(j)
    BY <2>1 DEF Answered
  <2>3. PICK p \in {"completed", "failed"} : SaveTask(j, p) /\ JobGoes(j, [job[j] EXCEPT !.pc = p])
    BY <1>v DEF VisionEnds
  <2>4. p \in Ended /\ p \in Later
    BY <1>6 DEF Ended
  <2>5. /\ task' \in [Jobs -> {"none", "working"} \cup Ended]
        /\ \A i \in Jobs \ {j} : task'[i] = task[i]
        /\ task'[j] = p
    BY <1>1, <2>3, <2>4, SavingTask
  <2>6. TaskGoesOn(j, p) /\ p \notin {"settle", "report"} /\ (p = "completed" => task'[j] \in Delivered)
    BY <1>1, <1>4, <2>3, <2>4, <2>5, JobGoesOn DEF Delivered
  <2> QED
    BY <1>3, <1>5, <1>8, <1>10, <1>11, <1>12, <2>1, <2>2, <2>4, <2>5, <2>6, JobStep

<1>a. CASE AppendAnswer(j)
  <2>1. job[j].pc = "completed" /\ UNCHANGED request /\ UNCHANGED charge /\ UNCHANGED picture
    BY <1>a DEF AppendAnswer, At
  <2>2. task[j] \in Delivered
    BY <1>1, <2>1 DEF AnswersStand
  <2>3. PICK p \in {"settle", "raised", "done"} :
          /\ p \in Later /\ JobGoes(j, [job[j] EXCEPT !.pc = p])
          /\ p \in {"raised", "report", "report failure"} => job[j].kind = "capture"
    <3>1. CASE JobGoes(j, [job[j] EXCEPT !.pc = "settle"])
      BY <1>6, <3>1
    <3>2. CASE Raises(j)
      BY <1>7, <3>2
    <3> QED
      BY <1>a, <3>1, <3>2 DEF AppendAnswer
  <2>4. /\ task' \in [Jobs -> {"none", "working"} \cup Ended]
        /\ \A i \in Jobs \ {j} : task'[i] = task[i]
        /\ task'[j] \in Delivered
    <3>1. CASE UNCHANGED task
      BY <1>9, <2>2, <3>1
    <3>2. CASE SaveTask(j, "completed")
      BY <1>1, <3>2, SavingTask DEF Ended, Delivered
    <3> QED
      BY <1>a, <3>1, <3>2 DEF AppendAnswer
  <2>5. TaskGoesOn(j, p) /\ p \in Given
    BY <1>1, <1>4, <2>3, JobGoesOn DEF Given
  <2> QED
    BY <1>3, <1>5, <1>8, <1>10, <1>11, <1>12, <2>1, <2>3, <2>4, <2>5, JobStep

<1>s. CASE SettleOrRelease(j)
  <2>1. /\ job[j].pc \in {"settle", "failed"}
        /\ UNCHANGED request /\ UNCHANGED task /\ UNCHANGED picture
    BY <1>s DEF SettleOrRelease
  <2>2. PICK p \in {"report", "report failure", "done"} :
          /\ p \in Later /\ JobGoes(j, [job[j] EXCEPT !.pc = p])
          /\ p \in {"raised", "report", "report failure"} => job[j].kind = "capture"
          /\ p = "report" => job[j].pc = "settle"
          /\ job[j].pc = "settle" => p \in {"report", "done"}
    <3>1. CASE job[j].kind = "page"
      <4>1. JobGoes(j, [job[j] EXCEPT !.pc = "done"])
        BY <1>s, <3>1 DEF SettleOrRelease
      <4> QED
        BY <1>6, <4>1
    <3>2. CASE job[j].kind = "capture" /\ job[j].pc = "settle"
      <4>1. JobGoes(j, [job[j] EXCEPT !.pc = "report"])
        BY <1>s, <3>2 DEF SettleOrRelease
      <4> QED
        BY <1>6, <3>2, <4>1
    <3>3. CASE job[j].kind = "capture" /\ job[j].pc = "failed"
      <4>1. JobGoes(j, [job[j] EXCEPT !.pc = "report failure"])
        BY <1>s, <3>3 DEF SettleOrRelease
      <4> QED
        BY <1>6, <3>3, <4>1
    <3> QED
      BY <1>4, <2>1, <3>1, <3>2, <3>3
  <2>3. TaskGoesOn(j, p)
    BY <1>1, <1>4, <2>2, JobGoesOn
  <2>4. job[j].pc = "settle" => task'[j] \in Delivered /\ p \in Given
    BY <1>1, <2>1, <2>2 DEF AnswersStand, Given
  <2>5. Answered(j) => task'[j] \in Delivered /\ p \in Given
    BY <2>1, <2>4 DEF Answered
  <2>6. /\ charge' \in [Usages -> U!States]
        /\ \A u \in Usages : charge'[u] = "charged" =>
             charge[u] = "charged" \/ (u = UsageOf(j) /\ task'[j] \in Delivered /\ p \in Given)
    <3>1. CASE UNCHANGED charge
      BY <1>10, <1>11, <2>2, <3>1
    <3>2. CASE U!Waive({UsageOf(j)})
      <4>1. {UsageOf(j)} \in SUBSET Usages
        BY <1>1
      <4>2. /\ charge' \in [Usages -> U!States]
            /\ \A u \in Usages : charge'[u] = "charged" => charge[u] = "charged"
        BY <1>1, <3>2, <4>1, ChargeMoves, Zenon
      <4> QED
        BY <1>10, <2>2, <4>2
    <3>3. CASE job[j].pc = "settle" /\ U!Charge(UsageOf(j))
      BY <1>1, <2>4, <3>3, ChargeMoves, Zenon
    <3> QED
      BY <1>s, <3>1, <3>2, <3>3 DEF SettleOrRelease, At
  <2>7. p \in {"completed", "settle", "report"} => task'[j] \in Delivered
    BY <2>2, <2>4
  <2> QED
    BY <1>3, <1>5, <1>8, <1>9, <1>12, <2>1, <2>2, <2>3, <2>5, <2>6, <2>7, JobStep

<1>o. CASE ReportAnswer(j)
  <2> DEFINE to == IF At(j, "report") THEN "completed" ELSE "failed"
  <2>1. /\ job[j].pc \in {"report", "report failure"} /\ UNCHANGED charge /\ UNCHANGED picture
        /\ SaveTask(j, to) /\ SaveRequest(job[j].request, to, j)
        /\ JobGoes(j, [job[j] EXCEPT !.pc = "done"])
    BY <1>o DEF ReportAnswer
  <2>2. to \in Ended /\ to \in Statuses /\ (to = "completed" <=> job[j].pc = "report")
    BY <2>1 DEF At, Ended, Statuses
  <2> HIDE DEF to
  <2>3. /\ task' \in [Jobs -> {"none", "working"} \cup Ended]
        /\ \A i \in Jobs \ {j} : task'[i] = task[i]
        /\ task'[j] = to
    BY <1>1, <2>1, <2>2, SavingTask
  <2>4. job[j].request \in Requests
    BY <1>2, <2>1 DEF Placed
  <2>5. "done" \in Later /\ "done" \in Given
    BY DEF Later, Given
  <2>6. TaskGoesOn(j, "done")
    BY <1>1, <1>4, <2>1, <2>5, JobGoesOn
  <2>7. to = "completed" => task'[j] \in Delivered
    BY <2>3 DEF Delivered
  <2>8. /\ request' \in [Requests -> Rows]
        /\ \A r \in Requests : request'[r].status = "completed" =>
             request'[r] = request[r] \/ (request'[r].task = j /\ task'[j] \in Delivered /\ "done" = "done")
    <3>1. j \in Jobs \cup {None} /\ SaveRequest(job[j].request, to, j)
      BY <2>1
    <3>2. /\ request' \in [Requests -> Rows]
          /\ \A q \in Requests :
               \/ request'[q] = request[q]
               \/ q = job[j].request /\ request'[q].status = to /\ request'[q].task = j
      BY <1>1, <2>2, <2>4, <3>1, SavingRequest
    <3> QED
      BY <2>7, <3>2
  <2>9. Answered(j) => task'[j] \in Delivered /\ "done" \in Given
    BY <2>1, <2>2, <2>5, <2>7 DEF Answered
  <2>10. \A u \in Usages : charge'[u] = "charged" =>
           charge[u] = "charged" \/ (u = UsageOf(j) /\ task'[j] \in Delivered /\ "done" \in Given)
    BY <1>10, <1>11, <2>1, <2>5
  <2> QED
    BY <1>3, <1>5, <1>11, <1>12, <2>1, <2>3, <2>5, <2>6, <2>8, <2>9, <2>10, JobStep
<1> QED
  BY <1>r, <1>v, <1>a, <1>s, <1>o
-----------------------------------------------------------------------------
(* The tasks, and what is released behind the jobs                         *)

\* A task that is deleted or lapses keeps the invariant.
LEMMA TaskSteps ==
  ASSUME CapturesInv, NEW j \in Jobs, DeleteTask(j) \/ TaskLapses(j)
  PROVE  CapturesInv'
<1>1. Shapes /\ LeaseOfRunning /\ AnswersStand /\ UsageOf(j) \in Usages
  BY UsagesOfJobs DEF CapturesInv
<1>2. UNCHANGED <<live, request, cancelling, published, companion, lease, stream, picture, job>>
  BY DEF DeleteTask, TaskLapses, delivery
<1>3. PICK to \in Ended :
        SaveTask(j, to) /\ (to # "cancelled" => task[j] = "working")
  BY DEF DeleteTask, TaskLapses, Ended
<1>4. /\ task' \in [Jobs -> {"none", "working"} \cup Ended]
      /\ \A i \in Jobs \ {j} : task'[i] = task[i]
      /\ task'[j] = to
  BY <1>1, <1>3, SavingTask
<1>5. task[j] \in Delivered => task'[j] \in Delivered
  BY <1>3, <1>4 DEF Delivered
<1>6. charge' \in [Usages -> U!States] /\ \A u \in Usages : charge'[u] = "charged" => charge[u] = "charged"
  <2>1. {UsageOf(j)} \in SUBSET Usages
    BY <1>1
  <2>2. UNCHANGED charge \/ U!Waive({UsageOf(j)})
    BY DEF DeleteTask, TaskLapses
  <2>3. CASE UNCHANGED charge
    BY <1>1, <2>3 DEF Shapes
  <2> QED
    BY <1>1, <2>1, <2>2, <2>3, ChargeMoves, Zenon
<1>7. Shapes'
  BY <1>1, <1>2, <1>4, <1>6, Zenon DEF Shapes
<1>8. LeaseOfRunning'
  BY <1>1, <1>2 DEF LeaseOfRunning, Running
<1>9. \A i \in Jobs : task[i] \in Delivered => task'[i] \in Delivered
  BY <1>4, <1>5, Zenon
<1>10. AnswersStand'
  BY <1>1, <1>2, <1>9 DEF AnswersStand
<1>11. \A i \in Jobs : Answered(i) => Answered(i)' /\ UsageOf(i)' = UsageOf(i)
  BY <1>2, <1>9 DEF Answered, UsageOf
<1>12. \A i \in Jobs : Over(i) => Over(i)'
  BY <1>2, <1>9 DEF Over
<1> QED
  BY <1>2, <1>6, <1>7, <1>8, <1>10, <1>11, <1>12, AnswersStay

\* Releasing a stale reservation keeps the invariant.
LEMMA ReleaseStaleStep ==
  ASSUME CapturesInv, ReleaseStale
  PROVE  CapturesInv'
<1>1. Shapes /\ LeaseOfRunning /\ AnswersStand
  BY DEF CapturesInv
<1>2. UNCHANGED <<live, request, cancelling, published, companion, lease, stream, picture, task, job>>
  BY DEF ReleaseStale, delivery
<1>3. charge' \in [Usages -> U!States] /\ \A u \in Usages : charge'[u] = "charged" => charge[u] = "charged"
  <2>1. PICK S \in SUBSET Usages : U!Waive(S)
    BY DEF ReleaseStale
  <2>2. "picture" \in Usages
    BY DEF Usages
  <2> QED
    BY <1>1, <2>1, <2>2, ChargeMoves, Zenon
<1>4. Shapes'
  BY <1>1, <1>2, <1>3, Zenon DEF Shapes
<1>5. LeaseOfRunning' /\ AnswersStand'
  BY <1>1, <1>2 DEF LeaseOfRunning, Running, AnswersStand
<1>6. \A j \in Jobs : Answered(j) => Answered(j)' /\ UsageOf(j)' = UsageOf(j)
  BY <1>2 DEF Answered, UsageOf
<1>7. \A j \in Jobs : Over(j) => Over(j)'
  BY <1>2 DEF Over
<1> QED
  BY <1>2, <1>3, <1>4, <1>5, <1>6, <1>7, AnswersStay

-----------------------------------------------------------------------------
\* The invariant of captures and answers holds at the start.
LEMMA InitCaptures == Init => CapturesInv
<1> SUFFICES ASSUME Init PROVE CapturesInv
  OBVIOUS
<1>1. /\ \A r \in Requests : request[r].status = "none"
      /\ request \in [Requests -> Rows]
  BY DEF Init, Rows, Statuses
<1>2. /\ Nothing \in [request : Requests \cup {None}, pc : {"idle", "capture", "sent"}]
      /\ Nothing.pc = "idle"
  BY DEF Nothing
<1>3. Offline \in Connections /\ Offline.pc = "none"
  BY DEF Offline, Connections
<1>4. NoJob \in Calls /\ Placed(NoJob) /\ NoJob.pc = "none"
  BY DEF NoJob, Calls, Placed
<1>5. charge \in [Usages -> U!States] /\ \A u \in Usages : charge[u] = "open"
  BY DEF Init, U!States
<1>6. /\ job \in [Jobs -> Calls] /\ \A j \in Jobs : Placed(job[j])
      /\ \A j \in Jobs : job[j].pc = "none"
  BY <1>4 DEF Init
<1>7. stream \in [Streams -> Connections] /\ \A s \in Streams : stream[s].pc = "none"
  BY <1>3 DEF Init
<1>8. Shapes
  <2>1. task \in [Jobs -> {"none", "working"} \cup Ended]
    BY DEF Init
  <2> QED
    BY <1>1, <1>2, <1>5, <1>6, <1>7, <2>1 DEF Init, Shapes
<1> QED
  BY <1>1, <1>5, <1>6, <1>7, <1>8
     DEF Init, CapturesInv, LeaseOfRunning, Running, AnswersStand, ChargesAnswered, CompletedIsOver

\* Every step keeps it.
LEMMA NextCaptures == CapturesInv /\ [Next]_vars => CapturesInv'
<1> SUFFICES ASSUME CapturesInv, [Next]_vars PROVE CapturesInv'
  OBVIOUS
<1>1. CASE UNCHANGED vars
  BY <1>1 DEF vars, CapturesInv, Shapes, LeaseOfRunning, Running, AnswersStand,
              ChargesAnswered, CompletedIsOver, Answered, UsageOf
<1>2. CASE EndSession \/ CaptureDone \/ ReportFailure
  BY <1>2, CompanionSteps
<1>3. CASE ReleaseStale
  BY <1>3, ReleaseStaleStep
<1>4. CASE Restart
  BY <1>4, RestartStep
<1>5. ASSUME NEW r \in Requests,
             CreateRequest(r) \/ PublishRequest(r) \/ Shortcut(r) \/ CancelReads(r) \/ CancelSaves(r) \/ Poll(r)
      PROVE  CapturesInv'
  BY <1>5, RequestSteps
<1>6. ASSUME NEW s \in Streams,
             Acquire(s) \/ LookForPending(s) \/ NoteCursor(s) \/ StreamEnds(s) \/ ReleaseAgain(s)
               \/ \E r \in Requests : PassOn(s, r)
      PROVE  CapturesInv'
  BY <1>6, StreamsGoOn, LeaseSteps
<1>7. ASSUME NEW j \in Jobs,
             \/ Upload(j) \/ AskAboutPicture(j) \/ JobClaims(j) \/ TakePicture(j)
             \/ ReserveAndQueue(j) \/ VisionEnds(j) \/ AppendAnswer(j) \/ SettleOrRelease(j)
             \/ BreaksOff(j) \/ ReportAnswer(j) \/ ReportRaised(j) \/ DeleteTask(j) \/ TaskLapses(j)
      PROVE  CapturesInv'
  BY <1>7, JobBegins, JobPrepares, JobAnswers, TaskSteps
<1> QED
  BY <1>1, <1>2, <1>3, <1>4, <1>5, <1>6, <1>7, Zenon DEF Next

(* Every behaviour keeps the invariant.                                    *)
THEOREM CapturesHold == Spec => []CapturesInv
BY InitCaptures, NextCaptures, PTL DEF Spec

(* The types of the tables, of what the companion does and of the lease    *)
(* (repository and route of screenshot answers).                           *)
THEOREM TypeCorrect == Spec => []TypeOK
<1>1. CapturesInv => TypeOK
  BY DEF CapturesInv, Shapes, LeaseOfRunning, Running, TypeOK, Rows, Statuses
<1> QED
  BY <1>1, CapturesHold, PTL

(* Of any number of connections that come and go and give up their lease   *)
(* twice, one at most is admitted (try_acquire_live_stream).               *)
THEOREM OneStreamAdmitted == Spec => []OneStream
<1>1. CapturesInv => OneStream
  BY DEF CapturesInv, LeaseOfRunning, Running, OneStream
<1> QED
  BY <1>1, CapturesHold, PTL

(* No answer of a screenshot is charged that the model did not give, with  *)
(* any number of pages that share a reservation (answer_screenshots).      *)
THEOREM ChargesAreForAnswers == Spec => []ChargedWasAnswered
<1>1. CapturesInv => ChargedWasAnswered
  BY DEF CapturesInv, ChargesAnswered, Answered, Delivered, ChargedWasAnswered
<1> QED
  BY <1>1, CapturesHold, PTL

(* A capture shown as completed names an answer that was completed         *)
(* (complete_remote_capture_request).                                      *)
THEOREM CompletedHaveAnswers == Spec => []CompletedHasAnswer
<1>1. CapturesInv => CompletedHasAnswer
  BY ConstantsAssumption DEF CapturesInv, CompletedIsOver, Delivered, CompletedHasAnswer
<1> QED
  BY <1>1, CapturesHold, PTL

EndsStay == \A q \in Requests : request[q].status \in Ended => request'[q].status \in Ended

(* Whatever is saved, a request that has ended is kept or ends again.      *)
LEMMA SavingKeepsEnds ==
  ASSUME Shapes, NEW r, NEW to, NEW t, SaveRequest(r, to, t)
  PROVE  EndsStay
BY SMT DEF Shapes, SaveRequest, EndsStay

(* A request that was cancelled, has failed or was completed is not taken  *)
(* up again by a job, a cancellation or a report that comes late           *)
(* (save_remote_capture_request).                                          *)
THEOREM RequestsStayEnded == Spec => RequestStaysEnded
<1>1. ASSUME CapturesInv, [Next]_vars
      PROVE  EndsStay
  <2>1. Shapes
    BY <1>1 DEF CapturesInv
  <2>2. UNCHANGED request => EndsStay
    BY DEF EndsStay
  <2>3. \A r : Claimed(r) => EndsStay
    BY <2>1, <2>2, SavingKeepsEnds DEF Claimed
  <2>4. CASE UNCHANGED vars
    BY <2>2, <2>4 DEF vars
  <2>5. CASE EndSession \/ CaptureDone \/ ReportFailure \/ ReleaseStale \/ Restart
    <3>1. CASE ReportFailure
      BY <2>1, <2>2, <3>1, SavingKeepsEnds DEF ReportFailure
    <3> QED
      BY <2>2, <2>5, <3>1 DEF EndSession, CaptureDone, ReleaseStale, Restart
  <2>6. ASSUME NEW r \in Requests,
               CreateRequest(r) \/ PublishRequest(r) \/ Shortcut(r) \/ CancelReads(r) \/ CancelSaves(r) \/ Poll(r)
        PROVE  EndsStay
    BY <2>1, <2>2, <2>6, SavingKeepsEnds
       DEF CreateRequest, PublishRequest, Shortcut, CancelReads, CancelSaves, Poll
  <2>7. ASSUME NEW s \in Streams,
               Acquire(s) \/ LookForPending(s) \/ NoteCursor(s) \/ StreamEnds(s) \/ ReleaseAgain(s)
                 \/ \E r \in Requests : PassOn(s, r)
        PROVE  EndsStay
    BY <2>2, <2>7 DEF Acquire, LookForPending, NoteCursor, StreamEnds, ReleaseAgain, PassOn
  <2>8. ASSUME NEW j \in Jobs, Upload(j) \/ JobClaims(j)
        PROVE  EndsStay
    BY <2>2, <2>3, <2>8 DEF Upload, JobClaims
  <2>9. ASSUME NEW j \in Jobs, ReportAnswer(j) \/ ReportRaised(j)
        PROVE  EndsStay
    BY <2>1, <2>2, <2>9, SavingKeepsEnds DEF ReportAnswer, ReportRaised
  <2>10. ASSUME NEW j \in Jobs,
                \/ AskAboutPicture(j) \/ TakePicture(j) \/ ReserveAndQueue(j) \/ VisionEnds(j) \/ AppendAnswer(j)
                \/ SettleOrRelease(j) \/ BreaksOff(j) \/ DeleteTask(j) \/ TaskLapses(j)
         PROVE  EndsStay
    BY <2>2, <2>10 DEF AskAboutPicture, TakePicture, ReserveAndQueue, VisionEnds, AppendAnswer,
                       SettleOrRelease, BreaksOff, DeleteTask, TaskLapses
  <2> QED
    BY <1>1, <2>4, <2>5, <2>6, <2>7, <2>8, <2>9, <2>10, Zenon DEF Next
<1>2. CapturesInv /\ [Next]_vars =>
        [\A r \in Requests : request[r].status \in Ended => request'[r].status \in Ended]_vars
  BY <1>1 DEF EndsStay
<1> QED
  BY <1>2, CapturesHold, PTL DEF Spec, RequestStaysEnded

-----------------------------------------------------------------------------
(***************************************************************************)
(* DesktopPairing                                                          *)
(***************************************************************************)

Threads == Callers \cup Desks

Bindings == [generation : 1 .. MaxGeneration, bound : BOOLEAN]

ThreadCalls ==
  [op : {"none", "bind", "end", "start", "register", "poll"},
   pc : {"idle", "check", "list", "find", "stale", "save", "invalidate", "binding", "keep"},
   session : Sessions \cup {Nil}, generation : 0 .. MaxGeneration,
   stale : SUBSET [session : Sessions, generation : 1 .. MaxGeneration],
   lost : SUBSET Sessions, current : BOOLEAN, answer : Answers \cup {Nil}]

\* Where a call of a page, an administrator or a machine can be.
CallSound(r) ==
  /\ r.op \in {"none", "bind", "end", "start", "register"}
  /\ r.op = "none" => r = Idle
  /\ r.op = "bind" => r.pc \in {"check", "list", "stale", "save", "invalidate"} /\ r.session \in Sessions
  /\ r.op = "end" => r.pc \in {"find", "stale", "invalidate"} /\ r.session \in Sessions
  /\ r.op \in {"start", "register"} => r.pc = "invalidate"
  /\ r.stale # {} => r.pc = "stale"

\* The machine a bind has checked was registered.
MachineKnown(r) == r.op = "bind" /\ r.pc # "check" => r.generation \in 1 .. generation

PollSound(r) ==
  /\ r.op \in {"none", "poll"}
  /\ r.op = "poll" => r.session \in Pins /\ r.pc \in {"binding", "keep"}
  /\ r.op = "poll" /\ r.pc = "keep" => r.answer \in Answers

PairingTables ==
  /\ PairingTypeOK
  /\ binding \in [Sessions -> Bindings \cup {Nil}]
  /\ cache \in [Pins -> Answers \cup {Nil}]

PairingCalls ==
  /\ thread \in [Threads -> ThreadCalls]
  /\ \A c \in Callers : CallSound(thread[c]) /\ MachineKnown(thread[c])
  /\ \A d \in Desks : PollSound(thread[d])

PairingShapes == PairingTables /\ PairingCalls

\* No two calls bind at the same time.
BindsApart == \A c, d \in Callers : thread[c].op = "bind" /\ thread[d].op = "bind" => c = d

\* A machine has one binding, whatever is going on ...
OneBound ==
  \A s, x \in Sessions :
    Bound(s) /\ Bound(x) /\ binding[s].generation = binding[x].generation => s = x

\* ... because a bind that has listed the others has them all in hand.
OthersInHand(c) ==
  thread[c].op = "bind" /\ thread[c].pc \in {"stale", "save"} =>
    \A x \in Sessions : x # thread[c].session /\ Bound(x) /\ binding[x].generation = thread[c].generation =>
      \E row \in thread[c].stale : row.session = x

BindingsInv == PairingShapes /\ OneBound /\ \A c \in Callers : OthersInHand(c)

\* What a call is about to drop the audio of has ended, or is not bound once
\* the call has saved what it holds.
DropsInHand(c) ==
  /\ thread[c].op = "end" => status[thread[c].session] = "ended" /\ thread[c].lost \subseteq {thread[c].session}
  /\ thread[c].op = "bind" => thread[c].session \notin thread[c].lost
  /\ thread[c].op = "bind" => \A x \in thread[c].lost :
       Bound(x) => \E row \in thread[c].stale : row.session = x
  /\ thread[c].op \in {"start", "register"} => thread[c].lost = {}

\* Dropped audio is of a session that has ended, or that is neither bound nor
\* being bound.
DroppedIsUnbound ==
  \A s \in retired : Open(s) =>
    ~Bound(s) /\ \A c \in Callers : thread[c].op = "bind" => thread[c].session # s

HeardInv == PairingShapes /\ DroppedIsUnbound /\ \A c \in Callers : DropsInHand(c)

\* A call that has changed something and will drop the kept answers.
Alters(c) == thread[c].op # "none" /\ ~ThreadAt(c, "bind", "check")

Altering == \E c \in Callers : Alters(c)

Right(answer) ==
  answer.to # Nil => OnThisMachine(answer.to) /\ status[answer.to] = answer.status

KeptAreRight == \A pin \in Pins : cache[pin] # Nil => Right(cache[pin])

PollIsRight(d) ==
  thread[d].op = "poll" /\ thread[d].current =>
    /\ thread[d].pc = "binding" => thread[d].generation \in {0, generation}
    /\ thread[d].pc = "keep" => Right(thread[d].answer)

AnswersInv ==
  PairingShapes /\ (Altering \/ (KeptAreRight /\ \A d \in Desks : PollIsRight(d)))

\* A thread that is idle has a sound call.
LEMMA IdleIsACall == Idle \in ThreadCalls /\ CallSound(Idle) /\ PollSound(Idle) /\ ~(Idle.op = "bind")
<1>1. 0 \in 0 .. MaxGeneration
  BY PairingAssumption
<1> QED
  BY <1>1 DEF Idle, ThreadCalls, CallSound, PollSound

\* A step of one thread leaves every thread with a call.
LEMMA ThreadMoves ==
  ASSUME thread \in [Threads -> ThreadCalls], NEW p \in Threads, NEW r \in ThreadCalls,
         ThreadGoes(p, r)
  PROVE  /\ thread' \in [Threads -> ThreadCalls]
         /\ thread'[p] = r
         /\ \A q \in Threads : q # p => thread'[q] = thread[q]
BY DEF ThreadGoes

\* A step of one caller keeps the calls sound.
LEMMA CallerMoves ==
  ASSUME PairingCalls, NEW c \in Callers, NEW r \in ThreadCalls, ThreadGoes(c, r),
         CallSound(r), generation \in Nat, generation' \in Nat, generation <= generation',
         r.op = "bind" /\ r.pc # "check" => r.generation \in 1 .. generation'
  PROVE  PairingCalls'
<1>1. c \in Threads /\ \A d \in Desks : d # c /\ d \in Threads
  BY PairingAssumption DEF Threads
<1>2. /\ thread' \in [Threads -> ThreadCalls]
      /\ thread'[c] = r
      /\ \A q \in Threads : q # c => thread'[q] = thread[q]
  BY <1>1, ThreadMoves DEF PairingCalls
<1>3. ASSUME NEW d \in Desks PROVE PollSound(thread'[d])
  BY <1>1, <1>2 DEF PairingCalls
<1>4. ASSUME NEW d \in Callers PROVE CallSound(thread'[d])
  BY <1>2 DEF PairingCalls, Threads
<1>5. ASSUME NEW d \in Callers, thread'[d].op = "bind" /\ thread'[d].pc # "check"
      PROVE  thread'[d].generation \in 1 .. generation'
  <2>1. CASE d = c
    BY <1>2, <1>5, <2>1
  <2>2. CASE d # c
    <3>1. thread'[d] = thread[d] /\ MachineKnown(thread[d])
      BY <1>2, <2>2 DEF PairingCalls, Threads
    <3> QED
      BY <3>1, <1>5 DEF MachineKnown
  <2> QED
    BY <2>1, <2>2
<1> QED
  BY <1>2, <1>3, <1>4, <1>5 DEF PairingCalls, CallSound, MachineKnown, PollSound

\* A step of one desktop's poll keeps the calls sound.
LEMMA DeskMoves ==
  ASSUME PairingCalls, NEW d \in Desks, NEW r \in ThreadCalls, ThreadGoes(d, r),
         PollSound(r), UNCHANGED generation
  PROVE  PairingCalls'
<1>1. d \in Threads /\ \A c \in Callers : d # c /\ c \in Threads
  BY PairingAssumption DEF Threads
<1>2. /\ thread' \in [Threads -> ThreadCalls]
      /\ thread'[d] = r
      /\ \A q \in Threads : q # d => thread'[q] = thread[q]
  BY <1>1, ThreadMoves DEF PairingCalls
<1>3. ASSUME NEW c \in Callers PROVE thread'[c] = thread[c] /\ CallSound(thread[c]) /\ MachineKnown(thread[c])
  BY <1>1, <1>2 DEF PairingCalls
<1>4. ASSUME NEW x \in Desks PROVE PollSound(thread'[x])
  BY <1>2 DEF PairingCalls, Threads
<1> QED
  BY <1>2, <1>3, <1>4 DEF PairingCalls, CallSound, MachineKnown, PollSound

\* The shapes hold at the start.
LEMMA PairingInitial == ASSUME PairingInit PROVE PairingShapes
<1>1. 1 \in 1 .. MaxGeneration
  BY PairingAssumption
<1>2. PairingTables
  BY <1>1 DEF PairingInit, PairingTables, PairingTypeOK
<1>3. PairingCalls
  BY IdleIsACall DEF PairingInit, PairingCalls, MachineKnown, Threads
<1> QED
  BY <1>2, <1>3 DEF PairingShapes

\* What the shapes say of one caller and of one row.
LEMMA CallerHas ==
  ASSUME PairingShapes, NEW c \in Callers
  PROVE  /\ thread[c] \in ThreadCalls /\ CallSound(thread[c]) /\ MachineKnown(thread[c])
         /\ generation \in Nat /\ generation \in 1 .. MaxGeneration
         /\ thread[c].op \in {"bind", "end"} => thread[c].session \in Sessions
BY PairingAssumption DEF PairingShapes, PairingCalls, PairingTables, PairingTypeOK, CallSound, Threads

\* What a session has in the bindings.
LEMMA RowsHave ==
  ASSUME PairingShapes, NEW s \in Sessions
  PROVE  /\ Bound(s) \in BOOLEAN
         /\ binding[s] # Nil => binding[s] \in Bindings
         /\ binding[s] # Nil => binding[s].generation \in 1 .. MaxGeneration
         /\ binding[s] # Nil => Row(s) \in [session : Sessions, generation : 1 .. MaxGeneration]
BY DEF PairingShapes, PairingTables, PairingTypeOK, Bindings, Bound, Row

\* A step that touches neither rows nor cache keeps the tables.
LEMMA TablesStay == ASSUME PairingTables, UNCHANGED <<rows, cache>> PROVE PairingTables'
BY DEF PairingTables, PairingTypeOK, rows

\* BindDesktopDevice keeps the shapes.
LEMMA BindDesktopDeviceKeeps ==
  ASSUME PairingShapes, NEW c \in Callers, NEW s \in Sessions, BindDesktopDevice(c, s)
  PROVE  PairingShapes'
<1> DEFINE r == [Idle EXCEPT !.op = "bind", !.pc = "check", !.session = s]
<1>1. r \in ThreadCalls /\ CallSound(r) /\ r.op = "bind" /\ r.pc = "check"
  BY IdleIsACall DEF ThreadCalls, CallSound, Idle
<1>2. ThreadGoes(c, r) /\ UNCHANGED generation
  BY DEF BindDesktopDevice
<1>3. PairingCalls'
  <2> HIDE DEF r
  <2> QED
    BY <1>1, <1>2, CallerHas, CallerMoves DEF PairingShapes
<1>4. PairingTables'
  BY DEF PairingShapes, PairingTables, PairingTypeOK, BindDesktopDevice
<1> QED
  BY <1>3, <1>4 DEF PairingShapes

\* CheckDevice keeps the shapes.
LEMMA CheckDeviceKeeps ==
  ASSUME PairingShapes, NEW c \in Callers, CheckDevice(c)
  PROVE  PairingShapes'
<1>1. /\ thread[c].op = "bind" /\ thread[c].pc = "check"
      /\ UNCHANGED <<rows, cache>> /\ UNCHANGED generation
  BY DEF CheckDevice, ThreadAt, rows
<1>2. CASE Returns(c)
  BY <1>1, <1>2, IdleIsACall, CallerHas, CallerMoves, TablesStay DEF PairingShapes, Returns
<1>3. CASE ThreadGoes(c, [thread[c] EXCEPT !.generation = generation, !.pc = "list"])
  <2> DEFINE r == [thread[c] EXCEPT !.generation = generation, !.pc = "list"]
  <2>1. /\ r \in ThreadCalls /\ r.op = "bind" /\ r.pc = "list" /\ r.generation = generation
        /\ r.stale = thread[c].stale /\ r.session = thread[c].session
    <3>1. thread[c] \in ThreadCalls /\ generation \in 0 .. MaxGeneration
      BY CallerHas
    <3> QED
      BY <1>1, <3>1 DEF ThreadCalls
  <2>2. generation \in 1 .. generation /\ generation <= generation
    BY CallerHas
  <2> HIDE DEF r
  <2>3. CallSound(r)
    BY <1>1, <2>1, CallerHas DEF CallSound
  <2> QED
    BY <1>1, <1>3, <2>1, <2>2, <2>3, CallerHas, CallerMoves, TablesStay DEF PairingShapes, r
<1> QED
  BY <1>2, <1>3 DEF CheckDevice

\* ListPrevious keeps the shapes.
LEMMA ListPreviousKeeps ==
  ASSUME PairingShapes, NEW c \in Callers, ListPrevious(c)
  PROVE  PairingShapes'
<1> DEFINE s == thread[c].session
           previous == {x \in Sessions : Bound(x) /\ (owner[x] = owner[s]
                                         \/ binding[x].generation = thread[c].generation)}
           r == [thread[c] EXCEPT !.stale = {Row(x) : x \in previous \ {s}}, !.lost = previous \ {s},
                               !.current = s \in previous, !.pc = "stale"]
<1>1. /\ thread[c].op = "bind" /\ thread[c].pc = "list" /\ ThreadGoes(c, r)
      /\ UNCHANGED <<rows, cache>> /\ UNCHANGED generation
  BY DEF ListPrevious, ThreadAt, rows
<1>2. {Row(x) : x \in previous \ {s}} \subseteq [session : Sessions, generation : 1 .. MaxGeneration]
  BY RowsHave DEF Bound
<1>3. previous \ {s} \subseteq Sessions /\ (s \in previous) \in BOOLEAN
  OBVIOUS
<1> HIDE DEF previous, s
<1>4. r \in ThreadCalls /\ r.op = "bind" /\ r.pc = "stale" /\ r.session = thread[c].session
      /\ r.generation = thread[c].generation
  <2>1. thread[c] \in ThreadCalls
    BY CallerHas
  <2> QED
    BY <1>1, <1>2, <1>3, <2>1 DEF ThreadCalls
<1> HIDE DEF r
<1>5. CallSound(r) /\ r.generation \in 1 .. generation
  BY <1>1, <1>4, CallerHas DEF CallSound, MachineKnown
<1> QED
  BY <1>1, <1>4, <1>5, CallerHas, CallerMoves, TablesStay DEF PairingShapes

\* The bindings after one row was saved.
LEMMA SavedRows ==
  ASSUME PairingShapes, NEW s \in Sessions, NEW g \in 1 .. MaxGeneration, NEW bound \in BOOLEAN,
         Save(s, g, bound)
  PROVE  /\ binding' \in [Sessions -> Bindings \cup {Nil}]
         /\ binding'[s] = [generation |-> g, bound |-> bound] /\ binding'[s] # Nil
         /\ \A x \in Sessions : x # s => binding'[x] = binding[x]
         /\ latest' = s
BY PairingAssumption DEF PairingShapes, PairingTables, Save, Bindings

\* Saving a binding keeps the tables.
LEMMA TablesSaved ==
  ASSUME PairingShapes, NEW s \in Sessions, NEW g \in 1 .. MaxGeneration, NEW bound \in BOOLEAN,
         Save(s, g, bound), UNCHANGED <<owner, status, generation, fresh, retired, cache>>
  PROVE  PairingTables'
<1>1. PairingTables /\ s # Nil
  BY PairingAssumption DEF PairingShapes
<1>2. binding' \in [Sessions -> Bindings \cup {Nil}] /\ latest' = s /\ binding'[s] # Nil
  BY SavedRows
<1>3. \A x \in Sessions : binding'[x] = Nil \/ binding'[x] \in [generation : 1 .. MaxGeneration, bound : BOOLEAN]
  BY <1>2 DEF Bindings
<1> QED
  BY <1>1, <1>2, <1>3 DEF PairingTables, PairingTypeOK

\* SaveStale keeps the shapes.
LEMMA SaveStaleKeeps ==
  ASSUME PairingShapes, NEW c \in Callers, SaveStale(c)
  PROVE  PairingShapes'
<1>1. PICK row \in thread[c].stale :
        /\ Save(row.session, row.generation, FALSE)
        /\ ThreadGoes(c, [thread[c] EXCEPT !.stale = @ \ {row}])
        /\ UNCHANGED <<owner, status, generation, fresh, retired, cache>>
  BY DEF SaveStale
<1>2. row.session \in Sessions /\ row.generation \in 1 .. MaxGeneration /\ thread[c].pc = "stale"
  BY <1>1, CallerHas DEF ThreadCalls, CallSound
<1>3. PairingTables'
  BY <1>1, <1>2, TablesSaved
<1> DEFINE r == [thread[c] EXCEPT !.stale = @ \ {row}]
<1>4. ThreadGoes(c, r) /\ UNCHANGED generation
  BY <1>1
<1>5. /\ r \in ThreadCalls /\ r.op = thread[c].op /\ r.pc = thread[c].pc
      /\ r.session = thread[c].session /\ r.generation = thread[c].generation
  BY CallerHas DEF ThreadCalls
<1>6. r.op # "none"
  BY <1>2, <1>5, CallerHas DEF CallSound, Idle
<1> HIDE DEF r
<1>7. CallSound(r) /\ (r.op = "bind" /\ r.pc # "check" => r.generation \in 1 .. generation)
  BY <1>2, <1>5, <1>6, CallerHas DEF CallSound, MachineKnown
<1> QED
  BY <1>3, <1>5, <1>7, <1>4, CallerHas, CallerMoves DEF PairingShapes

\* ResetRealtimeSession keeps the shapes.
LEMMA ResetRealtimeSessionKeeps ==
  ASSUME PairingShapes, NEW c \in Callers, ResetRealtimeSession(c)
  PROVE  PairingShapes'
<1> DEFINE r == [thread[c] EXCEPT !.lost = {}, !.current = FALSE,
                               !.pc = IF thread[c].op = "bind" THEN "save" ELSE "invalidate"]
<1>1. /\ thread[c].pc = "stale" /\ thread[c].stale = {} /\ ThreadGoes(c, r)
      /\ UNCHANGED generation
  BY DEF ResetRealtimeSession
<1>2. /\ r \in ThreadCalls /\ r.op = thread[c].op
      /\ r.pc = IF thread[c].op = "bind" THEN "save" ELSE "invalidate"
      /\ r.stale = {} /\ r.session = thread[c].session /\ r.generation = thread[c].generation
  <2>1. thread[c] \in ThreadCalls
    BY CallerHas
  <2> DEFINE k == IF thread[c].op = "bind" THEN "save" ELSE "invalidate"
  <2>2. k \in {"save", "invalidate"} /\ r = [thread[c] EXCEPT !.lost = {}, !.current = FALSE, !.pc = k]
    OBVIOUS
  <2> HIDE DEF k, r
  <2>3. /\ r \in ThreadCalls /\ r.op = thread[c].op /\ r.pc = k
        /\ r.stale = thread[c].stale /\ r.session = thread[c].session
        /\ r.generation = thread[c].generation
    BY <2>1, <2>2 DEF ThreadCalls
  <2> QED
    BY <1>1, <2>3 DEF k
<1>3. thread[c].op \in {"bind", "end"}
  BY <1>1, CallerHas DEF CallSound, Idle
<1> HIDE DEF r
<1>4. CallSound(r) /\ (r.op = "bind" /\ r.pc # "check" => r.generation \in 1 .. generation)
  BY <1>1, <1>2, <1>3, CallerHas DEF CallSound, MachineKnown
<1>5. PairingTables'
  <2>1. thread[c].lost \subseteq Sessions
    BY CallerHas DEF ThreadCalls
  <2>2. retired' \subseteq Sessions
    BY <2>1 DEF PairingShapes, PairingTables, PairingTypeOK, ResetRealtimeSession
  <2> QED
    BY <2>2 DEF PairingShapes, PairingTables, PairingTypeOK, ResetRealtimeSession
<1> QED
  BY <1>1, <1>2, <1>4, <1>5, CallerHas, CallerMoves DEF PairingShapes

\* SaveSessionDesktopBinding keeps the shapes.
LEMMA SaveSessionDesktopBindingKeeps ==
  ASSUME PairingShapes, NEW c \in Callers, SaveSessionDesktopBinding(c)
  PROVE  PairingShapes'
<1> DEFINE r == [thread[c] EXCEPT !.pc = "invalidate"]
<1>1. /\ thread[c].op = "bind" /\ thread[c].pc = "save" /\ ThreadGoes(c, r)
      /\ Save(thread[c].session, thread[c].generation, TRUE)
      /\ UNCHANGED <<owner, status, generation, fresh, retired, cache>>
  BY DEF SaveSessionDesktopBinding, ThreadAt, GoesOn
<1>2. /\ r \in ThreadCalls /\ r.op = "bind" /\ r.pc = "invalidate" /\ r.stale = thread[c].stale
      /\ r.session = thread[c].session /\ r.generation = thread[c].generation
  BY <1>1, CallerHas DEF ThreadCalls
<1>3. thread[c].session \in Sessions /\ thread[c].generation \in 1 .. generation
  BY <1>1, CallerHas DEF MachineKnown
<1>4. thread[c].generation \in 1 .. MaxGeneration
  BY <1>3, CallerHas, PairingAssumption
<1> HIDE DEF r
<1>5. CallSound(r)
  BY <1>1, <1>2, <1>3, CallerHas DEF CallSound
<1>6. PairingTables'
  BY <1>1, <1>3, <1>4, TablesSaved
<1> QED
  BY <1>1, <1>2, <1>3, <1>5, <1>6, CallerHas, CallerMoves DEF PairingShapes

\* What InvalidateControlQueryCache does: every kept answer goes.
LEMMA InvalidateControlQueryCacheMoves ==
  ASSUME PairingShapes, NEW c \in Callers, InvalidateControlQueryCache(c)
  PROVE  /\ thread[c].pc = "invalidate" /\ UNCHANGED rows
         /\ thread' \in [Threads -> ThreadCalls] /\ thread'[c] = Idle
         /\ \A d \in Callers : d # c => thread'[d] = thread[d]
         /\ \A d \in Desks : thread'[d] = [thread[d] EXCEPT !.current = FALSE]
         /\ \A pin \in Pins : cache'[pin] = Nil
         /\ cache' \in [Pins -> Answers \cup {Nil}]
<1>1. /\ thread[c].pc = "invalidate" /\ UNCHANGED rows
      /\ cache' = [pin \in Pins |-> Nil]
      /\ thread' = [p \in Callers \cup Desks |->
                      IF p = c THEN Idle
                      ELSE IF p \in Desks THEN [thread[p] EXCEPT !.current = FALSE] ELSE thread[p]]
  BY DEF InvalidateControlQueryCache
<1>2. ASSUME NEW d \in Desks PROVE [thread[d] EXCEPT !.current = FALSE] \in ThreadCalls /\ d # c
  <2>1. thread[d] \in ThreadCalls /\ d # c
    BY PairingAssumption DEF PairingShapes, PairingCalls, Threads
  <2> QED
    BY <2>1 DEF ThreadCalls
<1>3. thread' \in [Threads -> ThreadCalls]
  BY <1>1, <1>2, IdleIsACall DEF PairingShapes, PairingCalls, Threads
<1>4. \A d \in Callers : d \notin Desks
  BY PairingAssumption
<1> QED
  BY <1>1, <1>2, <1>3, <1>4

\* InvalidateControlQueryCache keeps the shapes.
LEMMA InvalidateControlQueryCacheKeeps ==
  ASSUME PairingShapes, NEW c \in Callers, InvalidateControlQueryCache(c)
  PROVE  PairingShapes'
<1>1. ASSUME NEW d \in Desks PROVE PollSound(thread'[d])
  <2>1. thread[d] \in ThreadCalls /\ PollSound(thread[d])
    BY DEF PairingShapes, PairingCalls, Threads
  <2> DEFINE r == [thread[d] EXCEPT !.current = FALSE]
  <2>2. /\ r.op = thread[d].op /\ r.pc = thread[d].pc /\ r.session = thread[d].session
        /\ r.answer = thread[d].answer /\ r.current = FALSE
    BY <2>1 DEF ThreadCalls
  <2> HIDE DEF r
  <2>3. PollSound(r)
    BY <2>1, <2>2 DEF PollSound
  <2> QED
    BY <2>3, InvalidateControlQueryCacheMoves DEF r
<1>2. ASSUME NEW d \in Callers PROVE CallSound(thread'[d]) /\ (MachineKnown(thread[d]))'
  <2>1. CallSound(thread[d]) /\ MachineKnown(thread[d])
    BY DEF PairingShapes, PairingCalls
  <2>2. generation' = generation
    BY DEF InvalidateControlQueryCache, rows
  <2> QED
    BY <2>1, <2>2, InvalidateControlQueryCacheMoves, IdleIsACall DEF MachineKnown
<1>3. PairingCalls'
  BY <1>1, <1>2, InvalidateControlQueryCacheMoves DEF PairingCalls, CallSound, PollSound
<1>4. PairingTables'
  BY InvalidateControlQueryCacheMoves DEF PairingShapes, PairingTables, PairingTypeOK, rows
<1> QED
  BY <1>3, <1>4 DEF PairingShapes

\* Ends keeps the shapes.
LEMMA EndsKeeps ==
  ASSUME PairingShapes, NEW c \in Callers, NEW x \in Sessions, Ends(c, x)
  PROVE  PairingShapes'
<1> DEFINE r == [Idle EXCEPT !.op = "end", !.pc = "find", !.session = x, !.lost = {x}]
<1>1. ThreadGoes(c, r) /\ UNCHANGED generation
  BY DEF Ends
<1>2. r \in ThreadCalls /\ CallSound(r) /\ r.op = "end"
  BY IdleIsACall DEF ThreadCalls, CallSound, Idle
<1> HIDE DEF r
<1>3. PairingTables'
  BY DEF PairingShapes, PairingTables, PairingTypeOK, Ends
<1> QED
  BY <1>1, <1>2, <1>3, CallerHas, CallerMoves DEF PairingShapes

\* FindBinding keeps the shapes.
LEMMA FindBindingKeeps ==
  ASSUME PairingShapes, NEW c \in Callers, FindBinding(c)
  PROVE  PairingShapes'
<1> DEFINE x == thread[c].session
           found == IF Bound(x) THEN {Row(x)} ELSE {}
           r == [thread[c] EXCEPT !.stale = found, !.pc = "stale"]
<1>1. thread[c].op = "end" /\ ThreadGoes(c, r) /\ UNCHANGED <<rows, cache>> /\ UNCHANGED generation
  BY DEF FindBinding, ThreadAt, rows
<1>2. x \in Sessions
  BY <1>1, CallerHas
<1>3. found \subseteq [session : Sessions, generation : 1 .. MaxGeneration]
  BY <1>2, RowsHave DEF Bound
<1> HIDE DEF found
<1>4. r \in ThreadCalls /\ r.op = "end" /\ r.pc = "stale" /\ r.session = x
  BY <1>1, <1>3, CallerHas DEF ThreadCalls
<1> HIDE DEF r
<1>5. CallSound(r)
  BY <1>2, <1>4 DEF CallSound
<1> QED
  BY <1>1, <1>4, <1>5, CallerHas, CallerMoves, TablesStay DEF PairingShapes

\* RegisterDesktopDevice keeps the shapes.
LEMMA RegisterDesktopDeviceKeeps ==
  ASSUME PairingShapes, NEW c \in Callers, RegisterDesktopDevice(c)
  PROVE  PairingShapes'
<1> DEFINE r == [Idle EXCEPT !.op = "register", !.pc = "invalidate"]
<1>1. ThreadGoes(c, r) /\ generation' = generation + 1 /\ generation < MaxGeneration
  BY DEF RegisterDesktopDevice
<1>2. r \in ThreadCalls /\ CallSound(r) /\ r.op = "register"
  BY IdleIsACall DEF ThreadCalls, CallSound, Idle
<1> HIDE DEF r
<1>3. generation' \in 1 .. MaxGeneration /\ generation <= generation' /\ generation' \in Nat
  BY <1>1, PairingAssumption, CallerHas
<1>4. PairingTables'
  BY <1>3 DEF PairingShapes, PairingTables, PairingTypeOK, RegisterDesktopDevice
<1> QED
  BY <1>1, <1>2, <1>3, <1>4, CallerHas, CallerMoves DEF PairingShapes

\* StartLiveSession keeps the shapes.
LEMMA StartLiveSessionKeeps ==
  ASSUME PairingShapes, NEW c \in Callers, NEW s \in Sessions, StartLiveSession(s, c)
  PROVE  PairingShapes'
<1> DEFINE r == [Idle EXCEPT !.op = "start", !.pc = "invalidate"]
<1>1. ThreadGoes(c, r) /\ UNCHANGED generation
  BY DEF StartLiveSession
<1>2. r \in ThreadCalls /\ CallSound(r) /\ r.op = "start"
  BY IdleIsACall DEF ThreadCalls, CallSound, Idle
<1> HIDE DEF r
<1>3. PairingTables'
  BY DEF PairingShapes, PairingTables, PairingTypeOK, StartLiveSession
<1> QED
  BY <1>1, <1>2, <1>3, CallerHas, CallerMoves DEF PairingShapes

\* The poll of a desktop is sound.
LEMMA DeskHas ==
  ASSUME PairingShapes, NEW d \in Desks
  PROVE  thread[d] \in ThreadCalls /\ PollSound(thread[d])
BY DEF PairingShapes, PairingCalls, Threads

\* What a poll finds: the session it serves, or that there is none.
LEMMA PollAnswers ==
  ASSUME PairingShapes, NEW d \in Desks, PollReadsBinding(d)
  PROVE  \E answer \in Answers :
           /\ ThreadAt(d, "poll", "binding") /\ UNCHANGED <<rows, cache>>
           /\ ThreadGoes(d, [thread[d] EXCEPT !.pc = "keep", !.generation = 0, !.answer = answer])
           /\ answer.to # Nil => /\ answer.to \in Sessions /\ Bound(answer.to)
                                 /\ binding[answer.to].generation = thread[d].generation
                                 /\ status[answer.to] = answer.status
<1> DEFINE pin == thread[d].session
           Serving(s) == s # Nil /\ Bound(s) /\ binding[s].generation = thread[d].generation /\ Open(s)
           s == IF Serving(pin) THEN pin ELSE latest
           found == [to |-> s, status |-> status[s]]
           nothing == [to |-> Nil, status |-> "none"]
<1>1. /\ ThreadAt(d, "poll", "binding") /\ UNCHANGED <<rows, cache>>
      /\ ThreadGoes(d, [thread[d] EXCEPT !.pc = "keep", !.generation = 0,
                                         !.answer = IF Serving(s) THEN found ELSE nothing])
  BY DEF PollReadsBinding
<1>2. pin \in Pins /\ pin \in Sessions \cup {Nil} /\ latest \in Sessions \cup {Nil}
  BY <1>1, DeskHas, PairingAssumption
     DEF PollSound, ThreadAt, PairingShapes, PairingTables, PairingTypeOK
<1>3. s \in Sessions \cup {Nil}
  BY <1>2
<1>4. CASE Serving(s)
  <2>1. s \in Sessions /\ status[s] \in {"preparing", "live"}
    BY <1>3, <1>4 DEF Open
  <2>2. found \in Answers
    BY <2>1 DEF Answers
  <2>3. /\ found.to = s /\ found.status = status[s]
        /\ Bound(s) /\ binding[s].generation = thread[d].generation
    BY <1>4
  <2> HIDE DEF s, Serving
  <2> QED
    BY <1>1, <1>4, <2>1, <2>2, <2>3
<1>5. CASE ~Serving(s)
  <2>1. nothing \in Answers /\ nothing.to = Nil
    BY DEF Answers
  <2> HIDE DEF s, Serving, found
  <2> QED
    BY <1>1, <1>5, <2>1
<1> QED
  BY <1>4, <1>5

\* GetDesktopPairingStatus keeps the shapes.
LEMMA GetDesktopPairingStatusKeeps ==
  ASSUME PairingShapes, NEW d \in Desks, NEW pin \in Pins, GetDesktopPairingStatus(d, pin)
  PROVE  PairingShapes'
<1> DEFINE r == [Idle EXCEPT !.op = "poll", !.pc = "binding", !.session = pin, !.current = TRUE,
                          !.generation = IF fresh THEN generation ELSE 0]
<1>1. ThreadGoes(d, r) /\ UNCHANGED <<rows, cache>> /\ UNCHANGED generation
  BY DEF GetDesktopPairingStatus, rows
<1>2. (IF fresh THEN generation ELSE 0) \in 0 .. MaxGeneration /\ pin \in Sessions \cup {Nil}
  BY PairingAssumption DEF PairingShapes, PairingTables, PairingTypeOK
<1>3. r \in ThreadCalls /\ PollSound(r)
  <2> DEFINE g == IF fresh THEN generation ELSE 0
  <2>1. g \in 0 .. MaxGeneration /\ Idle \in ThreadCalls
    BY <1>2, IdleIsACall
  <2>2. r = [Idle EXCEPT !.op = "poll", !.pc = "binding", !.session = pin, !.current = TRUE,
                        !.generation = g]
    OBVIOUS
  <2> HIDE DEF g, r
  <2>3. r \in ThreadCalls
    BY <1>2, <2>1, <2>2 DEF ThreadCalls
  <2>4. r.op = "poll" /\ r.pc = "binding" /\ r.session = pin
    BY <2>1, <2>2 DEF ThreadCalls
  <2> QED
    BY <2>3, <2>4 DEF PollSound
<1> HIDE DEF r
<1> QED
  BY <1>1, <1>3, DeskMoves, TablesStay DEF PairingShapes

\* PollReadsBinding keeps the shapes.
LEMMA PollReadsBindingKeeps ==
  ASSUME PairingShapes, NEW d \in Desks, PollReadsBinding(d)
  PROVE  PairingShapes'
<1>1. PICK answer \in Answers :
           /\ ThreadAt(d, "poll", "binding") /\ UNCHANGED <<rows, cache>>
           /\ ThreadGoes(d, [thread[d] EXCEPT !.pc = "keep", !.generation = 0, !.answer = answer])
  BY PollAnswers
<1> DEFINE r == [thread[d] EXCEPT !.pc = "keep", !.generation = 0, !.answer = answer]
<1>2. ThreadGoes(d, r) /\ UNCHANGED generation /\ thread[d].op = "poll" /\ 0 \in 0 .. MaxGeneration
  BY <1>1, PairingAssumption DEF rows, ThreadAt
<1>3. /\ r \in ThreadCalls /\ r.op = "poll" /\ r.pc = "keep" /\ r.session = thread[d].session
      /\ r.answer = answer
  BY <1>2, DeskHas DEF ThreadCalls
<1> HIDE DEF r
<1>4. PollSound(r)
  BY <1>2, <1>3, DeskHas DEF PollSound
<1> QED
  BY <1>1, <1>2, <1>3, <1>4, DeskMoves, TablesStay DEF PairingShapes

\* KeepAnswer keeps the shapes.
LEMMA KeepAnswerKeeps ==
  ASSUME PairingShapes, NEW d \in Desks, KeepAnswer(d)
  PROVE  PairingShapes'
<1>1. /\ thread[d].op = "poll" /\ thread[d].pc = "keep" /\ ThreadGoes(d, Idle)
      /\ cache' = IF thread[d].current THEN [cache EXCEPT ![thread[d].session] = thread[d].answer]
                                       ELSE cache
      /\ UNCHANGED rows /\ UNCHANGED generation
  BY DEF KeepAnswer, Returns, ThreadAt, rows
<1>2. thread[d].session \in Pins /\ thread[d].answer \in Answers
  BY <1>1, DeskHas DEF PollSound
<1>3. cache' \in [Pins -> Answers \cup {Nil}]
  BY <1>1, <1>2 DEF PairingShapes, PairingTables
<1>4. PairingTables'
  BY <1>1, <1>3 DEF PairingShapes, PairingTables, PairingTypeOK, rows
<1> QED
  BY <1>1, <1>4, IdleIsACall, DeskMoves DEF PairingShapes

\* Every step keeps the shapes.
LEMMA PairingShapesKept ==
  ASSUME PairingShapes, [PairingNext]_pairingVars
  PROVE  PairingShapes'
<1>1. ASSUME NEW c \in Callers, NEW s \in Sessions,
             BindDesktopDevice(c, s) \/ StartLiveSession(s, c)
      PROVE  PairingShapes'
  BY <1>1, BindDesktopDeviceKeeps, StartLiveSessionKeeps
<1>2. ASSUME NEW c \in Callers, NEW s \in Sessions,
             TerminateSession(c, s) \/ SupersedeActiveInterviews(c, s)
      PROVE  PairingShapes'
  BY <1>2, EndsKeeps DEF TerminateSession, SupersedeActiveInterviews, LiveElsewhere
<1>3. ASSUME NEW c \in Callers, RegisterDesktopDevice(c)
      PROVE  PairingShapes'
  BY <1>3, RegisterDesktopDeviceKeeps
<1>4. ASSUME NEW c \in Callers, CallerStep(c)
      PROVE  PairingShapes'
  BY <1>4, CheckDeviceKeeps, ListPreviousKeeps, SaveStaleKeeps, ResetRealtimeSessionKeeps,
     SaveSessionDesktopBindingKeeps, InvalidateControlQueryCacheKeeps, FindBindingKeeps
     DEF CallerStep
<1>5. ASSUME NEW d \in Desks, DeskStep(d)
      PROVE  PairingShapes'
  BY <1>5, GetDesktopPairingStatusKeeps, PollReadsBindingKeeps, KeepAnswerKeeps DEF DeskStep
<1>6. CASE Heartbeat \/ Lapse
  <2>1. fresh' \in BOOLEAN
        /\ UNCHANGED <<owner, status, generation, binding, latest, retired, cache, thread>>
    BY <1>6 DEF Heartbeat, Lapse
  <2>2. PairingTables'
    BY <2>1 DEF PairingShapes, PairingTables, PairingTypeOK
  <2>3. PairingCalls'
    BY <2>1 DEF PairingShapes, PairingCalls, CallSound, MachineKnown, PollSound
  <2> QED
    BY <2>2, <2>3 DEF PairingShapes
<1>7. CASE UNCHANGED pairingVars
  <2>1. PairingTables'
    BY <1>7 DEF PairingShapes, PairingTables, PairingTypeOK, pairingVars
  <2>2. PairingCalls'
    BY <1>7 DEF PairingShapes, PairingCalls, CallSound, MachineKnown, PollSound, pairingVars
  <2> QED
    BY <2>1, <2>2 DEF PairingShapes
<1> QED
  BY <1>1, <1>2, <1>3, <1>4, <1>5, <1>6, <1>7 DEF PairingNext, Request

(* Devices, bindings, kept answers and the calls that change them keep     *)
(* their shape, for any sessions, users, threads and machines.             *)
THEOREM PairingTyped == PairingSpec => []PairingTypeOK
<1>1. PairingShapes => PairingTypeOK
  BY DEF PairingShapes, PairingTables
<1> QED
  BY <1>1, PairingInitial, PairingShapesKept, PTL DEF PairingSpec

-----------------------------------------------------------------------------
(* One binding for a machine                                               *)

\* A step of one thread leaves the others where they are.
LEMMA OneMoves ==
  ASSUME PairingShapes, NEW p \in Threads, NEW r, ThreadGoes(p, r)
  PROVE  thread'[p] = r /\ \A q \in Threads : q # p => thread'[q] = thread[q]
BY DEF ThreadGoes, PairingShapes, PairingCalls

\* No desktop is a caller.
LEMMA CallersAndDesks ==
  /\ \A c \in Callers : c \in Threads /\ c \notin Desks
  /\ \A d \in Desks : d \in Threads /\ d \notin Callers
BY PairingAssumption DEF Threads

\* A single thread serves the binds.
OneBinder == \A c, d \in Callers : "bind" \in Serves[c] /\ "bind" \in Serves[d] => c = d

\* A call that binds runs in a thread that serves it.
BindsServed == \A c \in Callers : thread[c].op = "bind" => "bind" \in Serves[c]

\* Every step keeps the binds where they are served.
LEMMA BindsServedKept ==
  ASSUME PairingShapes, BindsServed, [PairingNext]_pairingVars
  PROVE  BindsServed'
<1> USE DEF BindsServed
<1>1. ASSUME NEW c \in Callers, NEW r, ThreadGoes(c, r), r.op = "bind" => "bind" \in Serves[c]
      PROVE  BindsServed'
  BY <1>1, OneMoves, CallersAndDesks
<1>2. ASSUME NEW c \in Callers, NEW s \in Sessions,
             BindDesktopDevice(c, s) \/ StartLiveSession(s, c)
      PROVE  BindsServed'
  <2>1. Idle.op = "none" /\ [Idle EXCEPT !.op = "bind", !.pc = "check", !.session = s].op = "bind"
        /\ [Idle EXCEPT !.op = "start", !.pc = "invalidate"].op = "start"
    BY DEF Idle
  <2> QED
    BY <1>1, <1>2, <2>1 DEF BindDesktopDevice, StartLiveSession, Free
<1>3. ASSUME NEW c \in Callers, NEW x \in Sessions, Ends(c, x) PROVE BindsServed'
  <2>1. [Idle EXCEPT !.op = "end", !.pc = "find", !.session = x, !.lost = {x}].op = "end"
    BY DEF Idle
  <2> QED
    BY <1>1, <1>3, <2>1 DEF Ends
<1>4. ASSUME NEW c \in Callers, RegisterDesktopDevice(c) PROVE BindsServed'
  <2>1. [Idle EXCEPT !.op = "register", !.pc = "invalidate"].op = "register"
    BY DEF Idle
  <2> QED
    BY <1>1, <1>4, <2>1 DEF RegisterDesktopDevice
<1>5. ASSUME NEW c \in Callers, CallerStep(c) PROVE BindsServed'
  <2>1. thread[c] \in ThreadCalls
    BY DEF PairingShapes, PairingCalls, Threads
  <2>2. ASSUME NEW r, ThreadGoes(c, r), r.op = thread[c].op \/ r = Idle PROVE BindsServed'
    <3>1. Idle.op # "bind"
      BY DEF Idle
    <3> QED
      BY <1>1, <2>2, <3>1
  <2>3. CASE CheckDevice(c)
    BY <2>1, <2>2, <2>3 DEF CheckDevice, Returns, ThreadCalls
  <2>4. CASE ListPrevious(c)
    BY <2>1, <2>2, <2>4 DEF ListPrevious, ThreadCalls
  <2>5. CASE SaveStale(c)
    BY <2>1, <2>2, <2>5 DEF SaveStale, ThreadCalls
  <2>6. CASE ResetRealtimeSession(c)
    BY <2>1, <2>2, <2>6 DEF ResetRealtimeSession, ThreadCalls
  <2>7. CASE SaveSessionDesktopBinding(c)
    BY <2>1, <2>2, <2>7 DEF SaveSessionDesktopBinding, GoesOn, ThreadCalls
  <2>8. CASE FindBinding(c)
    BY <2>1, <2>2, <2>8 DEF FindBinding, ThreadCalls
  <2>9. CASE InvalidateControlQueryCache(c)
    <3>1. Idle.op # "bind"
      BY DEF Idle
    <3> QED
      BY <2>9, <3>1, InvalidateControlQueryCacheMoves
  <2> QED
    BY <1>5, <2>3, <2>4, <2>5, <2>6, <2>7, <2>8, <2>9 DEF CallerStep
<1>6. ASSUME NEW d \in Desks, DeskStep(d) PROVE BindsServed'
  <2>1. ASSUME NEW r, ThreadGoes(d, r) PROVE BindsServed'
    BY <2>1, OneMoves, CallersAndDesks
  <2> QED
    BY <1>6, <2>1 DEF DeskStep, GetDesktopPairingStatus, PollReadsBinding, KeepAnswer, Returns
<1>7. CASE Heartbeat \/ Lapse \/ UNCHANGED pairingVars
  BY <1>7 DEF Heartbeat, Lapse, pairingVars
<1> QED
  BY <1>2, <1>3, <1>4, <1>5, <1>6, <1>7
     DEF PairingNext, Request, TerminateSession, SupersedeActiveInterviews, LiveElsewhere

\* Where a single thread serves the binds, no two run at the same time.
THEOREM BindsStayApart == ASSUME OneBinder PROVE PairingSpec => []BindsApart
<1>1. PairingInit => BindsServed
  BY IdleIsACall DEF PairingInit, BindsServed
<1>2. PairingShapes /\ BindsServed /\ [PairingNext]_pairingVars => BindsServed'
  BY BindsServedKept
<1>3. BindsServed => BindsApart
  BY DEF OneBinder, BindsServed, BindsApart
<1> QED
  BY <1>1, <1>2, <1>3, PairingInitial, PairingShapesKept, PTL DEF PairingSpec

\* A step that binds nothing anew.
OnlyUnbinds ==
  \A x \in Sessions : Bound(x)' => Bound(x) /\ binding'[x] = binding[x]

\* A step that leaves the bindings alone binds nothing.
LEMMA NothingBound == ASSUME UNCHANGED binding PROVE OnlyUnbinds
BY DEF OnlyUnbinds, Bound

\* If one interview is bound at most, a step that only unbinds leaves it so.
LEMMA OneBoundStays == ASSUME OneBound, OnlyUnbinds PROVE OneBound'
BY DEF OneBound, OnlyUnbinds

\* What a bind holds to be unbound stays right when others only unbind.
LEMMA InHandStays ==
  ASSUME NEW c \in Callers, OthersInHand(c), OnlyUnbinds, thread'[c] = thread[c]
  PROVE  OthersInHand(c)'
BY DEF OthersInHand, OnlyUnbinds

\* Saving a stale row takes it out of the bindings and binds nothing.
LEMMA SaveStaleUnbinds ==
  ASSUME PairingShapes, NEW c \in Callers, NEW row \in thread[c].stale,
         Save(row.session, row.generation, FALSE)
  PROVE  /\ row.session \in Sessions /\ ~Bound(row.session)' /\ OnlyUnbinds
         /\ thread[c].pc = "stale"
<1>1. row.session \in Sessions /\ row.generation \in 1 .. MaxGeneration /\ thread[c].pc = "stale"
  BY CallerHas DEF ThreadCalls, CallSound
<1>2. /\ binding'[row.session] = [generation |-> row.generation, bound |-> FALSE]
      /\ \A x \in Sessions : x # row.session => binding'[x] = binding[x]
  BY <1>1, SavedRows
<1> QED
  BY <1>1, <1>2 DEF OnlyUnbinds, Bound

\* A call of another kind, or one that is not at that point, has nothing in hand.
LEMMA NothingInHand ==
  ASSUME BindingsInv, NEW c \in Callers, NEW r, ThreadGoes(c, r), UNCHANGED binding,
         r.op # "bind" \/ r.pc \notin {"stale", "save"}
  PROVE  OneBound' /\ \A d \in Callers : OthersInHand(d)'
<1>1. PairingShapes /\ OneBound /\ OnlyUnbinds
  BY NothingBound DEF BindingsInv
<1>2. thread'[c] = r /\ \A d \in Callers : d # c => thread'[d] = thread[d]
  BY <1>1, OneMoves, CallersAndDesks
<1>3. OthersInHand(c)'
  BY <1>2 DEF OthersInHand
<1>4. ASSUME NEW d \in Callers, d # c PROVE OthersInHand(d)'
  BY <1>1, <1>2, <1>4, InHandStays DEF BindingsInv
<1> QED
  BY <1>1, <1>3, <1>4, OneBoundStays

\* ListPrevious leaves one interview bound, or the others in hand to be unbound.
LEMMA ListPreviousBinds ==
  ASSUME BindingsInv, NEW c \in Callers, ListPrevious(c)
  PROVE  OneBound' /\ \A d \in Callers : OthersInHand(d)'
<1> DEFINE s == thread[c].session
           previous == {x \in Sessions : Bound(x) /\ (owner[x] = owner[s]
                                         \/ binding[x].generation = thread[c].generation)}
           r == [thread[c] EXCEPT !.stale = {Row(x) : x \in previous \ {s}}, !.lost = previous \ {s},
                               !.current = s \in previous, !.pc = "stale"]
<1>1. PairingShapes /\ OneBound /\ ThreadGoes(c, r) /\ UNCHANGED binding
  BY DEF BindingsInv, ListPrevious, rows
<1>2. thread[c] \in ThreadCalls
  BY <1>1, CallerHas
<1>3. r.stale = {Row(x) : x \in previous \ {s}} /\ r.session = s /\ r.generation = thread[c].generation
  BY <1>2 DEF ThreadCalls
<1>4. ASSUME NEW x \in Sessions, x # s, Bound(x), binding[x].generation = thread[c].generation
      PROVE  \E row \in r.stale : row.session = x
  <2>1. Row(x) \in r.stale /\ Row(x).session = x
    BY <1>3, <1>4 DEF Row
  <2> QED
    BY <2>1
<1> HIDE DEF r, s
<1>5. thread'[c] = r /\ \A d \in Callers : d # c => thread'[d] = thread[d]
  BY <1>1, OneMoves, CallersAndDesks
<1>6. OthersInHand(c)'
  BY <1>1, <1>3, <1>4, <1>5 DEF OthersInHand, Bound
<1>7. ASSUME NEW d \in Callers, d # c PROVE OthersInHand(d)'
  BY <1>1, <1>5, <1>7, InHandStays, NothingBound DEF BindingsInv
<1> QED
  BY <1>1, <1>6, <1>7, OneBoundStays, NothingBound

\* SaveStale leaves one interview bound, or the others in hand to be unbound.
LEMMA SaveStaleBinds ==
  ASSUME BindingsInv, NEW c \in Callers, SaveStale(c)
  PROVE  OneBound' /\ \A d \in Callers : OthersInHand(d)'
<1>1. PICK row \in thread[c].stale :
        Save(row.session, row.generation, FALSE) /\ ThreadGoes(c, [thread[c] EXCEPT !.stale = @ \ {row}])
  BY DEF SaveStale
<1>2. PairingShapes /\ OneBound /\ OthersInHand(c)
  BY DEF BindingsInv
<1>3. row.session \in Sessions /\ ~Bound(row.session)' /\ OnlyUnbinds /\ thread[c].pc = "stale"
  BY <1>1, <1>2, SaveStaleUnbinds
<1> DEFINE r == [thread[c] EXCEPT !.stale = @ \ {row}]
<1>4. /\ r.op = thread[c].op /\ r.pc = thread[c].pc /\ r.session = thread[c].session
      /\ r.generation = thread[c].generation /\ r.stale = thread[c].stale \ {row}
  BY <1>2, CallerHas DEF ThreadCalls
<1>5. ThreadGoes(c, r)
  BY <1>1
<1> HIDE DEF r
<1>6. thread'[c] = r /\ \A d \in Callers : d # c => thread'[d] = thread[d]
  BY <1>2, <1>5, OneMoves, CallersAndDesks
<1>7. OthersInHand(c)'
  <2> SUFFICES ASSUME r.op = "bind", r.pc \in {"stale", "save"}, NEW x \in Sessions, x # r.session,
                      Bound(x)', binding'[x].generation = r.generation
               PROVE  \E z \in r.stale : z.session = x
    BY <1>6 DEF OthersInHand
  <2>1. Bound(x) /\ binding[x].generation = r.generation /\ x # row.session
    BY <1>3 DEF OnlyUnbinds
  <2>2. PICK z \in thread[c].stale : z.session = x
    BY <1>2, <1>4, <2>1 DEF OthersInHand
  <2> QED
    BY <1>4, <2>1, <2>2
<1>8. ASSUME NEW d \in Callers, d # c PROVE OthersInHand(d)'
  BY <1>3, <1>6, <1>8, InHandStays DEF BindingsInv
<1> QED
  BY <1>2, <1>3, <1>7, <1>8, OneBoundStays

\* ResetRealtimeSession leaves one interview bound, or the others in hand to be unbound.
LEMMA ResetRealtimeSessionBinds ==
  ASSUME BindingsInv, NEW c \in Callers, ResetRealtimeSession(c)
  PROVE  OneBound' /\ \A d \in Callers : OthersInHand(d)'
<1> DEFINE r == [thread[c] EXCEPT !.lost = {}, !.current = FALSE,
                               !.pc = IF thread[c].op = "bind" THEN "save" ELSE "invalidate"]
<1>1. PairingShapes /\ OneBound /\ OnlyUnbinds /\ UNCHANGED binding /\ thread[c].pc = "stale" /\ ThreadGoes(c, r)
  BY NothingBound DEF BindingsInv, ResetRealtimeSession
<1>2. /\ r.op = thread[c].op /\ r.session = thread[c].session /\ r.generation = thread[c].generation
      /\ r.stale = thread[c].stale
  <2>1. thread[c] \in ThreadCalls
    BY <1>1, CallerHas
  <2> DEFINE k == IF thread[c].op = "bind" THEN "save" ELSE "invalidate"
  <2>2. r = [thread[c] EXCEPT !.lost = {}, !.current = FALSE, !.pc = k]
    OBVIOUS
  <2> HIDE DEF k, r
  <2> QED
    BY <2>1, <2>2 DEF ThreadCalls
<1> HIDE DEF r
<1>3. thread'[c] = r /\ \A d \in Callers : d # c => thread'[d] = thread[d]
  BY <1>1, OneMoves, CallersAndDesks
<1>4. OthersInHand(c)'
  <2>1. OthersInHand(c) /\ \A x \in Sessions : Bound(x)' = Bound(x)
    BY <1>1 DEF BindingsInv, Bound
  <2>2. thread[c].op = "bind" => thread[c].pc \in {"stale", "save"}
    BY <1>1
  <2>3. /\ thread'[c].op = thread[c].op /\ thread'[c].session = thread[c].session
        /\ thread'[c].generation = thread[c].generation /\ thread'[c].stale = thread[c].stale
    BY <1>2, <1>3
  <2> QED
    BY <1>1, <2>1, <2>2, <2>3 DEF OthersInHand
<1>5. ASSUME NEW d \in Callers, d # c PROVE OthersInHand(d)'
  BY <1>1, <1>3, <1>5, InHandStays DEF BindingsInv
<1> QED
  BY <1>1, <1>4, <1>5, OneBoundStays

\* The one step that binds: by then no other session has the machine.
LEMMA SaveSessionDesktopBindingBinds ==
  ASSUME BindingsInv, BindsApart, NEW c \in Callers, SaveSessionDesktopBinding(c)
  PROVE  OneBound' /\ \A d \in Callers : OthersInHand(d)'
<1> DEFINE s == thread[c].session
           g == thread[c].generation
           r == [thread[c] EXCEPT !.pc = "invalidate"]
<1>1. /\ PairingShapes /\ OneBound /\ thread[c].op = "bind" /\ thread[c].pc = "save"
      /\ Save(s, g, TRUE) /\ ThreadGoes(c, r)
  BY DEF BindingsInv, SaveSessionDesktopBinding, ThreadAt, GoesOn
<1>2. s \in Sessions /\ g \in 1 .. generation /\ generation \in 1 .. MaxGeneration /\ thread[c].stale = {}
  BY <1>1, CallerHas DEF CallSound, MachineKnown
<1>3. g \in 1 .. MaxGeneration
  BY <1>2, PairingAssumption
<1>4. /\ binding'[s] = [generation |-> g, bound |-> TRUE]
      /\ \A x \in Sessions : x # s => binding'[x] = binding[x]
  BY <1>1, <1>2, <1>3, SavedRows
<1>5. r.pc = "invalidate"
  BY <1>1, CallerHas DEF ThreadCalls
<1>6. thread'[c] = r /\ \A d \in Callers : d # c => thread'[d] = thread[d]
  BY <1>1, OneMoves, CallersAndDesks
<1> HIDE DEF r
<1>7. ASSUME NEW x \in Sessions, x # s, Bound(x)' PROVE Bound(x) /\ binding'[x] = binding[x] /\ binding'[x].generation # g
  <2>1. Bound(x) /\ binding'[x] = binding[x]
    BY <1>4, <1>7 DEF Bound
  <2> QED
    BY <1>1, <1>2, <1>7, <2>1 DEF BindingsInv, OthersInHand
<1>8. OneBound'
  <2> SUFFICES ASSUME NEW x \in Sessions, NEW y \in Sessions, Bound(x)', Bound(y)',
                      binding'[x].generation = binding'[y].generation
               PROVE  x = y
    BY DEF OneBound
  <2>1. binding'[s].generation = g
    BY <1>4
  <2>2. CASE x = s \/ y = s
    BY <1>7, <2>1, <2>2
  <2>3. CASE x # s /\ y # s
    BY <1>1, <1>7, <2>3 DEF OneBound
  <2> QED
    BY <2>2, <2>3
<1>9. ASSUME NEW d \in Callers PROVE OthersInHand(d)'
  <2>1. CASE d = c
    BY <1>5, <1>6, <2>1 DEF OthersInHand
  <2>2. CASE d # c
    BY <1>1, <1>6, <2>2 DEF OthersInHand, BindsApart
  <2> QED
    BY <2>1, <2>2
<1> QED
  BY <1>8, <1>9

\* Every step keeps one interview bound, unless binds run together.
LEMMA BindingsKept ==
  ASSUME BindingsInv, BindsApart, [PairingNext]_pairingVars
  PROVE  BindingsInv'
<1> USE DEF BindingsInv
<1>0. PairingShapes'
  BY PairingShapesKept
<1> DEFINE Kept == OneBound' /\ \A c \in Callers : OthersInHand(c)'
<1>1. ASSUME NEW c \in Callers, NEW s \in Sessions, BindDesktopDevice(c, s)
      PROVE  Kept
  <2> DEFINE r == [Idle EXCEPT !.op = "bind", !.pc = "check", !.session = s]
  <2>1. ThreadGoes(c, r) /\ UNCHANGED binding /\ r.pc = "check"
    BY <1>1 DEF BindDesktopDevice, Idle
  <2> HIDE DEF r
  <2> QED
    BY <2>1, NothingInHand
<1>2. ASSUME NEW c \in Callers, NEW s \in Sessions, StartLiveSession(s, c)
      PROVE  Kept
  <2> DEFINE r == [Idle EXCEPT !.op = "start", !.pc = "invalidate"]
  <2>1. ThreadGoes(c, r) /\ UNCHANGED binding /\ r.pc = "invalidate"
    BY <1>2 DEF StartLiveSession, Idle
  <2> HIDE DEF r
  <2> QED
    BY <2>1, NothingInHand
<1>3. ASSUME NEW c \in Callers, NEW x \in Sessions, Ends(c, x)
      PROVE  Kept
  <2> DEFINE r == [Idle EXCEPT !.op = "end", !.pc = "find", !.session = x, !.lost = {x}]
  <2>1. ThreadGoes(c, r) /\ UNCHANGED binding /\ r.pc = "find"
    BY <1>3 DEF Ends, Idle
  <2> HIDE DEF r
  <2> QED
    BY <2>1, NothingInHand
<1>4. ASSUME NEW c \in Callers, RegisterDesktopDevice(c)
      PROVE  Kept
  <2> DEFINE r == [Idle EXCEPT !.op = "register", !.pc = "invalidate"]
  <2>1. ThreadGoes(c, r) /\ UNCHANGED binding /\ r.pc = "invalidate"
    BY <1>4 DEF RegisterDesktopDevice, Idle
  <2> HIDE DEF r
  <2> QED
    BY <2>1, NothingInHand
<1>5. ASSUME NEW c \in Callers, CheckDevice(c)
      PROVE  Kept
  <2>1. UNCHANGED binding /\ \/ ThreadGoes(c, Idle)
                             \/ ThreadGoes(c, [thread[c] EXCEPT !.generation = generation, !.pc = "list"])
    BY <1>5 DEF CheckDevice, Returns, rows
  <2>2. CASE ThreadGoes(c, Idle)
    BY <2>1, <2>2, NothingInHand, IdleIsACall
  <2>3. CASE ThreadGoes(c, [thread[c] EXCEPT !.generation = generation, !.pc = "list"])
    <3> DEFINE r == [thread[c] EXCEPT !.generation = generation, !.pc = "list"]
    <3>1. r.pc = "list"
      BY CallerHas DEF ThreadCalls
    <3> HIDE DEF r
    <3> QED
      BY <2>1, <2>3, <3>1, NothingInHand DEF r
  <2> QED
    BY <2>1, <2>2, <2>3
<1>6. ASSUME NEW c \in Callers, FindBinding(c)
      PROVE  Kept
  <2>1. PICK z : UNCHANGED binding /\ thread[c].op = "end"
                 /\ ThreadGoes(c, [thread[c] EXCEPT !.stale = z, !.pc = "stale"])
    BY <1>6 DEF FindBinding, ThreadAt, rows
  <2> DEFINE r == [thread[c] EXCEPT !.stale = z, !.pc = "stale"]
  <2>2. r.op = "end"
    BY <2>1, CallerHas DEF ThreadCalls
  <2> HIDE DEF r
  <2> QED
    BY <2>1, <2>2, NothingInHand DEF r
<1>7. ASSUME NEW c \in Callers, InvalidateControlQueryCache(c)
      PROVE  Kept
  <2>1. thread'[c] = Idle /\ \A d \in Callers : d # c => thread'[d] = thread[d]
    BY <1>7, InvalidateControlQueryCacheMoves
  <2>2. OnlyUnbinds
    BY <1>7, NothingBound DEF InvalidateControlQueryCache, rows
  <2>3. OthersInHand(c)'
    BY <2>1, IdleIsACall DEF OthersInHand
  <2> QED
    BY <2>1, <2>2, <2>3, OneBoundStays, InHandStays
<1>8. ASSUME UNCHANGED binding, \A c \in Callers : thread'[c] = thread[c]
      PROVE  Kept
  BY <1>8, NothingBound, OneBoundStays, InHandStays
<1>9. ASSUME NEW d \in Desks, DeskStep(d)
      PROVE  UNCHANGED binding /\ \A c \in Callers : thread'[c] = thread[c]
  <2>1. UNCHANGED binding /\ \E r : ThreadGoes(d, r)
    BY <1>9 DEF DeskStep, GetDesktopPairingStatus, PollReadsBinding, KeepAnswer, Returns, rows
  <2> QED
    BY <2>1, OneMoves, CallersAndDesks
<1>10. ASSUME Heartbeat \/ Lapse \/ UNCHANGED pairingVars
       PROVE  UNCHANGED binding /\ \A c \in Callers : thread'[c] = thread[c]
  BY <1>10 DEF Heartbeat, Lapse, pairingVars
<1>11. ASSUME NEW c \in Callers, NEW s \in Sessions,
              TerminateSession(c, s) \/ SupersedeActiveInterviews(c, s)
       PROVE  Kept
  BY <1>11, <1>3 DEF TerminateSession, SupersedeActiveInterviews, LiveElsewhere
<1>12. ASSUME NEW c \in Callers, CallerStep(c)
       PROVE  Kept
  BY <1>5, <1>6, <1>7, <1>12, ListPreviousBinds, SaveStaleBinds, ResetRealtimeSessionBinds,
     SaveSessionDesktopBindingBinds DEF CallerStep
<1> HIDE DEF Kept, BindingsInv
<1>13. Kept
  BY <1>1, <1>2, <1>4, <1>8, <1>9, <1>10, <1>11, <1>12 DEF PairingNext, Request
<1> QED
  BY <1>0, <1>13 DEF BindingsInv, Kept

(* One companion serves one interview: if the binds do not overlap, then   *)
(* whoever takes over, ends or registers, and however their steps mix with *)
(* those of the bind, at most one session is bound to the machine.         *)
THEOREM OneInterviewBound == PairingSpec /\ []BindsApart => []OneActiveBinding
<1>1. PairingInit => BindingsInv
  <2> SUFFICES ASSUME PairingInit PROVE BindingsInv
    OBVIOUS
  <2>1. OneBound
    BY DEF PairingInit, OneBound, Bound
  <2>2. ASSUME NEW c \in Callers PROVE OthersInHand(c)
    BY IdleIsACall DEF PairingInit, OthersInHand
  <2> QED
    BY <2>1, <2>2, PairingInitial DEF BindingsInv
<1>2. BindingsInv => OneActiveBinding
  BY DEF BindingsInv, OneBound, OneActiveBinding, Active
<1> QED
  BY <1>1, <1>2, BindingsKept, PTL DEF PairingSpec

-----------------------------------------------------------------------------
(* The audio that is dropped                                               *)

\* A step that takes no session back to life.
EndedStays == \A x \in Sessions : status[x] = "ended" => status'[x] = "ended"

OpensNothing == \A x \in Sessions : Open(x)' => Open(x)

\* A step that leaves the status alone opens no interview.
LEMMA NothingOpened == ASSUME UNCHANGED status PROVE EndedStays /\ OpensNothing
BY DEF EndedStays, OpensNothing, Open

\* What an ending interview holds to be unbound stays right when others only unbind.
LEMMA DropsStay ==
  ASSUME PairingShapes, NEW c \in Callers, DropsInHand(c), OnlyUnbinds, EndedStays,
         thread'[c] = thread[c]
  PROVE  DropsInHand(c)'
<1>1. thread[c] \in ThreadCalls /\ (thread[c].op \in {"bind", "end"} => thread[c].session \in Sessions)
  BY CallerHas
<1>2. thread[c].lost \subseteq Sessions
  BY <1>1 DEF ThreadCalls
<1>3. ASSUME thread[c].op = "end"
      PROVE  status'[thread[c].session] = "ended" /\ thread[c].lost \subseteq {thread[c].session}
  BY <1>1, <1>3 DEF DropsInHand, EndedStays
<1>4. ASSUME thread[c].op = "bind", NEW x \in thread[c].lost, Bound(x)'
      PROVE  \E row \in thread[c].stale : row.session = x
  BY <1>2, <1>4 DEF DropsInHand, OnlyUnbinds
<1> QED
  BY <1>3, <1>4 DEF DropsInHand

\* A call that neither binds nor ends leaves the dropped audio alone.
LEMMA NothingDropped ==
  ASSUME HeardInv, NEW c \in Callers, NEW r, ThreadGoes(c, r), UNCHANGED <<binding, retired>>,
         EndedStays, OpensNothing, r.lost = {}, r.op \notin {"bind", "end"}
  PROVE  DroppedIsUnbound' /\ \A d \in Callers : DropsInHand(d)'
<1>1. PairingShapes /\ DroppedIsUnbound /\ OnlyUnbinds
  BY NothingBound DEF HeardInv
<1>2. thread'[c] = r /\ \A d \in Callers : d # c => thread'[d] = thread[d]
  BY <1>1, OneMoves, CallersAndDesks
<1>3. DropsInHand(c)'
  BY <1>2 DEF DropsInHand
<1>4. ASSUME NEW d \in Callers, d # c PROVE DropsInHand(d)'
  BY <1>1, <1>2, <1>4, DropsStay DEF HeardInv
<1>5. DroppedIsUnbound'
  <2> SUFFICES ASSUME NEW s \in retired, Open(s)'
               PROVE  ~Bound(s)' /\ \A d \in Callers : thread'[d].op = "bind" => thread'[d].session # s
    BY DEF DroppedIsUnbound
  <2>1. s \in Sessions /\ Open(s)
    BY <1>1 DEF PairingShapes, PairingTables, PairingTypeOK, OpensNothing
  <2>2. ~Bound(s) /\ \A d \in Callers : thread[d].op = "bind" => thread[d].session # s
    BY <1>1, <2>1 DEF DroppedIsUnbound
  <2> QED
    BY <1>2, <2>2 DEF Bound
<1> QED
  BY <1>3, <1>4, <1>5

\* BindDesktopDevice leaves an interview that is over unbound, or in hand to be unbound.
LEMMA BindDesktopDeviceDrops ==
  ASSUME HeardInv, NEW c \in Callers, NEW s \in Sessions, BindDesktopDevice(c, s)
  PROVE  DroppedIsUnbound' /\ \A d \in Callers : DropsInHand(d)'
<1> DEFINE r == [Idle EXCEPT !.op = "bind", !.pc = "check", !.session = s]
<1>1. /\ PairingShapes /\ DroppedIsUnbound /\ OnlyUnbinds /\ EndedStays /\ ThreadGoes(c, r)
      /\ retired' = retired \ {s} /\ UNCHANGED <<binding, status>>
  BY NothingBound, NothingOpened DEF HeardInv, BindDesktopDevice
<1>2. r.op = "bind" /\ r.session = s /\ r.lost = {}
  BY DEF Idle
<1> HIDE DEF r
<1>3. thread'[c] = r /\ \A d \in Callers : d # c => thread'[d] = thread[d]
  BY <1>1, OneMoves, CallersAndDesks
<1>4. DropsInHand(c)'
  BY <1>2, <1>3 DEF DropsInHand
<1>5. ASSUME NEW d \in Callers, d # c PROVE DropsInHand(d)'
  BY <1>1, <1>3, <1>5, DropsStay DEF HeardInv
<1>6. DroppedIsUnbound'
  BY <1>1, <1>2, <1>3 DEF DroppedIsUnbound, Bound, Open
<1> QED
  BY <1>4, <1>5, <1>6

\* Ends leaves an interview that is over unbound, or in hand to be unbound.
LEMMA EndsDrops ==
  ASSUME HeardInv, NEW c \in Callers, NEW x \in Sessions, Ends(c, x)
  PROVE  DroppedIsUnbound' /\ \A d \in Callers : DropsInHand(d)'
<1> DEFINE r == [Idle EXCEPT !.op = "end", !.pc = "find", !.session = x, !.lost = {x}]
<1>1. /\ PairingShapes /\ DroppedIsUnbound /\ OnlyUnbinds /\ ThreadGoes(c, r)
      /\ status' = [status EXCEPT ![x] = "ended"] /\ UNCHANGED <<binding, retired>>
  BY NothingBound DEF HeardInv, Ends
<1>2. r.op = "end" /\ r.session = x /\ r.lost = {x}
  BY DEF Idle
<1> HIDE DEF r
<1>3. thread'[c] = r /\ \A d \in Callers : d # c => thread'[d] = thread[d]
  BY <1>1, OneMoves, CallersAndDesks
<1>4. status \in [Sessions -> {"preparing", "live", "ended"}] /\ retired \subseteq Sessions
  BY <1>1 DEF PairingShapes, PairingTables, PairingTypeOK
<1>5. status'[x] = "ended" /\ EndedStays /\ OpensNothing
  BY <1>1, <1>4 DEF EndedStays, OpensNothing, Open
<1>6. DropsInHand(c)'
  BY <1>2, <1>3, <1>5 DEF DropsInHand
<1>7. ASSUME NEW d \in Callers, d # c PROVE DropsInHand(d)'
  BY <1>1, <1>3, <1>5, <1>7, DropsStay DEF HeardInv
<1>8. DroppedIsUnbound'
  BY <1>1, <1>2, <1>3, <1>4, <1>5 DEF DroppedIsUnbound, Bound, OpensNothing
<1> QED
  BY <1>6, <1>7, <1>8

\* StartLiveSession leaves an interview that is over unbound, or in hand to be unbound.
LEMMA StartLiveSessionDrops ==
  ASSUME HeardInv, NEW c \in Callers, NEW s \in Sessions, StartLiveSession(s, c)
  PROVE  DroppedIsUnbound' /\ \A d \in Callers : DropsInHand(d)'
<1> DEFINE r == [Idle EXCEPT !.op = "start", !.pc = "invalidate"]
<1>1. /\ PairingShapes /\ ThreadGoes(c, r) /\ status[s] = "preparing"
      /\ status' = [status EXCEPT ![s] = "live"] /\ UNCHANGED <<binding, retired>>
  BY DEF HeardInv, StartLiveSession
<1>2. r.op = "start" /\ r.lost = {}
  BY DEF Idle
<1> HIDE DEF r
<1>3. status \in [Sessions -> {"preparing", "live", "ended"}]
  BY <1>1 DEF PairingShapes, PairingTables, PairingTypeOK
<1>4. EndedStays /\ OpensNothing
  BY <1>1, <1>3 DEF EndedStays, OpensNothing, Open
<1> QED
  BY <1>1, <1>2, <1>4, NothingDropped

\* CheckDevice leaves an interview that is over unbound, or in hand to be unbound.
LEMMA CheckDeviceDrops ==
  ASSUME HeardInv, NEW c \in Callers, CheckDevice(c)
  PROVE  DroppedIsUnbound' /\ \A d \in Callers : DropsInHand(d)'
<1>1. /\ PairingShapes /\ DroppedIsUnbound /\ thread[c].op = "bind"
      /\ UNCHANGED <<binding, retired, status>>
      /\ \/ ThreadGoes(c, Idle)
         \/ ThreadGoes(c, [thread[c] EXCEPT !.generation = generation, !.pc = "list"])
  BY DEF HeardInv, CheckDevice, ThreadAt, Returns, rows
<1>2. OnlyUnbinds /\ EndedStays
  BY <1>1, NothingBound, NothingOpened
<1>3. PICK r : /\ ThreadGoes(c, r) /\ r.op \in {"none", "bind"}
               /\ r.op = "bind" => r.session = thread[c].session /\ r.lost = thread[c].lost
                                   /\ r.stale = thread[c].stale
  <2>1. Idle.op = "none"
    BY DEF Idle
  <2> DEFINE r == [thread[c] EXCEPT !.generation = generation, !.pc = "list"]
  <2>2. /\ r.op = "bind" /\ r.session = thread[c].session /\ r.lost = thread[c].lost
        /\ r.stale = thread[c].stale
    BY <1>1, CallerHas DEF ThreadCalls
  <2> HIDE DEF r
  <2> QED
    BY <1>1, <2>1, <2>2 DEF r
<1>4. thread'[c] = r /\ \A d \in Callers : d # c => thread'[d] = thread[d]
  BY <1>1, <1>3, OneMoves, CallersAndDesks
<1>5. DropsInHand(c)'
  BY <1>1, <1>3, <1>4 DEF DropsInHand, HeardInv, Bound
<1>6. ASSUME NEW d \in Callers, d # c PROVE DropsInHand(d)'
  BY <1>1, <1>2, <1>4, <1>6, DropsStay DEF HeardInv
<1>7. DroppedIsUnbound'
  BY <1>1, <1>3, <1>4 DEF DroppedIsUnbound, Bound, Open
<1> QED
  BY <1>5, <1>6, <1>7

\* ListPrevious leaves an interview that is over unbound, or in hand to be unbound.
LEMMA ListPreviousDrops ==
  ASSUME HeardInv, NEW c \in Callers, ListPrevious(c)
  PROVE  DroppedIsUnbound' /\ \A d \in Callers : DropsInHand(d)'
<1> DEFINE s == thread[c].session
           previous == {x \in Sessions : Bound(x) /\ (owner[x] = owner[s]
                                         \/ binding[x].generation = thread[c].generation)}
           r == [thread[c] EXCEPT !.stale = {Row(x) : x \in previous \ {s}}, !.lost = previous \ {s},
                               !.current = s \in previous, !.pc = "stale"]
<1>1. /\ PairingShapes /\ DroppedIsUnbound /\ thread[c].op = "bind" /\ ThreadGoes(c, r)
      /\ UNCHANGED <<binding, retired, status>>
  BY DEF HeardInv, ListPrevious, ThreadAt, rows
<1>2. OnlyUnbinds /\ EndedStays
  BY <1>1, NothingBound, NothingOpened
<1>3. /\ r.op = "bind" /\ r.session = s /\ r.lost = previous \ {s}
      /\ r.stale = {Row(x) : x \in previous \ {s}}
  BY <1>1, CallerHas DEF ThreadCalls
<1>4. s \notin r.lost /\ \A x \in r.lost : \E row \in r.stale : row.session = x
  <2>1. \A x \in previous \ {s} : Row(x).session = x
    BY DEF Row
  <2> HIDE DEF previous, r
  <2> QED
    BY <1>3, <2>1
<1> HIDE DEF r
<1>5. thread'[c] = r /\ \A d \in Callers : d # c => thread'[d] = thread[d]
  BY <1>1, OneMoves, CallersAndDesks
<1>6. DropsInHand(c)'
  BY <1>3, <1>4, <1>5 DEF DropsInHand
<1>7. ASSUME NEW d \in Callers, d # c PROVE DropsInHand(d)'
  BY <1>1, <1>2, <1>5, <1>7, DropsStay DEF HeardInv
<1>8. DroppedIsUnbound'
  BY <1>1, <1>3, <1>5 DEF DroppedIsUnbound, Bound, Open
<1> QED
  BY <1>6, <1>7, <1>8

\* SaveStale leaves an interview that is over unbound, or in hand to be unbound.
LEMMA SaveStaleDrops ==
  ASSUME HeardInv, NEW c \in Callers, SaveStale(c)
  PROVE  DroppedIsUnbound' /\ \A d \in Callers : DropsInHand(d)'
<1>1. PICK row \in thread[c].stale :
        Save(row.session, row.generation, FALSE) /\ ThreadGoes(c, [thread[c] EXCEPT !.stale = @ \ {row}])
        /\ UNCHANGED <<status, retired>>
  BY DEF SaveStale
<1>2. PairingShapes /\ DroppedIsUnbound /\ DropsInHand(c) /\ EndedStays
  BY <1>1, NothingOpened DEF HeardInv
<1>3. row.session \in Sessions /\ ~Bound(row.session)' /\ OnlyUnbinds
  BY <1>1, <1>2, SaveStaleUnbinds
<1> DEFINE r == [thread[c] EXCEPT !.stale = @ \ {row}]
<1>4. /\ r.op = thread[c].op /\ r.session = thread[c].session /\ r.lost = thread[c].lost
      /\ r.stale = thread[c].stale \ {row}
  BY <1>2, CallerHas DEF ThreadCalls
<1>5. ThreadGoes(c, r)
  BY <1>1
<1> HIDE DEF r
<1>6. thread'[c] = r /\ \A d \in Callers : d # c => thread'[d] = thread[d]
  BY <1>2, <1>5, OneMoves, CallersAndDesks
<1>7. DropsInHand(c)'
  <2>1. thread[c].lost \subseteq Sessions
    BY <1>2, CallerHas DEF ThreadCalls
  <2>2. ASSUME r.op = "bind", NEW x \in r.lost, Bound(x)'
        PROVE  \E z \in r.stale : z.session = x
    <3>1. x \in Sessions /\ Bound(x) /\ x # row.session
      BY <1>3, <1>4, <2>1, <2>2 DEF OnlyUnbinds
    <3>2. PICK z \in thread[c].stale : z.session = x
      BY <1>2, <1>4, <2>2, <3>1 DEF DropsInHand
    <3> QED
      BY <1>4, <3>1, <3>2
  <2> QED
    BY <1>1, <1>2, <1>4, <1>6, <2>2 DEF DropsInHand
<1>8. ASSUME NEW d \in Callers, d # c PROVE DropsInHand(d)'
  BY <1>2, <1>3, <1>6, <1>8, DropsStay DEF HeardInv
<1>9. DroppedIsUnbound'
  <2> SUFFICES ASSUME NEW x \in retired, Open(x)
               PROVE  ~Bound(x)' /\ \A d \in Callers : thread'[d].op = "bind" => thread'[d].session # x
    BY <1>1 DEF DroppedIsUnbound, Open
  <2>1. x \in Sessions
    BY <1>2 DEF PairingShapes, PairingTables, PairingTypeOK
  <2> QED
    BY <1>2, <1>3, <1>4, <1>6, <2>1 DEF DroppedIsUnbound, OnlyUnbinds
<1> QED
  BY <1>7, <1>8, <1>9

\* What is dropped now is of a session that ended, or that lost its binding
\* to the one that is being bound.
LEMMA ResetRealtimeSessionDrops ==
  ASSUME HeardInv, BindsApart, NEW c \in Callers, ResetRealtimeSession(c)
  PROVE  DroppedIsUnbound' /\ \A d \in Callers : DropsInHand(d)'
<1> DEFINE r == [thread[c] EXCEPT !.lost = {}, !.current = FALSE,
                               !.pc = IF thread[c].op = "bind" THEN "save" ELSE "invalidate"]
<1>1. /\ PairingShapes /\ DroppedIsUnbound /\ DropsInHand(c) /\ ThreadGoes(c, r)
      /\ thread[c].pc = "stale" /\ thread[c].stale = {}
      /\ retired' \subseteq retired \cup thread[c].lost /\ UNCHANGED <<binding, status>>
  BY DEF HeardInv, ResetRealtimeSession
<1>2. OnlyUnbinds /\ EndedStays
  BY <1>1, NothingBound, NothingOpened
<1>3. r.op = thread[c].op /\ r.session = thread[c].session /\ r.lost = {}
  BY <1>1, CallerHas DEF ThreadCalls
<1> HIDE DEF r
<1>4. thread'[c] = r /\ \A d \in Callers : d # c => thread'[d] = thread[d]
  BY <1>1, OneMoves, CallersAndDesks
<1>5. thread[c].op \in {"bind", "end"}
  BY <1>1, CallerHas DEF CallSound, Idle
<1>6. DropsInHand(c)'
  BY <1>1, <1>3, <1>4 DEF DropsInHand
<1>7. ASSUME NEW d \in Callers, d # c PROVE DropsInHand(d)'
  BY <1>1, <1>2, <1>4, <1>7, DropsStay DEF HeardInv
<1>8. ASSUME NEW x \in thread[c].lost, Open(x)
      PROVE  ~Bound(x) /\ \A d \in Callers : thread[d].op = "bind" => thread[d].session # x
  <2>1. CASE thread[c].op = "end"
    BY <1>1, <1>8, <2>1 DEF DropsInHand, Open
  <2>2. CASE thread[c].op = "bind"
    BY <1>1, <1>8, <2>2 DEF DropsInHand, BindsApart
  <2> QED
    BY <1>5, <2>1, <2>2
<1>9. DroppedIsUnbound'
  <2> SUFFICES ASSUME NEW x \in retired \cup thread[c].lost, Open(x)
               PROVE  ~Bound(x) /\ \A d \in Callers : thread'[d].op = "bind" => thread'[d].session # x
    BY <1>1 DEF DroppedIsUnbound, Open, Bound
  <2>1. ~Bound(x) /\ \A d \in Callers : thread[d].op = "bind" => thread[d].session # x
    BY <1>1, <1>8 DEF DroppedIsUnbound
  <2> QED
    BY <1>3, <1>4, <2>1
<1> QED
  BY <1>6, <1>7, <1>9

\* SaveSessionDesktopBinding leaves an interview that is over unbound, or in hand to be unbound.
LEMMA SaveSessionDesktopBindingDrops ==
  ASSUME HeardInv, BindsApart, NEW c \in Callers, SaveSessionDesktopBinding(c)
  PROVE  DroppedIsUnbound' /\ \A d \in Callers : DropsInHand(d)'
<1> DEFINE s == thread[c].session
           g == thread[c].generation
           r == [thread[c] EXCEPT !.pc = "invalidate"]
<1>1. /\ PairingShapes /\ DroppedIsUnbound /\ DropsInHand(c) /\ thread[c].op = "bind"
      /\ thread[c].pc = "save" /\ Save(s, g, TRUE) /\ ThreadGoes(c, r) /\ UNCHANGED <<status, retired>>
  BY DEF HeardInv, SaveSessionDesktopBinding, ThreadAt, GoesOn
<1>2. s \in Sessions /\ g \in 1 .. generation /\ generation \in 1 .. MaxGeneration /\ thread[c].stale = {}
  BY <1>1, CallerHas DEF CallSound, MachineKnown
<1>3. g \in 1 .. MaxGeneration
  BY <1>2, PairingAssumption
<1>4. \A x \in Sessions : x # s => binding'[x] = binding[x]
  BY <1>1, <1>2, <1>3, SavedRows
<1>5. /\ r.op = "bind" /\ r.session = s /\ r.lost = thread[c].lost /\ r.stale = {}
      /\ thread[c].lost \subseteq Sessions
  BY <1>1, <1>2, CallerHas DEF ThreadCalls
<1> HIDE DEF r
<1>6. thread'[c] = r /\ \A d \in Callers : d # c => thread'[d] = thread[d]
  BY <1>1, OneMoves, CallersAndDesks
<1>7. DropsInHand(c)'
  <2>1. ASSUME NEW x \in r.lost PROVE ~Bound(x)'
    <3>1. x # s /\ ~Bound(x) /\ x \in Sessions
      BY <1>1, <1>2, <1>5, <2>1 DEF DropsInHand
    <3> QED
      BY <1>4, <3>1 DEF Bound
  <2> QED
    BY <1>1, <1>5, <1>6, <2>1 DEF DropsInHand
<1>8. ASSUME NEW d \in Callers, d # c PROVE DropsInHand(d)'
  <2>1. thread'[d] = thread[d] /\ thread[d].op # "bind" /\ DropsInHand(d)
    BY <1>1, <1>6, <1>8 DEF BindsApart, HeardInv
  <2> QED
    BY <1>1, <2>1 DEF DropsInHand
<1>9. DroppedIsUnbound'
  <2> SUFFICES ASSUME NEW x \in retired, Open(x)
               PROVE  ~Bound(x)' /\ \A d \in Callers : thread'[d].op = "bind" => thread'[d].session # x
    BY <1>1 DEF DroppedIsUnbound, Open
  <2>1. ~Bound(x) /\ \A d \in Callers : thread[d].op = "bind" => thread[d].session # x
    BY <1>1 DEF DroppedIsUnbound
  <2>2. x \in Sessions /\ x # s
    BY <1>1, <2>1 DEF PairingShapes, PairingTables, PairingTypeOK
  <2> QED
    BY <1>1, <1>4, <1>5, <1>6, <2>1, <2>2 DEF Bound
<1> QED
  BY <1>7, <1>8, <1>9

\* FindBinding leaves an interview that is over unbound, or in hand to be unbound.
LEMMA FindBindingDrops ==
  ASSUME HeardInv, NEW c \in Callers, FindBinding(c)
  PROVE  DroppedIsUnbound' /\ \A d \in Callers : DropsInHand(d)'
<1>1. PICK z : /\ UNCHANGED <<binding, retired, status>> /\ thread[c].op = "end"
               /\ ThreadGoes(c, [thread[c] EXCEPT !.stale = z, !.pc = "stale"])
  BY DEF FindBinding, ThreadAt, rows
<1>2. PairingShapes /\ DroppedIsUnbound /\ DropsInHand(c) /\ OnlyUnbinds /\ EndedStays
  BY <1>1, NothingBound, NothingOpened DEF HeardInv
<1> DEFINE r == [thread[c] EXCEPT !.stale = z, !.pc = "stale"]
<1>3. r.op = "end" /\ r.session = thread[c].session /\ r.lost = thread[c].lost
  BY <1>1, <1>2, CallerHas DEF ThreadCalls
<1>4. ThreadGoes(c, r)
  BY <1>1
<1> HIDE DEF r
<1>5. thread'[c] = r /\ \A d \in Callers : d # c => thread'[d] = thread[d]
  BY <1>2, <1>4, OneMoves, CallersAndDesks
<1>6. DropsInHand(c)'
  BY <1>1, <1>2, <1>3, <1>5 DEF DropsInHand
<1>7. ASSUME NEW d \in Callers, d # c PROVE DropsInHand(d)'
  BY <1>2, <1>5, <1>7, DropsStay DEF HeardInv
<1>8. DroppedIsUnbound'
  BY <1>1, <1>2, <1>3, <1>5 DEF DroppedIsUnbound, Bound, Open
<1> QED
  BY <1>6, <1>7, <1>8

\* Every step keeps the binding of an interview that is heard, unless binds run together.
LEMMA HeardKept ==
  ASSUME HeardInv, BindsApart, [PairingNext]_pairingVars
  PROVE  HeardInv'
<1>1. PairingShapes /\ DroppedIsUnbound /\ (\A c \in Callers : DropsInHand(c)) /\ PairingShapes'
  BY PairingShapesKept DEF HeardInv
<1> DEFINE Kept == DroppedIsUnbound' /\ \A c \in Callers : DropsInHand(c)'
<1>2. ASSUME NEW c \in Callers, RegisterDesktopDevice(c)
      PROVE  Kept
  <2> DEFINE r == [Idle EXCEPT !.op = "register", !.pc = "invalidate"]
  <2>1. ThreadGoes(c, r) /\ UNCHANGED <<binding, retired>> /\ EndedStays /\ OpensNothing
        /\ r.op = "register" /\ r.lost = {}
    BY <1>2, NothingOpened DEF RegisterDesktopDevice, Idle
  <2> HIDE DEF r
  <2> QED
    BY <2>1, NothingDropped
<1>3. ASSUME NEW c \in Callers, InvalidateControlQueryCache(c)
      PROVE  Kept
  <2>1. thread'[c] = Idle /\ \A d \in Callers : d # c => thread'[d] = thread[d]
    BY <1>1, <1>3, InvalidateControlQueryCacheMoves
  <2>2. UNCHANGED <<binding, retired, status>>
    BY <1>3 DEF InvalidateControlQueryCache, rows
  <2>3. OnlyUnbinds /\ EndedStays /\ Idle.op = "none"
    BY <2>2, NothingBound, NothingOpened DEF Idle
  <2>4. DropsInHand(c)'
    BY <2>1, <2>3 DEF DropsInHand
  <2>5. DroppedIsUnbound'
    BY <1>1, <2>1, <2>2, <2>3 DEF DroppedIsUnbound, Bound, Open
  <2> QED
    BY <1>1, <2>1, <2>3, <2>4, <2>5, DropsStay
<1>4. ASSUME UNCHANGED <<binding, retired, status>>, \A c \in Callers : thread'[c] = thread[c]
      PROVE  Kept
  <2>1. OnlyUnbinds /\ EndedStays
    BY <1>4, NothingBound, NothingOpened
  <2>2. DroppedIsUnbound'
    BY <1>1, <1>4 DEF DroppedIsUnbound, Bound, Open
  <2> QED
    BY <1>1, <1>4, <2>1, <2>2, DropsStay
<1>5. ASSUME NEW d \in Desks, DeskStep(d)
      PROVE  UNCHANGED <<binding, retired, status>> /\ \A c \in Callers : thread'[c] = thread[c]
  <2>1. UNCHANGED <<binding, retired, status>> /\ \E r : ThreadGoes(d, r)
    BY <1>5 DEF DeskStep, GetDesktopPairingStatus, PollReadsBinding, KeepAnswer, Returns, rows
  <2> QED
    BY <1>1, <2>1, OneMoves, CallersAndDesks
<1>6. ASSUME Heartbeat \/ Lapse \/ UNCHANGED pairingVars
      PROVE  UNCHANGED <<binding, retired, status>> /\ \A c \in Callers : thread'[c] = thread[c]
  BY <1>6 DEF Heartbeat, Lapse, pairingVars
<1>7. ASSUME NEW c \in Callers, NEW s \in Sessions,
             TerminateSession(c, s) \/ SupersedeActiveInterviews(c, s)
      PROVE  Kept
  BY <1>7, EndsDrops DEF TerminateSession, SupersedeActiveInterviews, LiveElsewhere
<1>8. ASSUME NEW c \in Callers, CallerStep(c)
      PROVE  Kept
  BY <1>3, <1>8, CheckDeviceDrops, ListPreviousDrops, SaveStaleDrops, ResetRealtimeSessionDrops,
     SaveSessionDesktopBindingDrops, FindBindingDrops DEF CallerStep
<1>9. ASSUME NEW c \in Callers, NEW s \in Sessions,
             BindDesktopDevice(c, s) \/ StartLiveSession(s, c)
      PROVE  Kept
  BY <1>9, BindDesktopDeviceDrops, StartLiveSessionDrops
<1> HIDE DEF Kept
<1>10. Kept
  BY <1>2, <1>4, <1>5, <1>6, <1>7, <1>8, <1>9 DEF PairingNext, Request
<1> QED
  BY <1>1, <1>10 DEF HeardInv, Kept

(* The audio of the interview that a companion serves is not dropped: the  *)
(* calls that drop the audio of the sessions they unbind or end never drop *)
(* that of a session bound since, if the binds do not overlap.             *)
THEOREM BoundAudioIsHeard == PairingSpec /\ []BindsApart => []BoundIsHeard
<1>1. PairingInit => HeardInv
  <2> SUFFICES ASSUME PairingInit PROVE HeardInv
    OBVIOUS
  <2>1. DroppedIsUnbound
    BY DEF PairingInit, DroppedIsUnbound
  <2>2. ASSUME NEW c \in Callers PROVE DropsInHand(c)
    <3>1. thread[c] = Idle /\ Idle.op = "none"
      BY DEF PairingInit, Idle
    <3> QED
      BY <3>1 DEF DropsInHand
  <2> QED
    BY <2>1, <2>2, PairingInitial DEF HeardInv
<1>2. HeardInv => BoundIsHeard
  BY DEF HeardInv, DroppedIsUnbound, BoundIsHeard, Active
<1> QED
  BY <1>1, <1>2, HeardKept, PTL DEF PairingSpec

-----------------------------------------------------------------------------
(* The answers that are kept                                               *)

\* A caller past its check with a call in hand is altering what polls read.
LEMMA AlteringStays ==
  ASSUME NEW c \in Callers, thread'[c].op # "none", thread'[c].pc # "check"
  PROVE  Altering'
BY DEF Altering, Alters, ThreadAt

\* A call that has begun to change something goes on, until it drops the answers.
LEMMA CallerAlters ==
  ASSUME PairingShapes, NEW c \in Callers,
         \/ ListPrevious(c) \/ SaveStale(c) \/ ResetRealtimeSession(c)
         \/ SaveSessionDesktopBinding(c) \/ FindBinding(c)
         \/ RegisterDesktopDevice(c)
         \/ \E s \in Sessions : StartLiveSession(s, c) \/ Ends(c, s)
  PROVE  Altering'
<1>1. c \in Threads /\ thread[c] \in ThreadCalls /\ CallSound(thread[c])
  BY CallerHas, CallersAndDesks
<1>2. ASSUME NEW r, ThreadGoes(c, r), r.op # "none", r.pc # "check"
      PROVE  Altering'
  BY <1>1, <1>2, OneMoves, AlteringStays
<1>3. CASE ListPrevious(c)
  <2>1. PICK y, z, b : /\ thread[c].op = "bind"
                       /\ ThreadGoes(c, [thread[c] EXCEPT !.stale = y, !.lost = z, !.current = b, !.pc = "stale"])
    BY <1>3 DEF ListPrevious, ThreadAt
  <2> DEFINE r == [thread[c] EXCEPT !.stale = y, !.lost = z, !.current = b, !.pc = "stale"]
  <2>2. r.op = "bind" /\ r.pc = "stale"
    BY <1>1, <2>1 DEF ThreadCalls
  <2> HIDE DEF r
  <2> QED
    BY <1>2, <2>1, <2>2 DEF r
<1>4. CASE SaveStale(c)
  <2>1. PICK row \in thread[c].stale : ThreadGoes(c, [thread[c] EXCEPT !.stale = @ \ {row}])
    BY <1>4 DEF SaveStale
  <2> DEFINE r == [thread[c] EXCEPT !.stale = @ \ {row}]
  <2>2. r.op = thread[c].op /\ r.pc = "stale"
    BY <1>1, <2>1 DEF ThreadCalls, CallSound
  <2>3. thread[c].op # "none"
    BY <1>1, <2>1 DEF CallSound, Idle
  <2>4. ThreadGoes(c, r)
    BY <2>1
  <2> HIDE DEF r
  <2> QED
    BY <1>2, <2>2, <2>3, <2>4
<1>5. CASE ResetRealtimeSession(c)
  <2> DEFINE r == [thread[c] EXCEPT !.lost = {}, !.current = FALSE,
                               !.pc = IF thread[c].op = "bind" THEN "save" ELSE "invalidate"]
  <2>1. ThreadGoes(c, r) /\ thread[c].pc = "stale"
    BY <1>5 DEF ResetRealtimeSession
  <2>2. r.op = thread[c].op /\ r.pc # "check"
    BY <1>1 DEF ThreadCalls
  <2>3. thread[c].op # "none"
    BY <1>1, <2>1 DEF CallSound, Idle
  <2> HIDE DEF r
  <2> QED
    BY <1>2, <2>1, <2>2, <2>3
<1>6. CASE SaveSessionDesktopBinding(c)
  <2> DEFINE r == [thread[c] EXCEPT !.pc = "invalidate"]
  <2>1. ThreadGoes(c, r) /\ thread[c].op = "bind"
    BY <1>6 DEF SaveSessionDesktopBinding, GoesOn, ThreadAt
  <2>2. r.op = thread[c].op /\ r.pc = "invalidate"
    BY <1>1 DEF ThreadCalls
  <2> HIDE DEF r
  <2> QED
    BY <1>2, <2>1, <2>2
<1>7. CASE FindBinding(c)
  <2>1. PICK z : thread[c].op = "end" /\ ThreadGoes(c, [thread[c] EXCEPT !.stale = z, !.pc = "stale"])
    BY <1>7 DEF FindBinding, ThreadAt
  <2> DEFINE r == [thread[c] EXCEPT !.stale = z, !.pc = "stale"]
  <2>2. r.op = "end" /\ r.pc = "stale"
    BY <1>1, <2>1 DEF ThreadCalls
  <2> HIDE DEF r
  <2> QED
    BY <1>2, <2>1, <2>2 DEF r
<1>8. CASE RegisterDesktopDevice(c)
  <2> DEFINE r == [Idle EXCEPT !.op = "register", !.pc = "invalidate"]
  <2>1. ThreadGoes(c, r) /\ r.op = "register" /\ r.pc = "invalidate"
    BY <1>8 DEF RegisterDesktopDevice, Idle
  <2> HIDE DEF r
  <2> QED
    BY <1>2, <2>1
<1>9. ASSUME NEW s \in Sessions, StartLiveSession(s, c)
      PROVE  Altering'
  <2> DEFINE r == [Idle EXCEPT !.op = "start", !.pc = "invalidate"]
  <2>1. ThreadGoes(c, r) /\ r.op = "start" /\ r.pc = "invalidate"
    BY <1>9 DEF StartLiveSession, Idle
  <2> HIDE DEF r
  <2> QED
    BY <1>2, <2>1
<1>10. ASSUME NEW s \in Sessions, Ends(c, s)
       PROVE  Altering'
  <2> DEFINE r == [Idle EXCEPT !.op = "end", !.pc = "find", !.session = s, !.lost = {s}]
  <2>1. ThreadGoes(c, r) /\ r.op = "end" /\ r.pc = "find"
    BY <1>10 DEF Ends, Idle
  <2> HIDE DEF r
  <2> QED
    BY <1>2, <2>1
<1> QED
  BY <1>3, <1>4, <1>5, <1>6, <1>7, <1>8, <1>9, <1>10

\* A kept answer stays right while what it tells of is left alone.
LEMMA RightStays ==
  ASSUME NEW answer, UNCHANGED <<binding, generation, status>>, Right(answer)
  PROVE  Right(answer)'
BY DEF Right, OnThisMachine, Bound

\* A step that neither changes what answers tell of nor touches them.
LEMMA AnswersLeft ==
  ASSUME AnswersInv, UNCHANGED <<binding, generation, status, cache>>,
         Altering' \/ ~Altering,
         \A d \in Desks : thread'[d] = thread[d]
  PROVE  Altering' \/ (KeptAreRight' /\ \A d \in Desks : PollIsRight(d)')
<1> SUFFICES ASSUME ~Altering PROVE KeptAreRight' /\ \A d \in Desks : PollIsRight(d)'
  OBVIOUS
<1>1. KeptAreRight /\ \A d \in Desks : PollIsRight(d)
  BY DEF AnswersInv
<1>2. KeptAreRight'
  BY <1>1, RightStays DEF KeptAreRight
<1>3. ASSUME NEW d \in Desks PROVE PollIsRight(d)'
  <2>1. PollIsRight(d) /\ thread'[d] = thread[d]
    BY <1>1
  <2>2. thread[d].op = "poll" /\ thread[d].current /\ thread[d].pc = "keep" => Right(thread[d].answer)'
    BY <2>1, RightStays DEF PollIsRight, Right, OnThisMachine, Bound
  <2> QED
    BY <2>1, <2>2 DEF PollIsRight, Right, OnThisMachine, Bound
<1> QED
  BY <1>2, <1>3

\* Whoever was altering still is: a caller that begins a bind, or checks it, was not.
LEMMA BindStarts ==
  ASSUME PairingShapes, NEW c \in Callers, Altering,
         (\E s \in Sessions : BindDesktopDevice(c, s)) \/ CheckDevice(c)
  PROVE  Altering'
<1>1. PICK d \in Callers : thread[d].op # "none" /\ ~ThreadAt(d, "bind", "check")
  BY DEF Altering, Alters
<1>2. thread[c].op = "none" \/ ThreadAt(c, "bind", "check")
  <2>1. ASSUME NEW s \in Sessions, BindDesktopDevice(c, s) PROVE thread[c].op = "none"
    <3>1. thread[c] = Idle /\ Idle.op = "none"
      BY <2>1 DEF BindDesktopDevice, Free, Alive, Idle
    <3> QED
      BY <3>1
  <2>2. ASSUME CheckDevice(c) PROVE ThreadAt(c, "bind", "check")
    BY <2>2 DEF CheckDevice
  <2> QED
    BY <2>1, <2>2
<1>3. \E r : ThreadGoes(c, r)
  BY DEF BindDesktopDevice, CheckDevice, Returns
<1>4. thread'[d] = thread[d]
  <2>1. c # d
    BY <1>1, <1>2
  <2> QED
    BY <1>3, <2>1, OneMoves, CallersAndDesks
<1> QED
  BY <1>1, <1>4 DEF Altering, Alters, ThreadAt

\* A step of a caller leaves the polls alone.
LEMMA DesksStay ==
  ASSUME PairingShapes, NEW c \in Callers, NEW r, ThreadGoes(c, r)
  PROVE  \A d \in Desks : thread'[d] = thread[d]
BY OneMoves, CallersAndDesks

\* A step of a poll leaves the callers and the other polls alone.
LEMMA CallersStay ==
  ASSUME PairingShapes, NEW d \in Desks, NEW r, ThreadGoes(d, r)
  PROVE  /\ \A c \in Callers : thread'[c] = thread[c]
         /\ \A e \in Desks : e # d => thread'[e] = thread[e]
         /\ thread'[d] = r
         /\ Altering' <=> Altering
<1>1. \A c \in Callers : thread'[c] = thread[c]
  BY OneMoves, CallersAndDesks
<1> QED
  BY <1>1, OneMoves, CallersAndDesks DEF Altering, Alters, ThreadAt

\* A poll that goes on: the others are as they were.
LEMMA PollGoesOn ==
  ASSUME AnswersInv, NEW d \in Desks, NEW r, ThreadGoes(d, r),
         UNCHANGED <<binding, generation, status, cache>>,
         ~Altering => PollIsRight(d)'
  PROVE  Altering' \/ (KeptAreRight' /\ \A e \in Desks : PollIsRight(e)')
<1> SUFFICES ASSUME ~Altering PROVE KeptAreRight' /\ \A e \in Desks : PollIsRight(e)'
  BY CallersStay DEF AnswersInv
<1>1. KeptAreRight /\ \A e \in Desks : PollIsRight(e)
  BY DEF AnswersInv
<1>2. KeptAreRight'
  BY <1>1, RightStays DEF KeptAreRight
<1>3. ASSUME NEW e \in Desks, e # d PROVE PollIsRight(e)'
  <2>1. thread'[e] = thread[e] /\ PollIsRight(e)
    BY <1>1, <1>3, CallersStay DEF AnswersInv
  <2> QED
    BY <2>1 DEF PollIsRight, Right, OnThisMachine, Bound
<1> QED
  BY <1>2, <1>3

\* GetDesktopPairingStatus leaves the kept answers right, or its caller altering them.
LEMMA GetDesktopPairingStatusRight ==
  ASSUME AnswersInv, NEW d \in Desks, NEW pin \in Pins, GetDesktopPairingStatus(d, pin)
  PROVE  Altering' \/ (KeptAreRight' /\ \A e \in Desks : PollIsRight(e)')
<1> DEFINE r == [Idle EXCEPT !.op = "poll", !.pc = "binding", !.session = pin, !.current = TRUE,
                          !.generation = IF fresh THEN generation ELSE 0]
<1>1. ThreadGoes(d, r) /\ UNCHANGED <<binding, generation, status, cache>>
  BY DEF GetDesktopPairingStatus, rows
<1>2. r.pc = "binding" /\ r.generation \in {0, generation}
  BY DEF Idle
<1> HIDE DEF r
<1>3. PollIsRight(d)'
  BY <1>1, <1>2, CallersStay DEF PollIsRight, AnswersInv
<1> QED
  BY <1>1, <1>3, PollGoesOn

\* PollReadsBinding leaves the kept answers right, or its caller altering them.
LEMMA PollReadsBindingRight ==
  ASSUME AnswersInv, NEW d \in Desks, PollReadsBinding(d)
  PROVE  Altering' \/ (KeptAreRight' /\ \A e \in Desks : PollIsRight(e)')
<1>1. PairingShapes
  BY DEF AnswersInv
<1>2. PICK answer \in Answers :
           /\ ThreadAt(d, "poll", "binding") /\ UNCHANGED <<rows, cache>>
           /\ ThreadGoes(d, [thread[d] EXCEPT !.pc = "keep", !.generation = 0, !.answer = answer])
           /\ answer.to # Nil => /\ answer.to \in Sessions /\ Bound(answer.to)
                                 /\ binding[answer.to].generation = thread[d].generation
                                 /\ status[answer.to] = answer.status
  BY <1>1, PollAnswers
<1> DEFINE r == [thread[d] EXCEPT !.pc = "keep", !.generation = 0, !.answer = answer]
<1>3. r.pc = "keep" /\ r.answer = answer /\ r.current = thread[d].current
  BY <1>1, DeskHas DEF ThreadCalls
<1>4. ThreadGoes(d, r) /\ UNCHANGED <<binding, generation, status, cache>>
  BY <1>2 DEF rows
<1> HIDE DEF r
<1>5. ASSUME ~Altering, thread[d].current PROVE Right(answer)
  <2>1. thread[d].generation \in {0, generation}
    BY <1>2, <1>5 DEF AnswersInv, PollIsRight, ThreadAt
  <2>2. ASSUME answer.to # Nil PROVE binding[answer.to].generation # 0
    <3>1. binding[answer.to].generation \in 1 .. MaxGeneration
      BY <1>1, <1>2, <2>2, RowsHave DEF Bound
    <3> QED
      BY <3>1, PairingAssumption
  <2> QED
    BY <1>2, <2>1, <2>2 DEF Right, OnThisMachine
<1>6. ASSUME ~Altering PROVE PollIsRight(d)'
  <2>1. thread'[d] = r
    BY <1>1, <1>4, CallersStay
  <2> QED
    BY <1>3, <1>4, <1>5, <1>6, <2>1, RightStays DEF PollIsRight, Right, OnThisMachine, Bound
<1> QED
  BY <1>4, <1>6, PollGoesOn

\* KeepAnswer leaves the kept answers right, or its caller altering them.
LEMMA KeepAnswerRight ==
  ASSUME AnswersInv, NEW d \in Desks, KeepAnswer(d)
  PROVE  Altering' \/ (KeptAreRight' /\ \A e \in Desks : PollIsRight(e)')
<1>1. /\ PairingShapes /\ thread[d].op = "poll" /\ thread[d].pc = "keep" /\ ThreadGoes(d, Idle)
      /\ cache' = IF thread[d].current THEN [cache EXCEPT ![thread[d].session] = thread[d].answer]
                                       ELSE cache
      /\ UNCHANGED <<binding, generation, status>>
  BY DEF AnswersInv, KeepAnswer, Returns, ThreadAt, rows
<1>2. thread'[d] = Idle /\ (\A e \in Desks : e # d => thread'[e] = thread[e]) /\ (Altering' <=> Altering)
  BY <1>1, CallersStay
<1> SUFFICES ASSUME ~Altering PROVE KeptAreRight' /\ \A e \in Desks : PollIsRight(e)'
  BY <1>2
<1>3. KeptAreRight /\ \A e \in Desks : PollIsRight(e)
  BY DEF AnswersInv
<1>4. thread[d].current => Right(thread[d].answer)
  BY <1>1, <1>3 DEF PollIsRight
<1>5. cache \in [Pins -> Answers \cup {Nil}]
  BY <1>1 DEF PairingShapes, PairingTables
<1>6. ASSUME NEW pin \in Pins, cache'[pin] # Nil PROVE Right(cache'[pin])
  BY <1>1, <1>3, <1>4, <1>5, <1>6 DEF KeptAreRight
<1>7. KeptAreRight'
  BY <1>1, <1>6 DEF KeptAreRight, Right, OnThisMachine, Bound
<1>8. PollIsRight(d)'
  <2>1. Idle.op = "none"
    BY DEF Idle
  <2> QED
    BY <1>2, <2>1 DEF PollIsRight
<1>9. ASSUME NEW e \in Desks, e # d PROVE PollIsRight(e)'
  BY <1>1, <1>2, <1>3, <1>9 DEF PollIsRight, Right, OnThisMachine, Bound
<1> QED
  BY <1>7, <1>8, <1>9

\* InvalidateControlQueryCache leaves the kept answers right, or its caller altering them.
LEMMA InvalidateControlQueryCacheRight ==
  ASSUME AnswersInv, NEW c \in Callers, InvalidateControlQueryCache(c)
  PROVE  KeptAreRight' /\ \A d \in Desks : PollIsRight(d)'
<1>1. PairingShapes
  BY DEF AnswersInv
<1>2. KeptAreRight'
  BY <1>1, InvalidateControlQueryCacheMoves DEF KeptAreRight
<1>3. ASSUME NEW d \in Desks PROVE thread'[d].current = FALSE
  <2>1. thread[d] \in ThreadCalls
    BY <1>1, DeskHas
  <2>2. thread'[d] = [thread[d] EXCEPT !.current = FALSE]
    BY <1>1, InvalidateControlQueryCacheMoves
  <2> QED
    BY <2>1, <2>2 DEF ThreadCalls
<1> QED
  BY <1>2, <1>3 DEF PollIsRight

\* Every step keeps the answers right: one that could make them wrong is altering.
LEMMA AnswersKept ==
  ASSUME AnswersInv, [PairingNext]_pairingVars
  PROVE  AnswersInv'
<1>1. PairingShapes /\ PairingShapes'
  BY PairingShapesKept DEF AnswersInv
<1> DEFINE Kept == Altering' \/ (KeptAreRight' /\ \A d \in Desks : PollIsRight(d)')
<1>2. ASSUME NEW c \in Callers, (\E s \in Sessions : BindDesktopDevice(c, s)) \/ CheckDevice(c)
      PROVE  Kept
  <2>1. UNCHANGED <<binding, generation, status, cache>> /\ \E r : ThreadGoes(c, r)
    BY <1>2 DEF BindDesktopDevice, CheckDevice, Returns, rows
  <2>2. \A d \in Desks : thread'[d] = thread[d]
    BY <1>1, <2>1, DesksStay
  <2> QED
    BY <1>1, <1>2, <2>1, <2>2, BindStarts, AnswersLeft
<1>3. ASSUME NEW c \in Callers, NEW s \in Sessions,
             StartLiveSession(s, c) \/ TerminateSession(c, s) \/ SupersedeActiveInterviews(c, s)
      PROVE  Kept
  BY <1>1, <1>3, CallerAlters DEF TerminateSession, SupersedeActiveInterviews, LiveElsewhere
<1>4. ASSUME NEW c \in Callers, CallerStep(c)
      PROVE  Kept
  BY <1>1, <1>2, <1>4, CallerAlters, InvalidateControlQueryCacheRight DEF CallerStep
<1>5. ASSUME NEW d \in Desks, DeskStep(d)
      PROVE  Kept
  BY <1>5, GetDesktopPairingStatusRight, PollReadsBindingRight, KeepAnswerRight DEF DeskStep
<1>6. ASSUME Heartbeat \/ Lapse \/ UNCHANGED pairingVars
      PROVE  Kept
  <2>1. UNCHANGED <<binding, generation, status, cache, thread>>
    BY <1>6 DEF Heartbeat, Lapse, pairingVars
  <2>2. Altering' <=> Altering
    BY <2>1 DEF Altering, Alters, ThreadAt
  <2> QED
    BY <2>1, <2>2, AnswersLeft
<1>7. ASSUME NEW c \in Callers, RegisterDesktopDevice(c)
      PROVE  Kept
  BY <1>1, <1>7, CallerAlters
<1> HIDE DEF Kept
<1>8. Kept
  BY <1>2, <1>3, <1>4, <1>5, <1>6, <1>7 DEF PairingNext, Request
<1> QED
  BY <1>1, <1>8 DEF AnswersInv, Kept

(* No kept answer outlives the call that made it wrong, however polls and  *)
(* calls overlap, and whether or not the binds do.                         *)
THEOREM KeptAnswersAreCurrent == PairingSpec => []KeptAnswerIsCurrent
<1>1. PairingInit => AnswersInv
  <2> SUFFICES ASSUME PairingInit PROVE AnswersInv
    OBVIOUS
  <2>1. KeptAreRight
    BY DEF PairingInit, KeptAreRight
  <2>2. ASSUME NEW d \in Desks PROVE PollIsRight(d)
    <3>1. thread[d] = Idle /\ Idle.op = "none"
      BY DEF PairingInit, Idle
    <3> QED
      BY <3>1 DEF PollIsRight
  <2> QED
    BY <2>1, <2>2, PairingInitial DEF AnswersInv
<1>2. AnswersInv => KeptAnswerIsCurrent
  <2>1. Quiet => ~Altering
    BY DEF Quiet, Alive, Altering, Alters, Idle
  <2> QED
    BY <2>1 DEF AnswersInv, KeptAreRight, Right, KeptAnswerIsCurrent
<1> QED
  BY <1>1, <1>2, AnswersKept, PTL DEF PairingSpec

-----------------------------------------------------------------------------
(***************************************************************************)
(* FrameStream                                                             *)
(***************************************************************************)

-----------------------------------------------------------------------------
(* Least and greatest numbers, and parts of finite sets                    *)

(* Every collection of parts of a finite set has a least one; what follows *)
(* looks at the least part that would refute it.                           *)
LEMMA LeastPart ==
  ASSUME NEW S, IsFiniteSet(S), NEW T, T \subseteq SUBSET S, T # {}
  PROVE  \E X \in T : \A Y \in T : Y \subseteq X => Y = X
<1>1. IsWellFoundedOn(StrictSubsetOrdering(S), SUBSET S)
  BY FS_StrictSubsetOrderingWellFounded, FS_FiniteSubsetsOfFinite
<1>2. PICK X \in T : \A Y \in T : ~ (<<Y, X>> \in StrictSubsetOrdering(S))
  BY <1>1, WFMin
<1> QED
  BY <1>2 DEF StrictSubsetOrdering

HasEnds(S) ==
  /\ \E x \in S : \A y \in S : x <= y
  /\ \E x \in S : \A y \in S : x >= y

\* A part of an interval that is not empty has a least and a greatest number.
LEMMA EndsOfPart ==
  ASSUME NEW n \in Nat, NEW S, S \subseteq 1 .. n, S # {}
  PROVE  HasEnds(S)
<1> DEFINE D == {X \in SUBSET S : X # {} /\ ~HasEnds(X)}
<1> SUFFICES ASSUME ~HasEnds(S) PROVE FALSE
  OBVIOUS
<1>0. IsFiniteSet(S)
  <2>1. IsFiniteSet(1 .. n)
    BY FS_Interval
  <2> QED
    BY <2>1, FS_Subset
<1>1. S \in D /\ D \subseteq SUBSET S
  OBVIOUS
<1>2. PICK X \in D : \A Z \in D : Z \subseteq X => Z = X
  <2> HIDE DEF D
  <2>1. D # {} /\ D \subseteq SUBSET S
    BY <1>1
  <2> QED
    BY ONLY <1>0, <2>1, LeastPart
<1>3. X \in SUBSET S /\ X # {} /\ ~HasEnds(X)
  BY <1>2
<1>4. PICK x \in X : TRUE
  BY <1>3
<1>5. CASE X \ {x} = {}
  BY <1>3, <1>4, <1>5 DEF HasEnds
<1>6. CASE X \ {x} # {}
  <2>1. HasEnds(X \ {x})
    BY <1>2, <1>3, <1>4, <1>6
  <2>2. PICK l \in X \ {x} : \A y \in X \ {x} : l <= y
    BY <2>1 DEF HasEnds
  <2>3. PICK g \in X \ {x} : \A y \in X \ {x} : g >= y
    BY <2>1 DEF HasEnds
  <2>4. x \in 1 .. n /\ l \in 1 .. n /\ g \in 1 .. n /\ X \subseteq 1 .. n
    BY <1>3
  <2>5. \E z \in X : \A y \in X : z <= y
    <3>1. CASE x <= l
      <4>1. \A y \in X : x <= y
        BY <2>2, <2>4, <3>1
      <4> QED
        BY <4>1
    <3>2. CASE ~(x <= l)
      <4>1. \A y \in X : l <= y
        BY <2>2, <2>4, <3>2
      <4> QED
        BY <4>1
    <3> QED
      BY <3>1, <3>2
  <2>6. \E z \in X : \A y \in X : z >= y
    <3>1. CASE x >= g
      <4>1. \A y \in X : x >= y
        BY <2>3, <2>4, <3>1
      <4> QED
        BY <4>1
    <3>2. CASE ~(x >= g)
      <4>1. \A y \in X : g >= y
        BY <2>3, <2>4, <3>2
      <4> QED
        BY <4>1
    <3> QED
      BY <3>1, <3>2
  <2> QED
    BY <1>3, <2>5, <2>6 DEF HasEnds
<1> QED
  BY <1>5, <1>6

\* Min and Max of such a part are its ends.
LEMMA MinAndMax ==
  ASSUME NEW n \in Nat, NEW S, S \subseteq 1 .. n, S # {}
  PROVE  /\ Min(S) \in S /\ \A y \in S : Min(S) <= y
         /\ Max(S) \in S /\ \A y \in S : Max(S) >= y
BY EndsOfPart DEF HasEnds, Min, Max

-----------------------------------------------------------------------------
(* Sequences of jobs                                                       *)

FramesOf(q) == {q[i].frame : i \in DOMAIN q}

\* No terminal is in it twice.
FinalsOnce(q) ==
  \A i, k \in DOMAIN q : Final(q[i].frame) /\ q[i].frame = q[k].frame => i = k

\* The job of a frame is a job of that frame.
LEMMA JobIsAJob ==
  ASSUME NEW n \in Frames
  PROVE  Job(n) \in FrameJobs /\ Job(n).frame = n
BY DEF Job, FrameJobs

\* Merging two jobs makes a job of the later frame.
LEMMA MergeIsAJob ==
  ASSUME NEW a \in FrameJobs, NEW b \in FrameJobs
  PROVE  Merge(a, b) \in FrameJobs /\ Merge(a, b).frame = b.frame
BY DEF Merge, FrameJobs

\* Positions and members of a sequence of jobs.
LEMMA JobsHave ==
  ASSUME NEW q \in Seq(FrameJobs)
  PROVE  /\ Len(q) \in Nat /\ DOMAIN q = 1 .. Len(q)
         /\ \A i \in DOMAIN q : q[i] \in FrameJobs /\ q[i].frame \in Frames
         /\ FramesOf(q) \subseteq Frames
<1>1. Len(q) \in Nat /\ DOMAIN q = 1 .. Len(q)
  BY LenProperties
<1>2. \A i \in DOMAIN q : q[i] \in FrameJobs
  BY <1>1, ElementOfSeq
<1> QED
  BY <1>1, <1>2 DEF FramesOf, FrameJobs

\* One more job brings its frame, and no terminal twice if that is not in yet.
LEMMA AppendedJob ==
  ASSUME NEW q \in Seq(FrameJobs), NEW j \in FrameJobs
  PROVE  /\ Append(q, j) \in Seq(FrameJobs) /\ Len(Append(q, j)) = Len(q) + 1
         /\ FramesOf(Append(q, j)) = FramesOf(q) \cup {j.frame}
         /\ FinalsOnce(q) /\ (Final(j.frame) => j.frame \notin FramesOf(q)) => FinalsOnce(Append(q, j))
<1> DEFINE r == Append(q, j)
<1>1. /\ r \in Seq(FrameJobs) /\ Len(r) = Len(q) + 1
      /\ \A i \in 1 .. Len(q) : r[i] = q[i]
      /\ r[Len(q) + 1] = j
  BY AppendProperties
<1>2. Len(q) \in Nat /\ DOMAIN q = 1 .. Len(q) /\ DOMAIN r = 1 .. Len(q) + 1
  BY <1>1, LenProperties
<1> HIDE DEF r
<1>3. \A i \in DOMAIN r : (i \in DOMAIN q /\ r[i] = q[i]) \/ (i = Len(q) + 1 /\ r[i] = j)
  BY <1>1, <1>2
<1>4. \A i \in DOMAIN q : i \in DOMAIN r /\ r[i] = q[i]
  BY <1>1, <1>2
<1>5. Len(q) + 1 \in DOMAIN r
  BY <1>2
<1>6. FramesOf(r) = FramesOf(q) \cup {j.frame}
  BY <1>1, <1>3, <1>4, <1>5 DEF FramesOf
<1>7. ASSUME FinalsOnce(q), Final(j.frame) => j.frame \notin FramesOf(q)
      PROVE  FinalsOnce(r)
  BY <1>3, <1>7 DEF FinalsOnce, FramesOf
<1> QED
  BY <1>1, <1>6, <1>7 DEF r

\* One sequence has jobs of another, each from a place of its own.
TakenFrom(r, q, h) ==
  /\ h \in [DOMAIN r -> DOMAIN q]
  /\ \A i, k \in DOMAIN r : h[i] = h[k] => i = k
  /\ \A i \in DOMAIN r : r[i].frame = q[h[i]].frame

\* Jobs taken from distinct places bring no frame of their own and no terminal twice.
LEMMA TakenJobs ==
  ASSUME NEW r, NEW q, NEW h, TakenFrom(r, q, h)
  PROVE  FramesOf(r) \subseteq FramesOf(q) /\ (FinalsOnce(q) => FinalsOnce(r))
BY DEF TakenFrom, FramesOf, FinalsOnce

\* A part of a sequence of jobs, position by position.
LEMMA PartOfJobs ==
  ASSUME NEW q \in Seq(FrameJobs), NEW m \in 1 .. Len(q) + 1, NEW n \in 0 .. Len(q)
  PROVE  /\ SubSeq(q, m, n) \in Seq(FrameJobs)
         /\ Len(SubSeq(q, m, n)) = IF m <= n THEN n - m + 1 ELSE 0
         /\ \A i \in DOMAIN SubSeq(q, m, n) : m + i - 1 \in m .. n /\ SubSeq(q, m, n)[i] = q[m + i - 1]
         /\ \A i \in m .. n : i - m + 1 \in DOMAIN SubSeq(q, m, n) /\ SubSeq(q, m, n)[i - m + 1] = q[i]
         /\ FramesOf(SubSeq(q, m, n)) \subseteq FramesOf(q)
         /\ FinalsOnce(q) => FinalsOnce(SubSeq(q, m, n))
<1> DEFINE r == SubSeq(q, m, n)
<1>1. Len(q) \in Nat /\ DOMAIN q = 1 .. Len(q) /\ (\A i \in DOMAIN q : q[i] \in FrameJobs)
  BY JobsHave
<1>2. m \in Int /\ n \in Int /\ \A i \in m .. n : q[i] \in FrameJobs
  BY <1>1
<1>3. /\ r \in Seq(FrameJobs)
      /\ Len(r) = IF m <= n THEN n - m + 1 ELSE 0
      /\ \A i \in 1 .. n - m + 1 : r[i] = q[m + i - 1]
  BY <1>2, SubSeqProperties
<1>4. DOMAIN r = 1 .. Len(r)
  BY <1>3, LenProperties
<1> HIDE DEF r
<1>5. \A i \in DOMAIN r : m + i - 1 \in m .. n /\ r[i] = q[m + i - 1]
  <2> SUFFICES ASSUME NEW i \in DOMAIN r PROVE m + i - 1 \in m .. n /\ r[i] = q[m + i - 1]
    OBVIOUS
  <2>1. i \in Int /\ 1 <= i /\ m <= n /\ i <= n - m + 1
    BY <1>1, <1>2, <1>3, <1>4
  <2>2. i \in 1 .. n - m + 1 /\ m + i - 1 \in m .. n
    BY <1>2, <2>1
  <2> QED
    BY <1>3, <2>2
<1>6. \A i \in m .. n : i - m + 1 \in DOMAIN r /\ r[i - m + 1] = q[i]
  <2> SUFFICES ASSUME NEW i \in m .. n PROVE i - m + 1 \in DOMAIN r /\ r[i - m + 1] = q[i]
    OBVIOUS
  <2>1. i - m + 1 \in 1 .. n - m + 1 /\ m <= n /\ m + (i - m + 1) - 1 = i
    BY <1>1, <1>2
  <2> QED
    BY <1>3, <1>4, <2>1
<1> DEFINE h == [i \in DOMAIN r |-> m + i - 1]
<1>7. TakenFrom(r, q, h)
  <2>1. h \in [DOMAIN r -> DOMAIN q]
    BY <1>1, <1>2, <1>5
  <2>2. \A i, k \in DOMAIN r : h[i] = h[k] => i = k
    BY <1>2, <1>3, <1>4
  <2> QED
    BY <1>5, <2>1, <2>2 DEF TakenFrom
<1> HIDE DEF h
<1> QED
  BY <1>3, <1>5, <1>6, <1>7, TakenJobs DEF r

\* The head and the rest of a sequence of jobs.
LEMMA RestOfJobs ==
  ASSUME NEW q \in Seq(FrameJobs), q # <<>>
  PROVE  /\ Head(q) \in FrameJobs /\ Tail(q) \in Seq(FrameJobs)
         /\ 1 \in DOMAIN q /\ Head(q) = q[1]
         /\ FramesOf(q) = FramesOf(Tail(q)) \cup {Head(q).frame}
         /\ FinalsOnce(q) => FinalsOnce(Tail(q)) /\ (Final(Head(q).frame) => Head(q).frame \notin FramesOf(Tail(q)))
<1> DEFINE r == Tail(q)
<1>1. /\ Head(q) \in FrameJobs /\ r \in Seq(FrameJobs) /\ Len(r) = Len(q) - 1
      /\ \A i \in 1 .. Len(r) : r[i] = q[i + 1]
      /\ Head(q) = q[1]
  BY HeadTailProperties
<1>2. /\ Len(q) \in Nat \ {0} /\ DOMAIN q = 1 .. Len(q)
      /\ Len(r) \in Nat /\ DOMAIN r = 1 .. Len(r)
  BY <1>1, LenProperties, EmptySeq
<1> HIDE DEF r
<1>3. \A i \in DOMAIN q : i = 1 \/ (i - 1 \in DOMAIN r /\ q[i] = r[i - 1])
  <2> SUFFICES ASSUME NEW i \in DOMAIN q, i # 1 PROVE i - 1 \in DOMAIN r /\ q[i] = r[i - 1]
    OBVIOUS
  <2>1. i - 1 \in 1 .. Len(r) /\ (i - 1) + 1 = i
    BY <1>1, <1>2
  <2> QED
    BY <1>1, <1>2, <2>1
<1>4. \A i \in DOMAIN r : i + 1 \in DOMAIN q /\ r[i] = q[i + 1] /\ i + 1 # 1
  BY <1>1, <1>2
<1>5. 1 \in DOMAIN q
  BY <1>2
<1>6. FramesOf(q) = FramesOf(r) \cup {Head(q).frame}
  <2>1. ASSUME NEW f \in FramesOf(q) PROVE f \in FramesOf(r) \cup {q[1].frame}
    BY <1>3, <2>1 DEF FramesOf
  <2>2. ASSUME NEW f \in FramesOf(r) PROVE f \in FramesOf(q)
    BY <1>4, <2>2 DEF FramesOf
  <2>3. q[1].frame \in FramesOf(q)
    BY <1>5 DEF FramesOf
  <2> QED
    BY <1>1, <2>1, <2>2, <2>3
<1>7. ASSUME FinalsOnce(q)
      PROVE  FinalsOnce(r) /\ (Final(Head(q).frame) => Head(q).frame \notin FramesOf(r))
  <2>1. FinalsOnce(r)
    <3> SUFFICES ASSUME NEW i \in DOMAIN r, NEW k \in DOMAIN r, Final(r[i].frame), r[i].frame = r[k].frame
                 PROVE  i = k
      BY DEF FinalsOnce
    <3>1. i + 1 = k + 1
      BY <1>4, <1>7 DEF FinalsOnce
    <3> QED
      BY <1>2, <3>1
  <2>2. Final(Head(q).frame) => Head(q).frame \notin FramesOf(r)
    BY <1>1, <1>4, <1>5, <1>7 DEF FinalsOnce, FramesOf
  <2> QED
    BY <2>1, <2>2
<1> QED
  BY <1>1, <1>5, <1>6, <1>7 DEF r

-----------------------------------------------------------------------------
(* What the worker folds, and what pressure and a terminal do to the queue *)

\* One step of Coalesced.
Folded(out, held) ==
  IF out # <<>> /\ ~Final(Last(out).frame) /\ Turn(Last(out).frame) = Turn(held.frame)
    THEN Append(Front(out), Merge(Last(out), held))
    ELSE Append(out, held)

\* Folding one more job loses no terminal and makes none twice.
LEMMA FoldedJob ==
  ASSUME NEW out \in Seq(FrameJobs), NEW held \in FrameJobs
  PROVE  /\ Folded(out, held) \in Seq(FrameJobs) /\ Folded(out, held) # <<>>
         /\ FramesOf(Folded(out, held)) \subseteq FramesOf(out) \cup {held.frame}
         /\ \A f \in FramesOf(out) \cup {held.frame} : Final(f) => f \in FramesOf(Folded(out, held))
         /\ FinalsOnce(out) /\ (Final(held.frame) => held.frame \notin FramesOf(out))
              => FinalsOnce(Folded(out, held))
<1>1. ASSUME NEW q \in Seq(FrameJobs), NEW j \in FrameJobs
      PROVE  Append(q, j) # <<>>
  BY AppendProperties
<1>2. CASE out # <<>> /\ ~Final(Last(out).frame) /\ Turn(Last(out).frame) = Turn(held.frame)
  <2> DEFINE front == Front(out)
             last == Last(out)
             merged == Merge(last, held)
  <2>1. Len(out) \in Nat \ {0} /\ DOMAIN out = 1 .. Len(out) /\ Len(out) \in DOMAIN out
    BY <1>2, JobsHave, EmptySeq
  <2>2. last = out[Len(out)] /\ last \in FrameJobs
    BY <2>1, JobsHave DEF Last
  <2>3. merged \in FrameJobs /\ merged.frame = held.frame
    BY <2>2, MergeIsAJob
  <2>4. Len(out) - 1 \in 0 .. Len(out) /\ 1 \in 1 .. Len(out) + 1
    BY <2>1
  <2>5. /\ front \in Seq(FrameJobs) /\ FramesOf(front) \subseteq FramesOf(out)
        /\ FinalsOnce(out) => FinalsOnce(front)
        /\ \A i \in 1 .. Len(out) - 1 : i - 1 + 1 \in DOMAIN front /\ front[i - 1 + 1] = out[i]
    BY <2>4, PartOfJobs DEF Front
  <2> HIDE DEF front, merged
  <2>6. ASSUME NEW f \in FramesOf(out), Final(f) PROVE f \in FramesOf(front)
    <3>1. PICK i \in DOMAIN out : f = out[i].frame
      BY <2>6 DEF FramesOf
    <3>2. i \in 1 .. Len(out) - 1 /\ i - 1 + 1 = i
      BY <1>2, <2>1, <2>2, <2>6, <3>1
    <3> QED
      BY <2>5, <3>1, <3>2 DEF FramesOf
  <2>7. Folded(out, held) = Append(front, merged)
    BY <1>2 DEF Folded, front, merged
  <2>8. /\ Append(front, merged) \in Seq(FrameJobs)
        /\ FramesOf(Append(front, merged)) = FramesOf(front) \cup {held.frame}
        /\ FinalsOnce(front) /\ (Final(held.frame) => held.frame \notin FramesOf(front))
             => FinalsOnce(Append(front, merged))
    BY <2>3, <2>5, AppendedJob
  <2>9. Append(front, merged) # <<>>
    BY <1>1, <2>3, <2>5
  <2> QED
    BY <2>5, <2>6, <2>7, <2>8, <2>9
<1>3. CASE ~(out # <<>> /\ ~Final(Last(out).frame) /\ Turn(Last(out).frame) = Turn(held.frame))
  <2>1. Folded(out, held) = Append(out, held)
    BY <1>3 DEF Folded
  <2> QED
    BY <1>1, <2>1, AppendedJob
<1> QED
  BY <1>2, <1>3

FoldsJobs(g, jobs, S) ==
  g = [s \in SUBSET S |->
         IF s = {} THEN <<>> ELSE Folded(g[s \ {Max(s)}], jobs[Max(s)])]

\* Coalesced is the value of a function that folds every part of the positions.
LEMMA CoalescedIsFold ==
  ASSUME NEW jobs
  PROVE  Coalesced(jobs) = (CHOOSE g : FoldsJobs(g, jobs, DOMAIN jobs))[DOMAIN jobs]
BY DEF Coalesced, FoldLeft, MapThenFoldSet, FoldsJobs, Folded

\* Such a function, read at any part.
LEMMA FoldsOn ==
  ASSUME NEW jobs, NEW S, NEW g, FoldsJobs(g, jobs, S)
  PROVE  \A X \in SUBSET S : g[X] = IF X = {} THEN <<>> ELSE Folded(g[X \ {Max(X)}], jobs[Max(X)])
BY Zenon DEF FoldsJobs

\* A finite set of which every part has a greatest member.
Ordered(S) == IsFiniteSet(S) /\ \A X \in SUBSET S : X # {} => Max(X) \in X

\* An interval is ordered.
LEMMA IntervalOrdered == ASSUME NEW n \in Nat PROVE Ordered(1 .. n)
<1>1. IsFiniteSet(1 .. n)
  BY FS_Interval
<1>2. ASSUME NEW X \in SUBSET (1 .. n), X # {} PROVE Max(X) \in X
  BY <1>2, MinAndMax
<1> QED
  BY <1>1, <1>2 DEF Ordered

\* So is a part of an ordered set.
LEMMA PartOrdered == ASSUME NEW S, Ordered(S), NEW T, T \subseteq S PROVE Ordered(T)
BY FS_Subset DEF Ordered

\* Two functions that fold agree where both are defined: no least part could tell them apart.
LEMMA OneFold ==
  ASSUME NEW jobs, NEW S, NEW T, NEW g, FoldsJobs(g, jobs, S), NEW h, FoldsJobs(h, jobs, T)
  PROVE  Ordered(S) => \A X \in SUBSET (S \cap T) : g[X] = h[X]
<1>1. \A Y \in SUBSET S : g[Y] = IF Y = {} THEN <<>> ELSE Folded(g[Y \ {Max(Y)}], jobs[Max(Y)])
  BY ONLY FoldsJobs(g, jobs, S), FoldsOn
<1>2. \A Y \in SUBSET T : h[Y] = IF Y = {} THEN <<>> ELSE Folded(h[Y \ {Max(Y)}], jobs[Max(Y)])
  BY ONLY FoldsJobs(h, jobs, T), FoldsOn
<1> SUFFICES ASSUME Ordered(S), NEW X \in SUBSET (S \cap T), g[X] # h[X]
             PROVE  FALSE
  OBVIOUS
<1> DEFINE D == {Y \in SUBSET (S \cap T) : g[Y] # h[Y]}
<1>3. IsFiniteSet(S \cap T) /\ X \in D /\ D \subseteq SUBSET (S \cap T)
  BY FS_Subset DEF Ordered
<1>4. PICK Y \in D : \A Z \in D : Z \subseteq Y => Z = Y
  <2> HIDE DEF D
  <2> QED
    BY <1>3, LeastPart
<1>5. g[Y] # h[Y] /\ Y \in SUBSET S /\ Y \in SUBSET T
  BY <1>4
<1>6. Y # {}
  BY <1>1, <1>2, <1>5
<1>7. Max(Y) \in Y
  BY <1>5, <1>6 DEF Ordered
<1>8. Y \ {Max(Y)} \notin D
  BY <1>4, <1>7
<1>9. g[Y \ {Max(Y)}] = h[Y \ {Max(Y)}]
  BY <1>5, <1>8
<1> QED
  BY <1>1, <1>2, <1>5, <1>6, <1>9

\* An ordered set has a function that folds it: no least part could lack one.
LEMMA FoldExists ==
  ASSUME NEW jobs, NEW S, Ordered(S)
  PROVE  \E g : FoldsJobs(g, jobs, S)
<1> DEFINE D == {X \in SUBSET S : ~ \E g : FoldsJobs(g, jobs, X)}
           G(Y) == CHOOSE g : FoldsJobs(g, jobs, Y)
<1> SUFFICES ASSUME ~ \E g : FoldsJobs(g, jobs, S) PROVE FALSE
  OBVIOUS
<1>1. IsFiniteSet(S) /\ S \in D /\ D \subseteq SUBSET S
  BY DEF Ordered
<1>2. PICK X \in D : \A Z \in D : Z \subseteq X => Z = X
  <2> HIDE DEF D
  <2> QED
    BY <1>1, LeastPart
<1>3. ASSUME NEW Y \in SUBSET X, Y # X
      PROVE  Ordered(Y) /\ FoldsJobs(G(Y), jobs, Y)
  <2>1. Y \notin D /\ Y \in SUBSET S
    BY <1>2, <1>3
  <2>2. \E g : FoldsJobs(g, jobs, Y)
    BY <2>1
  <2> QED
    BY <2>1, <2>2, PartOrdered
<1> DEFINE v == [Y \in SUBSET X |-> IF Y = {} THEN <<>>
                   ELSE Folded(G(Y \ {Max(Y)})[Y \ {Max(Y)}], jobs[Max(Y)])]
<1>4. ASSUME NEW Y \in SUBSET X, Y # X
      PROVE  v[Y] = G(Y)[Y]
  <2> DEFINE h == G(Y)
  <2>1. FoldsJobs(h, jobs, Y) /\ Ordered(Y)
    BY <1>3, <1>4
  <2> HIDE DEF h
  <2>2. h[Y] = IF Y = {} THEN <<>> ELSE Folded(h[Y \ {Max(Y)}], jobs[Max(Y)])
    BY <2>1, FoldsOn
  <2>3. CASE Y = {}
    BY <2>2, <2>3 DEF h
  <2>4. CASE Y # {}
    <3> DEFINE Z == Y \ {Max(Y)}
               k == G(Z)
    <3>1. Z \in SUBSET X /\ Z # X /\ Z \in SUBSET (Y \cap Z)
      BY <2>1, <2>4 DEF Ordered
    <3>2. FoldsJobs(k, jobs, Z)
      BY <3>1, <1>3
    <3>3. v[Y] = Folded(k[Z], jobs[Max(Y)])
      BY <2>4
    <3> HIDE DEF k, Z, v
    <3>4. h[Z] = k[Z]
      BY <2>1, <3>1, <3>2, OneFold
    <3>5. h[Y] = Folded(h[Z], jobs[Max(Y)])
      BY <2>2, <2>4 DEF Z
    <3> QED
      BY <3>3, <3>4, <3>5 DEF h
  <2> QED
    BY <2>3, <2>4
<1> HIDE DEF G
<1>5. ASSUME NEW Y \in SUBSET X, Y # {}
      PROVE  v[Y \ {Max(Y)}] = G(Y \ {Max(Y)})[Y \ {Max(Y)}]
  <2>1. Max(Y) \in Y
    BY <1>2, <1>5 DEF Ordered
  <2>2. Y \ {Max(Y)} \in SUBSET X /\ Y \ {Max(Y)} # X
    BY <2>1
  <2> HIDE DEF v
  <2> QED
    BY <2>2, <1>4
<1>6. FoldsJobs(v, jobs, X)
  <2>1. v = [Y \in SUBSET X |-> IF Y = {} THEN <<>> ELSE Folded(v[Y \ {Max(Y)}], jobs[Max(Y)])]
    BY <1>5
  <2> HIDE DEF v
  <2> QED
    BY <2>1, Zenon DEF FoldsJobs
<1> QED
  BY <1>2, <1>6

\* What a fold of the jobs at s is, of all their frames.
FoldsTo(out, jobs, s) ==
  /\ out \in Seq(FrameJobs)
  /\ s # {} => out # <<>>
  /\ FramesOf(out) \subseteq {jobs[i].frame : i \in s}
  /\ \A i \in s : Final(jobs[i].frame) => jobs[i].frame \in FramesOf(out)
  /\ FinalsOnce(jobs) => FinalsOnce(out)

\* _coalesce_prepared_frame_jobs: no terminal is lost or made twice, and jobs stay jobs.
LEMMA CoalescedJobs ==
  ASSUME NEW jobs \in Seq(FrameJobs)
  PROVE  FoldsTo(Coalesced(jobs), jobs, DOMAIN jobs)
<1> DEFINE S == DOMAIN jobs
           g == CHOOSE x : FoldsJobs(x, jobs, S)
           D == {X \in SUBSET S : ~FoldsTo(g[X], jobs, X)}
<1>1. Len(jobs) \in Nat /\ S = 1 .. Len(jobs) /\ \A i \in S : jobs[i] \in FrameJobs
  BY JobsHave
<1>2. FoldsJobs(g, jobs, S)
  <2>1. \E x : FoldsJobs(x, jobs, S)
    BY <1>1, IntervalOrdered, FoldExists
  <2> QED
    BY <2>1
<1>3. Coalesced(jobs) = g[S]
  BY CoalescedIsFold
<1> HIDE DEF g, S
<1> SUFFICES ASSUME ~FoldsTo(g[S], jobs, S) PROVE FALSE
  BY <1>3 DEF S
<1>4. IsFiniteSet(S)
  BY <1>1, FS_Interval
<1>5. S \in D /\ D \subseteq SUBSET S
  OBVIOUS
<1>6. PICK X \in D : \A Z \in D : Z \subseteq X => Z = X
  <2> HIDE DEF D
  <2>1. D # {} /\ D \subseteq SUBSET S
    BY <1>5
  <2> QED
    BY ONLY <1>4, <2>1, LeastPart
<1>7. X \subseteq S /\ ~FoldsTo(g[X], jobs, X)
  BY <1>6
<1>8. g[X] = IF X = {} THEN <<>> ELSE Folded(g[X \ {Max(X)}], jobs[Max(X)])
  BY <1>2, <1>7, FoldsOn
<1>9. CASE X = {}
  <2>1. g[X] = <<>> /\ <<>> \in Seq(FrameJobs) /\ DOMAIN <<>> = {}
    BY <1>8, <1>9
  <2> QED
    BY <1>7, <1>9, <2>1 DEF FoldsTo, FramesOf, FinalsOnce
<1>10. CASE X # {}
  <2> DEFINE x == Max(X)
             Y == X \ {x}
             out == g[Y]
  <2>1. x \in X /\ X \subseteq 1 .. Len(jobs)
    BY <1>1, <1>7, <1>10, MinAndMax
  <2>2. jobs[x] \in FrameJobs /\ g[X] = Folded(out, jobs[x])
    BY <1>1, <1>7, <1>8, <1>10, <2>1
  <2>3. Y \notin D /\ Y \in SUBSET S
    BY <1>6, <1>7, <2>1
  <2>4. FoldsTo(out, jobs, Y)
    BY <2>3
  <2>5. X = Y \cup {x} /\ x \notin Y
    BY <2>1
  <2> HIDE DEF x, Y, out
  <2>6. out \in Seq(FrameJobs)
    BY <2>4 DEF FoldsTo
  <2>7. /\ g[X] \in Seq(FrameJobs) /\ g[X] # <<>>
        /\ FramesOf(g[X]) \subseteq FramesOf(out) \cup {jobs[x].frame}
        /\ \A f \in FramesOf(out) \cup {jobs[x].frame} : Final(f) => f \in FramesOf(g[X])
        /\ FinalsOnce(out) /\ (Final(jobs[x].frame) => jobs[x].frame \notin FramesOf(out))
             => FinalsOnce(g[X])
    BY <2>2, <2>6, FoldedJob
  <2>8. FramesOf(g[X]) \subseteq {jobs[i].frame : i \in X}
    BY <2>4, <2>5, <2>7 DEF FoldsTo
  <2>9. ASSUME NEW i \in X, Final(jobs[i].frame) PROVE jobs[i].frame \in FramesOf(g[X])
    BY <2>4, <2>5, <2>7, <2>9 DEF FoldsTo
  <2>10. ASSUME FinalsOnce(jobs) PROVE FinalsOnce(g[X])
    <3>1. FinalsOnce(out) /\ FramesOf(out) \subseteq {jobs[i].frame : i \in Y}
      BY <2>4, <2>10 DEF FoldsTo
    <3>2. Y \subseteq DOMAIN jobs /\ x \in DOMAIN jobs
      BY <1>7, <2>1, <2>5 DEF S
    <3>3. Final(jobs[x].frame) => jobs[x].frame \notin FramesOf(out)
      BY <2>5, <2>10, <3>1, <3>2 DEF FinalsOnce
    <3> QED
      BY <2>7, <3>1, <3>3
  <2> QED
    BY <1>7, <2>7, <2>8, <2>9, <2>10 DEF FoldsTo
<1> QED
  BY <1>9, <1>10

\* A partial that makes room for a job takes no terminal with it.
LEMMA ReplacedJob ==
  ASSUME NEW q \in Seq(FrameJobs), NEW i \in DOMAIN q, ~Final(q[i].frame), NEW j \in FrameJobs
  PROVE  LET r == [q EXCEPT ![i] = j] IN
         /\ r \in Seq(FrameJobs) /\ Len(r) = Len(q)
         /\ FramesOf(r) \subseteq FramesOf(q) \cup {j.frame}
         /\ \A f \in FramesOf(q) : Final(f) => f \in FramesOf(r)
         /\ FinalsOnce(q) /\ (Final(j.frame) => j.frame \notin FramesOf(q)) => FinalsOnce(r)
<1> DEFINE r == [q EXCEPT ![i] = j]
<1>1. r \in Seq(FrameJobs) /\ Len(r) = Len(q) /\ r[i] = j /\ \A k \in DOMAIN q \ {i} : r[k] = q[k]
  <2>1. i \in 1 .. Len(q) /\ DOMAIN q = 1 .. Len(q)
    BY JobsHave
  <2> QED
    BY <2>1, ExceptSeq
<1>2. DOMAIN r = DOMAIN q
  OBVIOUS
<1> HIDE DEF r
<1>3. FramesOf(r) \subseteq FramesOf(q) \cup {j.frame}
  BY <1>1, <1>2 DEF FramesOf
<1>4. \A f \in FramesOf(q) : Final(f) => f \in FramesOf(r)
  BY <1>1, <1>2 DEF FramesOf
<1>5. ASSUME FinalsOnce(q), Final(j.frame) => j.frame \notin FramesOf(q)
      PROVE  FinalsOnce(r)
  BY <1>1, <1>2, <1>5 DEF FramesOf, FinalsOnce
<1> QED
  BY <1>1, <1>3, <1>4, <1>5 DEF r

\* What is promised of the queue when it changes under pressure: nothing final leaves it.
Keeps(q, r) ==
  /\ r \in Seq(FrameJobs) /\ Len(r) <= Len(q)
  /\ \A f \in FramesOf(q) : Final(f) => f \in FramesOf(r)

\* The same of the partial that _replace_queued_partial chooses.
LEMMA ReplacedPartial ==
  ASSUME queue \in Seq(FrameJobs), Partials # {}, NEW n \in Frames, ReplaceQueuedPartial(n)
  PROVE  /\ Keeps(queue, queue')
         /\ FramesOf(queue') \subseteq FramesOf(queue) \cup {n}
         /\ FinalsOnce(queue) /\ (Final(n) => n \notin FramesOf(queue)) => FinalsOnce(queue')
<1> DEFINE i == Min(Partials)
           old == queue[i]
           new == IF Turn(old.frame) = Turn(n) THEN Merge(old, Job(n)) ELSE Job(n)
<1>1. Len(queue) \in Nat /\ DOMAIN queue = 1 .. Len(queue)
  BY JobsHave
<1>2. i \in Partials
  <2>1. Partials \subseteq 1 .. Len(queue)
    BY <1>1 DEF Partials
  <2> QED
    BY <1>1, <2>1, MinAndMax
<1>3. i \in DOMAIN queue /\ ~Final(old.frame) /\ old \in FrameJobs
  BY <1>2, JobsHave DEF Partials
<1>4. new \in FrameJobs /\ new.frame = n
  BY <1>3, JobIsAJob, MergeIsAJob
<1>5. queue' = [queue EXCEPT ![i] = new]
  BY DEF ReplaceQueuedPartial
<1> HIDE DEF new, i
<1>6. /\ queue' \in Seq(FrameJobs) /\ Len(queue') = Len(queue)
      /\ FramesOf(queue') \subseteq FramesOf(queue) \cup {new.frame}
      /\ \A f \in FramesOf(queue) : Final(f) => f \in FramesOf(queue')
      /\ FinalsOnce(queue) /\ (Final(new.frame) => new.frame \notin FramesOf(queue)) => FinalsOnce(queue')
  BY <1>3, <1>4, <1>5, ReplacedJob
<1> QED
  BY <1>1, <1>4, <1>6 DEF Keeps

\* Two sequences of jobs joined: their frames, and no terminal twice if they share none.
LEMMA JoinedJobs ==
  ASSUME NEW a \in Seq(FrameJobs), NEW b \in Seq(FrameJobs)
  PROVE  /\ a \o b \in Seq(FrameJobs) /\ Len(a \o b) = Len(a) + Len(b)
         /\ FramesOf(a \o b) = FramesOf(a) \cup FramesOf(b)
         /\ FinalsOnce(a) /\ FinalsOnce(b) /\ (\A f \in FramesOf(a) : Final(f) => f \notin FramesOf(b))
              => FinalsOnce(a \o b)
<1> DEFINE r == a \o b
           m == Len(a)
           n == Len(b)
<1>1. /\ r \in Seq(FrameJobs) /\ Len(r) = m + n
      /\ \A x \in 1 .. m + n : r[x] = IF x <= m THEN a[x] ELSE b[x - m]
  BY ConcatProperties
<1>2. m \in Nat /\ n \in Nat /\ DOMAIN a = 1 .. m /\ DOMAIN b = 1 .. n /\ DOMAIN r = 1 .. m + n
  BY <1>1, LenProperties
<1> HIDE DEF r, m, n
<1>3. ASSUME NEW x \in DOMAIN r
      PROVE  (x \in DOMAIN a /\ r[x] = a[x]) \/ (x - m \in DOMAIN b /\ r[x] = b[x - m] /\ x - m + m = x)
  <2>1. CASE x <= m
    BY <1>1, <1>2, <2>1
  <2>2. CASE ~(x <= m)
    <3>1. r[x] = b[x - m]
      BY <1>1, <1>2, <2>2
    <3>2. x - m \in 1 .. n /\ x - m + m = x
      BY <1>2, <2>2
    <3> QED
      BY <1>2, <3>1, <3>2
  <2> QED
    BY <2>1, <2>2
<1>4. ASSUME NEW x \in DOMAIN a PROVE x \in DOMAIN r /\ r[x] = a[x]
  BY <1>1, <1>2
<1>5. ASSUME NEW x \in DOMAIN b PROVE x + m \in DOMAIN r /\ r[x + m] = b[x]
  <2>1. x + m \in 1 .. m + n /\ ~(x + m <= m) /\ (x + m) - m = x
    BY <1>2
  <2> QED
    BY <1>1, <1>2, <2>1
<1>6. FramesOf(r) = FramesOf(a) \cup FramesOf(b)
  <2>1. ASSUME NEW f \in FramesOf(r) PROVE f \in FramesOf(a) \cup FramesOf(b)
    BY <1>3 DEF FramesOf
  <2>2. ASSUME NEW f \in FramesOf(a) PROVE f \in FramesOf(r)
    BY <1>4 DEF FramesOf
  <2>3. ASSUME NEW f \in FramesOf(b) PROVE f \in FramesOf(r)
    BY <1>5 DEF FramesOf
  <2> QED
    BY <2>1, <2>2, <2>3
<1>7. ASSUME FinalsOnce(a), FinalsOnce(b), \A f \in FramesOf(a) : Final(f) => f \notin FramesOf(b)
      PROVE  FinalsOnce(r)
  <2> SUFFICES ASSUME NEW x \in DOMAIN r, NEW y \in DOMAIN r, Final(r[x].frame), r[x].frame = r[y].frame
               PROVE  x = y
    BY DEF FinalsOnce
  <2>1. CASE x \in DOMAIN a /\ r[x] = a[x] /\ y \in DOMAIN a /\ r[y] = a[y]
    BY <1>7, <2>1 DEF FinalsOnce
  <2>2. CASE x - m \in DOMAIN b /\ r[x] = b[x - m] /\ y - m \in DOMAIN b /\ r[y] = b[y - m]
    <3>1. x - m = y - m
      BY <1>7, <2>2 DEF FinalsOnce
    <3> QED
      BY <1>2, <3>1
  <2>3. CASE x \in DOMAIN a /\ r[x] = a[x] /\ y - m \in DOMAIN b /\ r[y] = b[y - m]
    BY <1>7, <2>3 DEF FramesOf
  <2>4. CASE x - m \in DOMAIN b /\ r[x] = b[x - m] /\ y \in DOMAIN a /\ r[y] = a[y]
    BY <1>7, <2>4 DEF FramesOf
  <2> QED
    BY <1>3, <2>1, <2>2, <2>3, <2>4
<1> QED
  BY <1>1, <1>6, <1>7 DEF r, m, n

\* The frames of a part.
LEMMA PartFrames ==
  ASSUME NEW q \in Seq(FrameJobs), NEW m \in 1 .. Len(q) + 1, NEW n \in 0 .. Len(q)
  PROVE  FramesOf(SubSeq(q, m, n)) = {q[i].frame : i \in m .. n}
<1> DEFINE r == SubSeq(q, m, n)
<1>1. /\ \A i \in DOMAIN r : m + i - 1 \in m .. n /\ r[i] = q[m + i - 1]
      /\ \A i \in m .. n : i - m + 1 \in DOMAIN r /\ r[i - m + 1] = q[i]
  BY PartOfJobs
<1> HIDE DEF r
<1>2. FramesOf(r) = {q[i].frame : i \in m .. n}
  <2>1. ASSUME NEW f \in FramesOf(r) PROVE f \in {q[i].frame : i \in m .. n}
    <3>1. PICK i \in DOMAIN r : f = r[i].frame
      BY <2>1 DEF FramesOf
    <3>2. m + i - 1 \in m .. n /\ f = q[m + i - 1].frame
      BY <1>1, <3>1
    <3> QED
      BY <3>2
  <2>2. ASSUME NEW i \in m .. n PROVE q[i].frame \in FramesOf(r)
    BY <1>1 DEF FramesOf
  <2> QED
    BY <2>1, <2>2
<1> QED
  BY <1>2 DEF r

\* _promote_queued_terminal: what is folded into the terminal is partials only.
LEMMA PromotedTerminal ==
  ASSUME queue \in Seq(FrameJobs), NEW n
  PROVE  /\ Keeps(queue, Promoted(n))
         /\ FramesOf(Promoted(n)) \subseteq FramesOf(queue)
         /\ FinalsOnce(queue) => FinalsOnce(Promoted(n))
<1> DEFINE at == {i \in DOMAIN queue : queue[i].frame = n}
           i == Min(at)
           Folds(k) == \A j \in k .. i - 1 :
                         ~Final(queue[j].frame) /\ Turn(queue[j].frame) = Turn(n)
           from == {k \in 1 .. i : Folds(k)}
           k == Min(from)
           a == SubSeq(queue, 1, k - 1)
           held == [queue[i] EXCEPT !.audio = UNION {queue[j].audio : j \in k .. i}]
           c == SubSeq(queue, i + 1, Len(queue))
           r == (a \o <<held>>) \o c
<1>1. Len(queue) \in Nat /\ DOMAIN queue = 1 .. Len(queue) /\ \A x \in DOMAIN queue : queue[x] \in FrameJobs
  BY JobsHave
<1>2. CASE at = {}
  <2>1. Promoted(n) = queue
    BY <1>2 DEF Promoted
  <2> QED
    BY <1>1, <2>1 DEF Keeps
<1>3. CASE at # {}
  <2>1. Promoted(n) = r
    BY <1>3 DEF Promoted
  <2>2. i \in 1 .. Len(queue) /\ i \in Int /\ queue[i].frame = n
    <3>1. at \subseteq 1 .. Len(queue)
      BY <1>1
    <3>2. \A x \in at : x \in Int /\ queue[x].frame = n
      BY <1>1
    <3>3. i \in at
      <4> HIDE DEF at
      <4> QED
        BY <1>1, <1>3, <3>1, MinAndMax
    <3> HIDE DEF i, at
    <3>4. i \in 1 .. Len(queue)
      BY <3>1, <3>3
    <3>5. i \in Int /\ queue[i].frame = n
      BY <3>2, <3>3
    <3> QED
      BY <3>4, <3>5
  <2>3. k \in 1 .. i /\ Folds(k)
    <3> HIDE DEF i
    <3>1. Folds(i)
      BY <2>2
    <3>2. i \in Nat /\ from \subseteq 1 .. i /\ from # {}
      <4>1. i \in Nat /\ i \in 1 .. i
        BY <2>2
      <4>2. i \in from
        BY <3>1, <4>1
      <4> QED
        BY <4>1, <4>2
    <3>3. k \in from
      <4> HIDE DEF from
      <4> QED
        BY <3>2, MinAndMax
    <3> QED
      BY <3>3
  <2> HIDE DEF i, k, at, from
  <2>4. 1 \in 1 .. Len(queue) + 1 /\ k - 1 \in 0 .. Len(queue) /\ i + 1 \in 1 .. Len(queue) + 1
        /\ Len(queue) \in 0 .. Len(queue)
    BY <1>1, <2>2, <2>3
  <2>5. /\ a \in Seq(FrameJobs) /\ Len(a) = k - 1
        /\ FramesOf(a) = {queue[x].frame : x \in 1 .. k - 1}
        /\ FinalsOnce(queue) => FinalsOnce(a)
    <3>1. IF 1 <= k - 1 THEN (k - 1) - 1 + 1 = k - 1 ELSE 0 = k - 1
      BY <2>2, <2>3
    <3> QED
      BY <2>4, <3>1, PartOfJobs, PartFrames
  <2>6. /\ c \in Seq(FrameJobs) /\ Len(c) = Len(queue) - i
        /\ FramesOf(c) = {queue[x].frame : x \in i + 1 .. Len(queue)}
        /\ FinalsOnce(queue) => FinalsOnce(c)
    <3> DEFINE l == Len(queue)
    <3>0. l \in Int /\ i \in Int /\ i <= l
      BY <1>1, <2>2
    <3> HIDE DEF l
    <3>1. IF i + 1 <= l THEN l - (i + 1) + 1 = l - i ELSE 0 = l - i
      BY <3>0
    <3> USE DEF l
    <3>2. FramesOf(c) = {queue[x].frame : x \in i + 1 .. Len(queue)}
      BY <2>4, PartFrames
    <3>3. /\ c \in Seq(FrameJobs)
          /\ Len(c) = IF i + 1 <= l THEN l - (i + 1) + 1 ELSE 0
          /\ FinalsOnce(queue) => FinalsOnce(c)
      BY <2>4, PartOfJobs
    <3> QED
      BY <3>1, <3>2, <3>3
  <2>7. held \in FrameJobs /\ held.frame = n
    <3>1. queue[i] \in FrameJobs
      BY <1>1, <2>2
    <3>2. UNION {queue[j].audio : j \in k .. i} \subseteq Frames
      <4>1. \A j \in k .. i : queue[j] \in FrameJobs
        BY <1>1, <2>2, <2>3
      <4> QED
        BY <4>1 DEF FrameJobs
    <3> QED
      BY <2>2, <3>1, <3>2 DEF FrameJobs
  <2> HIDE DEF a, c, held
  <2>8. /\ <<held>> \in Seq(FrameJobs) /\ Len(<<held>>) = 1
        /\ FramesOf(<<held>>) = {n} /\ FinalsOnce(<<held>>)
    BY <2>7 DEF FramesOf, FinalsOnce
  <2> DEFINE b == a \o <<held>>
  <2>9. /\ b \in Seq(FrameJobs) /\ Len(b) = Len(a) + 1
        /\ FramesOf(b) = FramesOf(a) \cup {n}
        /\ FinalsOnce(a) /\ (\A f \in FramesOf(a) : Final(f) => f \notin {n}) => FinalsOnce(b)
    BY <2>5, <2>8, JoinedJobs
  <2>10. /\ r \in Seq(FrameJobs) /\ Len(r) = Len(b) + Len(c)
         /\ FramesOf(r) = FramesOf(b) \cup FramesOf(c)
         /\ FinalsOnce(b) /\ FinalsOnce(c) /\ (\A f \in FramesOf(b) : Final(f) => f \notin FramesOf(c))
              => FinalsOnce(r)
    <3> HIDE DEF b
    <3>1. r = b \o c
      BY DEF b
    <3> HIDE DEF r
    <3> QED
      BY <2>6, <2>9, <3>1, JoinedJobs
  <2> HIDE DEF b, r
  <2>11. /\ \A x \in 1 .. k - 1 : x \in DOMAIN queue /\ x # i /\ x \notin i + 1 .. Len(queue)
         /\ \A x \in i + 1 .. Len(queue) : x \in DOMAIN queue /\ x # i
         /\ i \in DOMAIN queue
    BY <1>1, <2>2, <2>3
  <2>12. FramesOf(r) \subseteq FramesOf(queue)
    BY <2>2, <2>5, <2>6, <2>9, <2>10, <2>11 DEF FramesOf
  <2>13. ASSUME NEW f \in FramesOf(queue), Final(f) PROVE f \in FramesOf(r)
    <3>1. PICK x \in DOMAIN queue : f = queue[x].frame
      BY <2>13 DEF FramesOf
    <3>2. x \in 1 .. k - 1 \/ x \in k .. i - 1 \/ x = i \/ x \in i + 1 .. Len(queue)
      BY <1>1, <2>2, <2>3
    <3> QED
      BY <2>2, <2>3, <2>5, <2>6, <2>9, <2>10, <2>13, <3>1, <3>2
  <2>14. ASSUME FinalsOnce(queue) PROVE FinalsOnce(r)
    <3>1. \A f \in FramesOf(a) : Final(f) => f \notin {n} /\ f \notin FramesOf(c)
      BY <2>2, <2>5, <2>6, <2>11, <2>14 DEF FinalsOnce
    <3>2. Final(n) => n \notin FramesOf(c)
      BY <2>2, <2>6, <2>11, <2>14 DEF FinalsOnce
    <3> QED
      BY <2>5, <2>6, <2>9, <2>10, <2>14, <3>1, <3>2
  <2>15. Len(r) <= Len(queue)
    BY <1>1, <2>2, <2>3, <2>5, <2>6, <2>9, <2>10
  <2> QED
    BY <2>1, <2>10, <2>12, <2>13, <2>14, <2>15 DEF Keeps
<1> QED
  BY <1>2, <1>3

\* _backlog_coalesce_take_count never asks for more than waits.
LEMMA TakeCountFits ==
  ASSUME NEW m \in Nat
  PROVE  TakeCount(m) \in 0 .. m
BY StreamAssumption DEF TakeCount

-----------------------------------------------------------------------------
(* The inductive invariants                                                *)

AnswerShapes ==
  [kind : {"resume", "frame", "terminal", "gap", "degraded"},
   frame : 0 .. Len(Script), terminal : 0 .. Len(Script)]

DesktopShape ==
  /\ made \in 0 .. Len(Script) /\ outbox \subseteq 1 .. made /\ sent \subseteq 1 .. made
  /\ gap \in [expected : 0 .. Len(Script), attempts : 0 .. ResendMax]

LinkShape ==
  /\ link \in {"down", "opening", "ready", "failed"}
  /\ up \in Seq(Frames) /\ down \in Seq(AnswerShapes)

SocketShape ==
  /\ expected \in 1 .. Len(Script) + 1 /\ gaps \in 0 .. GapMax - 1
  /\ receipt \in 0 .. Len(Script) /\ closed \in [Turns -> {"open", "final", "incomplete"}]
  /\ handler \in [pc : {"idle", "put", "wait", "accept"}, frame : 0 .. Len(Script), stale : BOOLEAN]
  /\ handler.pc # "idle" => handler.frame \in Frames

WorkShape ==
  /\ queue \in Seq(FrameJobs) /\ Len(queue) <= QueueMax
  /\ worker \in [pc : {"none", "dead", "wait", "exit", "busy"}, jobs : Seq(FrameJobs)]
  /\ worker.pc = "busy" => worker.jobs # <<>>

RestShape ==
  /\ lost \subseteq Frames /\ done \subseteq Frames
  /\ known \subseteq {n \in Frames : Final(n)} /\ seen \subseteq Frames
  /\ faults \in [drops : 0 .. Drops, refusals : 0 .. Refusals]

StreamShapes == DesktopShape /\ LinkShape /\ SocketShape /\ WorkShape /\ RestShape

\* A terminal that is in the queue, with the worker or done was accepted, or is about to be.
Entered(f) == f \in known \/ (handler.pc = "accept" /\ handler.frame = f)

OnceInv ==
  /\ FinalsOnce(queue) /\ FinalsOnce(worker.jobs)
  /\ \A f \in FramesOf(queue) : Final(f) => f \notin FramesOf(worker.jobs) /\ f \notin done /\ Entered(f)
  /\ \A f \in FramesOf(worker.jobs) : Final(f) => f \notin done /\ Entered(f)
  /\ \A f \in done : Final(f) => Entered(f)
  /\ handler.pc # "idle" /\ Final(handler.frame) => handler.frame \notin known

\* Every frame up to the k-th was given a receipt.
Below(k) == 1 .. k \subseteq seen

TrueAnswers ==
  {a \in AnswerShapes :
     /\ a.terminal # 0 => a.terminal \in seen
     /\ a.kind = "resume" => Below(a.frame)
     /\ a.kind \in {"frame", "terminal"} /\ a.terminal = 0 => Below(a.frame)
     /\ a.kind = "gap" => Below(a.frame - 1)}

SocketSeen ==
  /\ Below(expected - 1) /\ Below(receipt)
  /\ handler.pc # "idle" => Below(handler.frame)

WorkSeen ==
  /\ \A f \in FramesOf(queue) \cup FramesOf(worker.jobs) : Below(f)
  /\ known \subseteq seen

AnswersTrue == down \in Seq(TrueAnswers)

SeenInv == SocketSeen /\ WorkSeen /\ AnswersTrue /\ RetiredWasReceived

\* What is assumed of the constants.
LEMMA ScriptFacts ==
  /\ Len(Script) \in Nat /\ Frames = 1 .. Len(Script)
  /\ QueueMax \in Nat \ {0} /\ GapMax \in Nat \ {0} /\ ResendMax \in Nat
  /\ Drops \in Nat /\ Refusals \in Nat
  /\ \A n \in Frames : Turn(n) \in Turns
BY StreamAssumption, LenProperties DEF Frames, Turns

\* The shapes are the type invariant with what an induction needs besides.
LEMMA ShapesAreTyped == StreamShapes => StreamTypeOK
BY DEF StreamShapes, DesktopShape, LinkShape, SocketShape, WorkShape, RestShape, StreamTypeOK, AnswerShapes

\* A reply is delivered or lost with the connection.
LEMMA Replied ==
  ASSUME NEW A, down \in Seq(A), NEW a \in A, Reply(a)
  PROVE  down' \in Seq(A)
BY AppendProperties DEF Reply

\* The answers the socket makes have the shape of answers.
LEMMA AnswersHaveShape ==
  /\ \A n \in 0 .. Len(Script), k \in {"resume", "frame", "gap", "degraded"} : Answer(k, n) \in AnswerShapes
  /\ \A n, t \in 0 .. Len(Script) : TerminalAnswer(n, t) \in AnswerShapes
BY ScriptFacts DEF Answer, TerminalAnswer, AnswerShapes

\* The shapes hold at the start.
LEMMA ShapesStart == StreamInit => StreamShapes
<1> SUFFICES ASSUME StreamInit PROVE StreamShapes
  OBVIOUS
<1>1. \A A : <<>> \in Seq(A) /\ Len(<<>>) = 0
  OBVIOUS
<1>2. DesktopShape /\ LinkShape /\ RestShape
  BY <1>1, ScriptFacts DEF StreamInit, DesktopShape, LinkShape, RestShape, NoGap
<1>3. SocketShape /\ WorkShape
  BY <1>1, ScriptFacts DEF StreamInit, SocketShape, WorkShape, NoHandler, NoWorker
<1> QED
  BY <1>2, <1>3 DEF StreamShapes

\* What the desktop keeps and sends are frames of the script.
LEMMA FramesCaptured == DesktopShape => outbox \subseteq Frames /\ sent \subseteq Frames
<1> SUFFICES ASSUME DesktopShape PROVE \A n \in 1 .. made : n \in 1 .. Len(Script)
  BY ScriptFacts DEF DesktopShape
<1> QED
  BY ScriptFacts DEF DesktopShape

\* Capture keeps the shapes.
LEMMA CaptureKeepsShapes == ASSUME StreamShapes, Capture PROVE StreamShapes'
<1>1. DesktopShape'
  BY ScriptFacts DEF StreamShapes, DesktopShape, Capture
<1>2. LinkShape' /\ SocketShape' /\ WorkShape' /\ RestShape'
  BY DEF Capture, StreamShapes, LinkShape, SocketShape, WorkShape, RestShape, socket, store, work, AnswerShapes
<1> QED
  BY <1>1, <1>2 DEF StreamShapes

\* Flush keeps the shapes.
LEMMA FlushKeepsShapes == ASSUME StreamShapes, Flush PROVE StreamShapes'
<1> DEFINE n == Min(outbox \ sent)
<1>0. DesktopShape /\ LinkShape
  BY DEF StreamShapes
<1>1. n \in outbox /\ n \in 1 .. made /\ n \in Frames
  <2>1. made \in Nat /\ outbox \ sent \subseteq 1 .. made /\ outbox \ sent # {}
    BY <1>0, ScriptFacts DEF DesktopShape, Flush
  <2>2. n \in outbox \ sent
    BY <2>1, MinAndMax
  <2> HIDE DEF n
  <2> QED
    BY <1>0, <2>1, <2>2, FramesCaptured
<1>2. sent' = sent \cup {n} /\ up' = Append(up, n)
  BY DEF Flush
<1> HIDE DEF n
<1>3. DesktopShape'
  BY <1>0, <1>1, <1>2 DEF DesktopShape, Flush
<1>4. LinkShape'
  <2>1. up' \in Seq(Frames)
    BY <1>0, <1>1, <1>2, AppendProperties DEF LinkShape
  <2> QED
    BY <1>0, <2>1 DEF LinkShape, AnswerShapes, Flush
<1>5. SocketShape' /\ WorkShape' /\ RestShape'
  BY DEF Flush, StreamShapes, SocketShape, WorkShape, RestShape, socket, store, work
<1> QED
  BY <1>3, <1>4, <1>5 DEF StreamShapes

\* DesktopReceives keeps the shapes.
LEMMA DesktopReceivesKeepsShapes == ASSUME StreamShapes, DesktopReceives PROVE StreamShapes'
<1> DEFINE answer == Head(down)
<1>0. DesktopShape /\ LinkShape
  BY DEF StreamShapes
<1>1. answer \in AnswerShapes /\ down' \in Seq(AnswerShapes)
  BY <1>0, HeadTailProperties DEF LinkShape, DesktopReceives
<1>2. answer.frame \in 0 .. Len(Script)
  BY <1>1 DEF AnswerShapes
<1>3. made' = made
  BY DEF DesktopReceives
<1> HIDE DEF answer
<1>4. ASSUME outbox' \subseteq outbox, sent' \subseteq sent \cup outbox,
             gap' \in [expected : 0 .. Len(Script), attempts : 0 .. ResendMax],
             link' \in {"down", "opening", "ready", "failed"}, up' \in Seq(Frames)
      PROVE  DesktopShape' /\ LinkShape'
  BY <1>0, <1>1, <1>3, <1>4 DEF DesktopShape, LinkShape, AnswerShapes
<1>5. NoGap \in [expected : 0 .. Len(Script), attempts : 0 .. ResendMax]
  BY ScriptFacts DEF NoGap
<1>6. DesktopShape' /\ LinkShape'
  <2>1. CASE ApplyResumeOffsets(answer)
    BY <1>0, <1>4, <2>1 DEF ApplyResumeOffsets, StartsOver, DesktopShape, LinkShape
  <2>2. CASE Acknowledge(answer)
    BY <1>0, <1>4, <1>5, <2>2 DEF Acknowledge, DesktopShape, LinkShape
  <2>3. CASE UNCHANGED <<outbox, sent, gap, link, up>>
    BY <1>0, <1>4, <2>3 DEF DesktopShape, LinkShape
  <2>4. CASE HandleGap(answer)
    <3> DEFINE attempts == IF gap.expected = answer.frame THEN gap.attempts + 1 ELSE 1
               kept == {n \in outbox : n >= answer.frame}
    <3>1. CASE StartsOver
      BY <1>0, <1>4, <3>1 DEF StartsOver, DesktopShape, LinkShape
    <3>2. CASE /\ attempts <= ResendMax /\ answer.frame \in kept
               /\ outbox' = kept
               /\ gap' = [expected |-> answer.frame, attempts |-> attempts]
               /\ sent' = sent \cup {answer.frame}
               /\ up' = Append(up, answer.frame)
               /\ UNCHANGED link
      <4>1. kept \subseteq outbox /\ answer.frame \in outbox
        BY <3>2
      <4>2. attempts \in 0 .. ResendMax
        BY <1>0, <3>2, ScriptFacts DEF DesktopShape
      <4>3. answer.frame \in Frames
        BY <1>0, <4>1, FramesCaptured
      <4>4. up' \in Seq(Frames)
        BY <1>0, <3>2, <4>3, AppendProperties DEF LinkShape
      <4> HIDE DEF attempts, kept
      <4>5. gap' \in [expected : 0 .. Len(Script), attempts : 0 .. ResendMax]
        BY <1>2, <3>2, <4>2
      <4>6. outbox' \subseteq outbox /\ sent' \subseteq sent \cup outbox
        BY <3>2, <4>1
      <4>7. link' \in {"down", "opening", "ready", "failed"}
        BY <1>0, <3>2 DEF LinkShape
      <4> QED
        BY <1>4, <4>4, <4>5, <4>6, <4>7
    <3> QED
      BY <2>3, <2>4, <3>1, <3>2 DEF HandleGap
  <2> QED
    BY <2>1, <2>2, <2>3, <2>4 DEF DesktopReceives, answer
<1>7. SocketShape' /\ WorkShape' /\ RestShape'
  BY DEF DesktopReceives, StreamShapes, SocketShape, WorkShape, RestShape, socket, store, work
<1> QED
  BY <1>6, <1>7 DEF StreamShapes

\* LoseConnection keeps the shapes.
LEMMA LoseConnectionKeepsShapes == ASSUME StreamShapes, LoseConnection PROVE StreamShapes'
<1>1. DesktopShape' /\ LinkShape'
  <2>1. \A A : <<>> \in Seq(A)
    OBVIOUS
  <2> QED
    BY <2>1 DEF StreamShapes, DesktopShape, LinkShape, AnswerShapes, LoseConnection
<1>2. RestShape'
  BY ScriptFacts DEF StreamShapes, RestShape, LoseConnection, work
<1>3. SocketShape' /\ WorkShape'
  BY DEF LoseConnection, StreamShapes, SocketShape, WorkShape, socket, store, work
<1> QED
  BY <1>1, <1>2, <1>3 DEF StreamShapes

\* AckStalled keeps the shapes.
LEMMA AckStalledKeepsShapes == ASSUME StreamShapes, AckStalled PROVE StreamShapes'
<1>1. DesktopShape' /\ LinkShape'
  BY DEF StreamShapes, DesktopShape, LinkShape, AnswerShapes, AckStalled, StartsOver
<1>2. SocketShape' /\ WorkShape' /\ RestShape'
  BY DEF AckStalled, StreamShapes, SocketShape, WorkShape, RestShape, socket, store, work
<1> QED
  BY <1>1, <1>2 DEF StreamShapes

\* Connect keeps the shapes.
LEMMA ConnectKeepsShapes == ASSUME StreamShapes, Connect PROVE StreamShapes'
<1>1. LinkShape'
  <2>1. receipt \in 0 .. Len(Script)
    BY DEF StreamShapes, SocketShape
  <2>2. Answer("resume", receipt) \in AnswerShapes
    BY <2>1, AnswersHaveShape
  <2>3. <<Answer("resume", receipt)>> \in Seq(AnswerShapes)
    BY <2>2
  <2> QED
    BY <2>3 DEF StreamShapes, LinkShape, AnswerShapes, Connect
<1>2. SocketShape'
  BY ScriptFacts DEF StreamShapes, SocketShape, Connect, store
<1>3. DesktopShape' /\ WorkShape' /\ RestShape'
  BY DEF Connect, StreamShapes, DesktopShape, WorkShape, RestShape, desktop, work
<1> QED
  BY <1>1, <1>2, <1>3 DEF StreamShapes

\* A duplicate that is answered keeps the shapes.
LEMMA DuplicateKeepsShapes ==
  ASSUME StreamShapes, NEW n \in Frames, n < expected, AnswerDuplicate(n), closed' = closed
  PROVE  link' = link /\ down' \in Seq(AnswerShapes) /\ SocketShape' /\ WorkShape' /\ seen' = seen
<1>1. expected \in 1 .. Len(Script) + 1 /\ n \in 0 .. Len(Script)
  BY ScriptFacts DEF StreamShapes, SocketShape
<1>2. expected - 1 \in 0 .. Len(Script)
  BY <1>1, ScriptFacts
<1>3. down \in Seq(AnswerShapes)
  BY DEF StreamShapes, LinkShape
<1>4. down' \in Seq(AnswerShapes)
  <2>1. TerminalAnswer(expected - 1, n) \in AnswerShapes /\ Answer("frame", expected - 1) \in AnswerShapes
    BY <1>1, <1>2, AnswersHaveShape
  <2>2. (IF Final(n) THEN TerminalAnswer(expected - 1, n) ELSE Answer("frame", expected - 1)) \in AnswerShapes
    BY <2>1
  <2> QED
    BY <1>3, <2>2, Replied DEF AnswerDuplicate
<1>5. SocketShape'
  BY ScriptFacts DEF AnswerDuplicate, StreamShapes, SocketShape
<1> QED
  BY <1>4, <1>5 DEF AnswerDuplicate, StreamShapes, WorkShape

\* A gap that is answered keeps the shapes.
LEMMA GapKeepsShapes ==
  ASSUME StreamShapes, NEW n \in Frames, AnswerGap(n), closed' = closed
  PROVE  /\ link' \in {"down", "opening", "ready", "failed"} /\ down' \in Seq(AnswerShapes)
         /\ SocketShape' /\ WorkShape' /\ seen' = seen
<1>1. expected \in 1 .. Len(Script) + 1 /\ n \in 1 .. Len(Script) /\ gaps \in 0 .. GapMax - 1
  BY ScriptFacts DEF StreamShapes, SocketShape
<1>2. expected \in 0 .. Len(Script)
  BY <1>1, ScriptFacts DEF AnswerGap
<1>3. down \in Seq(AnswerShapes) /\ link \in {"down", "opening", "ready", "failed"}
  BY DEF StreamShapes, LinkShape
<1>4. down' \in Seq(AnswerShapes) /\ link' \in {"down", "opening", "ready", "failed"}
  <2>1. Answer("gap", expected) \in AnswerShapes
    BY <1>2, AnswersHaveShape
  <2>2. CASE gaps + 1 >= GapMax
    BY <2>2 DEF AnswerGap
  <2>3. CASE ~(gaps + 1 >= GapMax)
    BY <1>3, <2>1, <2>3, Replied DEF AnswerGap
  <2> QED
    BY <2>2, <2>3
<1>5. gaps' \in 0 .. GapMax - 1
  BY <1>1, ScriptFacts DEF AnswerGap
<1>6. SocketShape'
  BY <1>5 DEF AnswerGap, StreamShapes, SocketShape
<1> QED
  BY <1>4, <1>6 DEF AnswerGap, StreamShapes, WorkShape

\* A frame that is admitted keeps the shapes.
LEMMA AdmitKeepsShapes ==
  ASSUME StreamShapes, NEW n \in Frames, Admit(n), closed' = closed
  PROVE  /\ link' = link /\ down' \in Seq(AnswerShapes)
         /\ SocketShape' /\ WorkShape' /\ seen' \subseteq Frames
<1>1. n \in 1 .. Len(Script) /\ n \in 0 .. Len(Script)
  BY ScriptFacts
<1>2. down \in Seq(AnswerShapes)
  BY DEF StreamShapes, LinkShape
<1>3. seen \subseteq Frames
  BY DEF StreamShapes, RestShape
<1>4. CASE Final(n) /\ n \in known
  <2>1. TerminalAnswer(n, n) \in AnswerShapes
    BY <1>1, AnswersHaveShape
  <2>2. Reply(TerminalAnswer(n, n)) /\ link' = link /\ seen' = seen
    BY <1>4 DEF Admit
  <2>3. down' \in Seq(AnswerShapes)
    BY <1>2, <2>1, <2>2, Replied
  <2>4. SocketShape'
    BY <1>1, <1>4, ScriptFacts DEF Admit, StreamShapes, SocketShape
  <2>5. WorkShape'
    BY <1>4 DEF Admit, StreamShapes, WorkShape
  <2> QED
    BY <1>3, <2>2, <2>3, <2>4, <2>5
<1>5. CASE ~(Final(n) /\ n \in known)
  <2>1. /\ link' = link /\ seen' = seen \cup {n} /\ down' = down
        /\ gaps' = 0 /\ expected' = expected /\ receipt' = n /\ queue' = queue
        /\ handler' = [pc |-> "put", frame |-> n, stale |-> FALSE]
        /\ worker' = IF worker.pc \in {"none", "dead"} THEN [pc |-> "wait", jobs |-> <<>>] ELSE worker
    BY <1>5 DEF Admit
  <2>2. SocketShape'
    BY <1>1, <2>1, ScriptFacts DEF StreamShapes, SocketShape
  <2>3. WorkShape'
    <3>1. <<>> \in Seq(FrameJobs)
      OBVIOUS
    <3> QED
      BY <2>1, <3>1 DEF StreamShapes, WorkShape
  <2> QED
    BY <1>2, <1>3, <2>1, <2>2, <2>3
<1> QED
  BY <1>4, <1>5

\* Receive keeps the shapes.
LEMMA ReceiveKeepsShapes == ASSUME StreamShapes, Receive PROVE StreamShapes'
<1> DEFINE n == Head(up)
<1>1. up \in Seq(Frames) /\ up # <<>> /\ link \in {"down", "opening", "ready", "failed"}
  BY DEF StreamShapes, LinkShape, Receive
<1>2. n \in Frames /\ Tail(up) \in Seq(Frames) /\ <<>> \in Seq(Frames)
  BY <1>1, HeadTailProperties
<1>3. expected \in Int /\ n \in Int
  BY <1>2, ScriptFacts DEF StreamShapes, SocketShape
<1> HIDE DEF n
<1>4. \/ n < expected /\ AnswerDuplicate(n)
      \/ AnswerGap(n)
      \/ Admit(n)
  BY DEF Receive, n
<1>5. closed' = closed
  BY DEF Receive
<1>6. /\ link' \in {"down", "opening", "ready", "failed"} /\ down' \in Seq(AnswerShapes)
      /\ SocketShape' /\ WorkShape' /\ seen' \subseteq Frames
  <2>1. seen \subseteq Frames
    BY DEF StreamShapes, RestShape
  <2>2. CASE n < expected /\ AnswerDuplicate(n)
    BY <1>1, <1>2, <1>5, <2>1, <2>2, DuplicateKeepsShapes
  <2>3. CASE AnswerGap(n)
    BY <1>2, <1>5, <2>1, <2>3, GapKeepsShapes
  <2>4. CASE Admit(n)
    BY <1>1, <1>2, <1>5, <2>4, AdmitKeepsShapes
  <2> QED
    BY <1>4, <2>2, <2>3, <2>4
<1>7. DesktopShape'
  BY DEF Receive, StreamShapes, DesktopShape
<1>8. up' \in Seq(Frames)
  BY <1>2 DEF Receive
<1>9. LinkShape'
  BY <1>6, <1>8 DEF LinkShape, AnswerShapes
<1>10. RestShape'
  BY <1>6 DEF Receive, StreamShapes, RestShape
<1> QED
  BY <1>6, <1>7, <1>9, <1>10 DEF StreamShapes

\* RateLimited keeps the shapes.
LEMMA RateLimitedKeepsShapes == ASSUME StreamShapes, RateLimited PROVE StreamShapes'
<1>1. up \in Seq(Frames) /\ up # <<>> /\ down \in Seq(AnswerShapes)
  BY DEF StreamShapes, LinkShape, RateLimited
<1>2. Head(up) \in Frames /\ up' \in Seq(Frames)
  BY <1>1, HeadTailProperties DEF RateLimited
<1>3. Head(up) \in 0 .. Len(Script)
  BY <1>2, ScriptFacts
<1>4. down' \in Seq(AnswerShapes)
  BY <1>1, <1>3, AnswersHaveShape, Replied DEF RateLimited
<1>5. LinkShape'
  BY <1>2, <1>4 DEF StreamShapes, LinkShape, AnswerShapes, RateLimited
<1>6. RestShape'
  <2>1. faults \in [drops : 0 .. Drops, refusals : 0 .. Refusals] /\ faults.refusals < Refusals
        /\ faults' = [faults EXCEPT !.refusals = @ + 1]
    BY DEF StreamShapes, RestShape, RateLimited
  <2>2. faults' \in [drops : 0 .. Drops, refusals : 0 .. Refusals]
    BY <2>1, ScriptFacts
  <2> QED
    BY <2>2 DEF StreamShapes, RestShape, RateLimited, work
<1>7. DesktopShape' /\ SocketShape' /\ WorkShape'
  BY DEF RateLimited, StreamShapes, DesktopShape, SocketShape, WorkShape, desktop, socket, store, work
<1> QED
  BY <1>5, <1>6, <1>7 DEF StreamShapes

\* How a handler leaves the queue: with its frame admitted, refused, or still waiting.
LEMMA HandlerKeepsShapes ==
  ASSUME StreamShapes, handler.pc # "idle",
         \/ Admitted \/ Refused
         \/ handler' = [handler EXCEPT !.pc = "wait"] /\ UNCHANGED <<expected, down>>,
         UNCHANGED <<gaps, receipt, closed>>
  PROVE  SocketShape' /\ down' \in Seq(AnswerShapes)
<1>1. handler.frame \in 0 .. Len(Script) /\ handler.frame \in Frames
  BY DEF StreamShapes, SocketShape
<1>2. Answer("degraded", handler.frame) \in AnswerShapes
  BY <1>1, AnswersHaveShape
<1>3. down' \in Seq(AnswerShapes)
  BY <1>2, Replied DEF StreamShapes, LinkShape, Admitted, Refused
<1>4. handler' \in [pc : {"idle", "put", "wait", "accept"}, frame : 0 .. Len(Script), stale : BOOLEAN]
      /\ (handler'.pc # "idle" => handler'.frame \in Frames)
  <2>1. handler \in [pc : {"idle", "put", "wait", "accept"}, frame : 0 .. Len(Script), stale : BOOLEAN]
    BY DEF StreamShapes, SocketShape
  <2>2. CASE Refused
    BY <2>2, ScriptFacts DEF Refused, NoHandler
  <2>3. CASE ~Refused
    <3>1. PICK p \in {"wait", "accept"} : handler' = [handler EXCEPT !.pc = p]
      BY <2>3 DEF Admitted
    <3> QED
      BY <1>1, <2>1, <3>1
  <2> QED
    BY <2>2, <2>3
<1>5. SocketShape'
  BY <1>4 DEF StreamShapes, SocketShape, Admitted, Refused
<1> QED
  BY <1>3, <1>5

\* A queue that is left alone keeps what it has.
LEMMA QueueKept ==
  ASSUME queue \in Seq(FrameJobs)
  PROVE  Keeps(queue, queue)
BY JobsHave DEF Keeps

\* What Put and WaitForRoom may do to the queue.
QueueTakes(n) ==
  \/ queue' = queue
  \/ Len(queue) < QueueMax /\ queue' = Append(queue, Job(n))
  \/ Partials # {} /\ ReplaceQueuedPartial(n)

\* A queue that takes a frame stays within its size and loses no terminal.
LEMMA TakenIn ==
  ASSUME queue \in Seq(FrameJobs), Len(queue) <= QueueMax, NEW n \in Frames, QueueTakes(n)
  PROVE  /\ queue' \in Seq(FrameJobs) /\ Len(queue') <= QueueMax
         /\ \A f \in FramesOf(queue) : Final(f) => f \in FramesOf(queue')
         /\ FramesOf(queue') \subseteq FramesOf(queue) \cup {n}
         /\ FinalsOnce(queue) /\ (Final(n) => n \notin FramesOf(queue)) => FinalsOnce(queue')
<1>1. Len(queue) \in Nat
  BY JobsHave
<1>2. CASE queue' = queue
  BY <1>2
<1>3. CASE Len(queue) < QueueMax /\ queue' = Append(queue, Job(n))
  <2>1. Job(n) \in FrameJobs /\ Job(n).frame = n
    BY JobIsAJob
  <2>2. /\ queue' \in Seq(FrameJobs) /\ Len(queue') = Len(queue) + 1
        /\ FramesOf(queue') = FramesOf(queue) \cup {n}
        /\ FinalsOnce(queue) /\ (Final(n) => n \notin FramesOf(queue)) => FinalsOnce(queue')
    BY <1>3, <2>1, AppendedJob
  <2> QED
    BY <1>1, <1>3, <2>2, ScriptFacts
<1>4. CASE Partials # {} /\ ReplaceQueuedPartial(n)
  <2>1. /\ Keeps(queue, queue')
        /\ FramesOf(queue') \subseteq FramesOf(queue) \cup {n}
        /\ FinalsOnce(queue) /\ (Final(n) => n \notin FramesOf(queue)) => FinalsOnce(queue')
    BY <1>4, ReplacedPartial
  <2>2. Len(queue') \in Nat
    BY <2>1, JobsHave DEF Keeps
  <2> QED
    BY <1>1, <2>1, <2>2, ScriptFacts DEF Keeps
<1> QED
  BY <1>2, <1>3, <1>4 DEF QueueTakes

\* Put and WaitForRoom: the frame is admitted, refused or still waits.
LEMMA PutTakes ==
  ASSUME Put \/ WaitForRoom
  PROVE  /\ handler.pc \in {"put", "wait"}
         /\ \/ Admitted \/ Refused
            \/ handler' = [handler EXCEPT !.pc = "wait"] /\ UNCHANGED <<expected, down>>
         /\ QueueTakes(handler.frame) /\ (queue' # queue => Admitted)
         /\ lost' = lost \/ lost' = lost \cup {handler.frame}
         /\ UNCHANGED <<desktop, link, up, gaps, store, worker, done, known, seen, faults>>
BY DEF Put, WaitForRoom, QueueTakes

\* Put keeps the shapes.
LEMMA PutKeepsShapes == ASSUME StreamShapes, Put \/ WaitForRoom PROVE StreamShapes'
<1>1. /\ handler.pc \in {"put", "wait"}
      /\ \/ Admitted \/ Refused
         \/ handler' = [handler EXCEPT !.pc = "wait"] /\ UNCHANGED <<expected, down>>
      /\ QueueTakes(handler.frame)
      /\ lost' = lost \/ lost' = lost \cup {handler.frame}
      /\ UNCHANGED <<desktop, link, up, gaps, store, worker, done, known, seen, faults>>
  BY PutTakes
<1>2. handler.frame \in Frames
  BY <1>1 DEF StreamShapes, SocketShape
<1>3. SocketShape' /\ down' \in Seq(AnswerShapes)
  BY <1>1, HandlerKeepsShapes DEF store
<1>4. queue' \in Seq(FrameJobs) /\ Len(queue') <= QueueMax
  BY <1>1, <1>2, TakenIn DEF StreamShapes, WorkShape
<1>5. WorkShape'
  BY <1>1, <1>4 DEF StreamShapes, WorkShape
<1>6. DesktopShape' /\ LinkShape'
  BY <1>1, <1>3 DEF StreamShapes, DesktopShape, LinkShape, AnswerShapes, desktop
<1>7. RestShape'
  BY <1>1, <1>2 DEF StreamShapes, RestShape
<1> QED
  BY <1>3, <1>5, <1>6, <1>7 DEF StreamShapes

\* Accept keeps the shapes.
LEMMA AcceptKeepsShapes == ASSUME StreamShapes, Accept PROVE StreamShapes'
<1> DEFINE n == handler.frame
<1>1. n \in Frames /\ n \in 1 .. Len(Script) /\ n \in 0 .. Len(Script)
  BY ScriptFacts DEF StreamShapes, SocketShape, Accept
<1>2. down' \in Seq(AnswerShapes)
  <2>1. (IF Final(n) THEN TerminalAnswer(n, n) ELSE Answer("frame", n)) \in AnswerShapes
    BY <1>1, AnswersHaveShape
  <2> QED
    BY <2>1, Replied DEF StreamShapes, LinkShape, Accept
<1>3. DesktopShape' /\ LinkShape'
  BY <1>2 DEF StreamShapes, DesktopShape, LinkShape, AnswerShapes, desktop, Accept
<1>4. SocketShape'
  BY <1>1, ScriptFacts DEF StreamShapes, SocketShape, Accept, store, NoHandler
<1>5. WorkShape'
  <2>1. queue \in Seq(FrameJobs) /\ Len(queue) \in Nat /\ Len(queue) <= QueueMax
    BY JobsHave DEF StreamShapes, WorkShape
  <2>2. Keeps(queue, queue')
    BY <2>1, QueueKept, PromotedTerminal DEF Accept
  <2>3. queue' \in Seq(FrameJobs) /\ Len(queue') \in Nat /\ Len(queue') <= Len(queue)
    BY <2>2, JobsHave DEF Keeps
  <2>4. Len(queue') <= QueueMax
    BY <2>1, <2>3, ScriptFacts
  <2> QED
    BY <2>3, <2>4 DEF StreamShapes, WorkShape, Accept
<1>6. RestShape'
  BY <1>1 DEF StreamShapes, RestShape, Accept
<1> QED
  BY <1>3, <1>4, <1>5, <1>6 DEF StreamShapes

\* What the worker takes off the queue, it has: no terminal stays behind twice or is lost.
LEMMA WorkerTook ==
  ASSUME queue \in Seq(FrameJobs), WorkerTakes
  PROVE  /\ queue' \in Seq(FrameJobs) /\ Len(queue') <= Len(queue)
         /\ \E jobs \in Seq(FrameJobs) : jobs # <<>> /\ worker' = [pc |-> "busy", jobs |-> jobs]
         /\ FramesOf(queue') \subseteq FramesOf(queue)
         /\ FramesOf(worker'.jobs) \subseteq FramesOf(queue)
         /\ \A f \in FramesOf(queue) : Final(f) => f \in FramesOf(queue') \/ f \in FramesOf(worker'.jobs)
         /\ FinalsOnce(queue) =>
              /\ FinalsOnce(queue') /\ FinalsOnce(worker'.jobs)
              /\ \A f \in FramesOf(queue') : Final(f) => f \notin FramesOf(worker'.jobs)
<1> DEFINE l == Len(queue)
           n == 1 + TakeCount(l - 1)
           part == SubSeq(queue, 1, n)
           jobs == Coalesced(part)
<1>1. l \in Nat \ {0} /\ DOMAIN queue = 1 .. l
  BY JobsHave, EmptySeq DEF WorkerTakes
<1>2. TakeCount(l - 1) \in 0 .. l - 1
  BY <1>1, TakeCountFits
<1>3. queue' = SubSeq(queue, n + 1, l) /\ worker' = [pc |-> "busy", jobs |-> jobs]
  BY DEF WorkerTakes
<1>4. n \in 1 .. l
  BY <1>1, <1>2
<1> HIDE DEF n
<1>5. 1 \in 1 .. l + 1 /\ n \in 0 .. l /\ n + 1 \in 1 .. l + 1 /\ l \in 0 .. l
  BY <1>1, <1>4
<1>6. /\ part \in Seq(FrameJobs) /\ Len(part) = n
      /\ FramesOf(part) = {queue[i].frame : i \in 1 .. n}
      /\ FinalsOnce(queue) => FinalsOnce(part)
  <2>1. 1 <= n /\ n - 1 + 1 = n
    BY <1>4
  <2> QED
    BY <1>5, <2>1, PartOfJobs, PartFrames
<1>7. /\ queue' \in Seq(FrameJobs)
      /\ FramesOf(queue') = {queue[i].frame : i \in n + 1 .. l}
      /\ FinalsOnce(queue) => FinalsOnce(queue')
      /\ Len(queue') = IF n + 1 <= l THEN l - (n + 1) + 1 ELSE 0
  BY <1>3, <1>5, PartOfJobs, PartFrames
<1>8. Len(queue') <= l
  <2> DEFINE q == queue'
  <2>1. Len(q) = IF n + 1 <= l THEN l - (n + 1) + 1 ELSE 0
    BY <1>7
  <2> HIDE DEF q, l
  <2>2. Len(q) <= l
    BY <1>1, <1>4, <2>1
  <2> QED
    BY <2>2 DEF q, l
<1>9. FoldsTo(jobs, part, DOMAIN part) /\ DOMAIN part = 1 .. n
  BY <1>6, CoalescedJobs, JobsHave
<1> HIDE DEF part, jobs, l
<1>10. /\ jobs \in Seq(FrameJobs) /\ jobs # <<>> /\ FramesOf(jobs) \subseteq FramesOf(part)
       /\ \A f \in FramesOf(part) : Final(f) => f \in FramesOf(jobs)
       /\ FinalsOnce(part) => FinalsOnce(jobs)
  <2>1. 1 \in DOMAIN part
    BY <1>4, <1>9
  <2> QED
    BY <1>9, <2>1 DEF FoldsTo, FramesOf
<1>11. /\ \A i \in 1 .. n : i \in DOMAIN queue /\ i \notin n + 1 .. l
       /\ \A i \in n + 1 .. l : i \in DOMAIN queue
       /\ \A i \in DOMAIN queue : i \in 1 .. n \/ i \in n + 1 .. l
  BY <1>1, <1>4
<1>12. FramesOf(queue) = FramesOf(part) \cup FramesOf(queue')
  BY <1>6, <1>7, <1>11 DEF FramesOf
<1>13. ASSUME FinalsOnce(queue), NEW f \in FramesOf(queue'), Final(f)
       PROVE  f \notin FramesOf(part)
  BY <1>6, <1>7, <1>11, <1>13 DEF FinalsOnce
<1>14. worker'.jobs = jobs
  BY <1>3
<1> QED
  BY <1>3, <1>6, <1>7, <1>8, <1>10, <1>12, <1>13, <1>14 DEF l

\* WorkerTakes keeps the shapes.
LEMMA WorkerTakesKeepsShapes == ASSUME StreamShapes, WorkerTakes PROVE StreamShapes'
<1>1. queue \in Seq(FrameJobs) /\ Len(queue) \in Nat /\ Len(queue) <= QueueMax
  BY JobsHave DEF StreamShapes, WorkShape
<1>2. /\ queue' \in Seq(FrameJobs) /\ Len(queue') <= Len(queue)
      /\ \E jobs \in Seq(FrameJobs) : jobs # <<>> /\ worker' = [pc |-> "busy", jobs |-> jobs]
  BY <1>1, WorkerTook
<1>3. Len(queue') <= QueueMax
  BY <1>1, <1>2, JobsHave, ScriptFacts
<1>4. WorkShape'
  BY <1>2, <1>3 DEF WorkShape
<1>5. DesktopShape' /\ LinkShape' /\ SocketShape' /\ RestShape'
  BY DEF StreamShapes, DesktopShape, LinkShape, AnswerShapes, SocketShape, RestShape, WorkerTakes,
         desktop, socket, store
<1> QED
  BY <1>4, <1>5 DEF StreamShapes

\* A busy worker has a job at hand.
LEMMA WorkerHasJob ==
  ASSUME StreamShapes, worker.pc = "busy"
  PROVE  /\ worker.jobs \in Seq(FrameJobs) /\ worker.jobs # <<>>
         /\ Head(worker.jobs) \in FrameJobs /\ Tail(worker.jobs) \in Seq(FrameJobs)
         /\ Head(worker.jobs).frame \in Frames /\ Turn(Head(worker.jobs).frame) \in Turns
<1>1. worker.jobs \in Seq(FrameJobs) /\ worker.jobs # <<>>
  BY DEF StreamShapes, WorkShape
<1> QED
  BY <1>1, RestOfJobs, ScriptFacts DEF FrameJobs

\* WorkerProcesses keeps the shapes.
LEMMA WorkerProcessesKeepsShapes == ASSUME StreamShapes, WorkerProcesses PROVE StreamShapes'
<1> DEFINE held == Head(worker.jobs)
           t == Turn(held.frame)
           rest == Tail(worker.jobs)
<1>1. held.frame \in Frames /\ t \in Turns /\ rest \in Seq(FrameJobs)
  BY WorkerHasJob DEF WorkerProcesses
<1>2. /\ receipt' = held.frame
      /\ worker' = [pc |-> IF rest = <<>> THEN "wait" ELSE "busy", jobs |-> rest]
      /\ \/ UNCHANGED <<closed, done>>
         \/ /\ done' = done \cup {held.frame}
            /\ \/ closed' = closed
               \/ \E x \in {"open", "final", "incomplete"} : closed' = [closed EXCEPT ![t] = x]
      /\ UNCHANGED <<desktop, link, up, down, socket, queue, lost, known, seen, faults>>
  BY DEF WorkerProcesses
<1> HIDE DEF held, t, rest
<1>3. WorkShape'
  BY <1>1, <1>2 DEF StreamShapes, WorkShape
<1>4. closed' \in [Turns -> {"open", "final", "incomplete"}]
  BY <1>1, <1>2 DEF StreamShapes, SocketShape
<1>5. SocketShape'
  BY <1>1, <1>2, <1>4, ScriptFacts DEF StreamShapes, SocketShape, socket
<1>6. DesktopShape' /\ LinkShape'
  BY <1>2 DEF StreamShapes, DesktopShape, LinkShape, AnswerShapes, desktop
<1>7. RestShape'
  BY <1>1, <1>2 DEF StreamShapes, RestShape
<1> QED
  BY <1>3, <1>5, <1>6, <1>7 DEF StreamShapes

\* A worker that dies, waits in vain or leaves keeps the shapes.
LEMMA WorkerEndsKeepsShapes ==
  ASSUME StreamShapes, WorkerDies \/ WorkerTimesOut \/ WorkerExits
  PROVE  StreamShapes'
<1>1. <<>> \in Seq(FrameJobs)
  OBVIOUS
<1>2. WorkShape'
  <2>0. /\ queue \in Seq(FrameJobs) /\ Len(queue) <= QueueMax
        /\ worker \in [pc : {"none", "dead", "wait", "exit", "busy"}, jobs : Seq(FrameJobs)]
    BY DEF StreamShapes, WorkShape
  <2>1. queue' = queue
    BY DEF WorkerDies, WorkerTimesOut, WorkerExits
  <2>2. \/ worker' \in {[pc |-> "dead", jobs |-> <<>>], NoWorker}
        \/ worker' = [worker EXCEPT !.pc = "exit"]
        \/ worker' = [worker EXCEPT !.pc = "wait"]
    BY DEF WorkerDies, WorkerTimesOut, WorkerExits
  <2>3. worker' \in [pc : {"none", "dead", "wait", "exit", "busy"}, jobs : Seq(FrameJobs)]
        /\ worker'.pc # "busy"
    <3>1. CASE worker' \in {[pc |-> "dead", jobs |-> <<>>], NoWorker}
      <4>1. PICK p \in {"dead", "none"} : worker' = [pc |-> p, jobs |-> <<>>]
        BY <3>1 DEF NoWorker
      <4> QED
        BY <1>1, <4>1
    <3>2. ASSUME NEW p \in {"exit", "wait"}, worker' = [worker EXCEPT !.pc = p]
          PROVE  /\ worker' \in [pc : {"none", "dead", "wait", "exit", "busy"}, jobs : Seq(FrameJobs)]
                 /\ worker'.pc # "busy"
      BY <2>0, <3>2
    <3> QED
      BY <2>2, <3>1, <3>2
  <2> QED
    BY <2>0, <2>1, <2>3 DEF WorkShape
<1>3. SocketShape'
  BY DEF StreamShapes, SocketShape, WorkerDies, WorkerTimesOut, WorkerExits, socket, store
<1>4. DesktopShape' /\ LinkShape' /\ RestShape'
  BY DEF StreamShapes, DesktopShape, LinkShape, AnswerShapes, RestShape, WorkerDies, WorkerTimesOut,
         WorkerExits, desktop
<1> QED
  BY <1>2, <1>3, <1>4 DEF StreamShapes

\* TurnLapses keeps the shapes.
LEMMA TurnLapsesKeepsShapes == ASSUME StreamShapes, TurnLapses PROVE StreamShapes'
<1>1. SocketShape'
  BY DEF StreamShapes, SocketShape, TurnLapses, socket
<1>2. DesktopShape' /\ LinkShape' /\ WorkShape' /\ RestShape'
  BY DEF StreamShapes, DesktopShape, LinkShape, AnswerShapes, WorkShape, RestShape, TurnLapses, desktop, work
<1> QED
  BY <1>1, <1>2 DEF StreamShapes

\* A step that changes nothing keeps the shapes.
LEMMA StutterKeepsShapes == ASSUME StreamShapes, UNCHANGED streamVars PROVE StreamShapes'
BY DEF StreamShapes, DesktopShape, LinkShape, AnswerShapes, SocketShape, WorkShape, RestShape,
       streamVars, desktop, socket, store, work

\* Every step keeps the shapes.
LEMMA ShapesKept == ASSUME StreamShapes, [StreamNext]_streamVars PROVE StreamShapes'
BY CaptureKeepsShapes, FlushKeepsShapes, DesktopReceivesKeepsShapes, LoseConnectionKeepsShapes,
   AckStalledKeepsShapes, ConnectKeepsShapes, ReceiveKeepsShapes, RateLimitedKeepsShapes,
   PutKeepsShapes, AcceptKeepsShapes, WorkerTakesKeepsShapes, WorkerProcessesKeepsShapes,
   WorkerEndsKeepsShapes, TurnLapsesKeepsShapes, StutterKeepsShapes DEF StreamNext

\* The shapes hold in every behaviour.
LEMMA ShapesHold == StreamSpec => []StreamShapes
<1>1. StreamInit => StreamShapes
  BY ShapesStart
<1>2. StreamShapes /\ [StreamNext]_streamVars => StreamShapes'
  BY ShapesKept
<1> QED
  BY <1>1, <1>2, PTL DEF StreamSpec

\* Every variable of the stream keeps its shape: the queue within its size, a frame in hand of the
\* script, a busy worker with a job.
THEOREM StreamTyped == StreamSpec => []StreamTypeOK
<1>1. StreamShapes => StreamTypeOK
  BY ShapesAreTyped
<1> QED
  BY <1>1, ShapesHold, PTL

-----------------------------------------------------------------------------
(* A terminal that is queued leaves the queue only with the worker.        *)

\* Under pressure, on promotion and on a take, over every order of the socket and the worker.
TerminalsStay ==
  \A f \in FramesOf(queue) : Final(f) => f \in FramesOf(queue') \cup FramesOf(worker'.jobs)

\* Every step leaves the queued terminals in the queue or with the worker.
LEMMA StepKeepsTerminals ==
  ASSUME StreamShapes, [StreamNext]_streamVars
  PROVE  TerminalsStay
<1>0. queue \in Seq(FrameJobs) /\ Len(queue) <= QueueMax
  BY DEF StreamShapes, WorkShape
<1>1. CASE queue' = queue
  BY <1>1 DEF TerminalsStay
<1>2. CASE Put \/ WaitForRoom
  <2>1. handler.pc \in {"put", "wait"} /\ QueueTakes(handler.frame)
    BY <1>2, PutTakes
  <2>2. handler.frame \in Frames
    BY <2>1 DEF StreamShapes, SocketShape
  <2> QED
    BY <1>0, <2>1, <2>2, TakenIn DEF TerminalsStay
<1>3. CASE Accept
  BY <1>0, <1>3, QueueKept, PromotedTerminal DEF Accept, TerminalsStay, Keeps
<1>4. CASE WorkerTakes
  BY <1>0, <1>4, WorkerTook DEF TerminalsStay
<1>5. queue' = queue \/ Put \/ WaitForRoom \/ Accept \/ WorkerTakes
  BY DEF StreamNext, streamVars, work, Capture, Flush, DesktopReceives, LoseConnection, AckStalled,
         Connect, Receive, AnswerDuplicate, AnswerGap, Admit, RateLimited, WorkerProcesses, WorkerDies,
         WorkerTimesOut, WorkerExits, TurnLapses
<1> QED
  BY <1>1, <1>2, <1>3, <1>4, <1>5

\* Pressure evicts partials only: a queued terminal stays queued until the worker takes it.
THEOREM QueuedTerminalsStay == StreamSpec => QueuedTerminalStays
<1>1. StreamShapes /\ [StreamNext]_streamVars
        => [\A i \in DOMAIN queue :
              Final(queue[i].frame) =>
                \/ \E j \in DOMAIN queue' : queue'[j].frame = queue[i].frame
                \/ \E j \in DOMAIN worker'.jobs : worker'.jobs[j].frame = queue[i].frame]_streamVars
  BY StepKeepsTerminals DEF TerminalsStay, FramesOf
<1> QED
  BY <1>1, ShapesHold, PTL DEF StreamSpec, QueuedTerminalStays

-----------------------------------------------------------------------------
(* A terminal is processed once                                            *)

\* No terminal is anywhere at the start.
LEMMA OnceStarts == StreamInit => OnceInv
BY DEF StreamInit, OnceInv, FinalsOnce, FramesOf, NoWorker, NoHandler

\* The steps that leave the queue, the jobs in hand and what is done alone, and forget no terminal.
LEMMA OthersKeepOnce ==
  ASSUME StreamShapes, OnceInv, UNCHANGED <<queue, done, known>>, worker'.jobs \in {worker.jobs, <<>>},
         \/ handler' = handler
         \/ handler' = [handler EXCEPT !.stale = handler.pc = "put"]
         \/ handler.pc = "idle" /\ (handler'.pc # "idle" /\ Final(handler'.frame) => handler'.frame \notin known)
         \/ handler' = NoHandler /\ handler.pc \in {"put", "wait"}
  PROVE  OnceInv'
<1>1. FinalsOnce(<<>>) /\ FramesOf(<<>>) = {}
  BY DEF FinalsOnce, FramesOf
<1>2. handler \in [pc : {"idle", "put", "wait", "accept"}, frame : 0 .. Len(Script), stale : BOOLEAN]
  BY DEF StreamShapes, SocketShape
<1>3. CASE handler' = handler \/ handler' = [handler EXCEPT !.stale = handler.pc = "put"]
  <2>1. handler'.pc = handler.pc /\ handler'.frame = handler.frame
    BY <1>2, <1>3
  <2> QED
    BY <1>1, <2>1 DEF OnceInv, Entered
<1>4. CASE handler.pc = "idle" /\ (handler'.pc # "idle" /\ Final(handler'.frame) => handler'.frame \notin known)
  BY <1>1, <1>4 DEF OnceInv, Entered
<1>5. CASE handler' = NoHandler /\ handler.pc \in {"put", "wait"}
  BY <1>1, <1>5 DEF OnceInv, Entered, NoHandler
<1> QED
  BY <1>3, <1>4, <1>5

\* Put keeps every terminal in one place.
LEMMA PutKeepsOnce == ASSUME StreamShapes, OnceInv, Put \/ WaitForRoom PROVE OnceInv'
<1> DEFINE n == handler.frame
<1>1. /\ handler.pc \in {"put", "wait"}
      /\ \/ Admitted \/ Refused
         \/ handler' = [handler EXCEPT !.pc = "wait"] /\ UNCHANGED <<expected, down>>
      /\ QueueTakes(n) /\ (queue' # queue => Admitted)
      /\ UNCHANGED <<worker, done, known>>
  BY PutTakes
<1>2. /\ handler \in [pc : {"idle", "put", "wait", "accept"}, frame : 0 .. Len(Script), stale : BOOLEAN]
      /\ n \in Frames /\ queue \in Seq(FrameJobs) /\ Len(queue) <= QueueMax
  BY <1>1 DEF StreamShapes, SocketShape, WorkShape
<1>3. \A f : Entered(f) => f \in known
  BY <1>1 DEF Entered
<1>4. Final(n) => n \notin known
  BY <1>1 DEF OnceInv
<1>5. CASE Admitted
  <2>1. handler'.pc = "accept" /\ handler'.frame = n
    BY <1>2, <1>5 DEF Admitted
  <2>2. Final(n) => n \notin FramesOf(queue) /\ n \notin FramesOf(worker.jobs) /\ n \notin done
    BY <1>3, <1>4 DEF OnceInv
  <2>3. FinalsOnce(queue') /\ FramesOf(queue') \subseteq FramesOf(queue) \cup {n}
    BY <1>1, <1>2, <2>2, TakenIn DEF OnceInv
  <2>4. \A f : Entered(f) \/ f = n => Entered(f)'
    BY <1>1, <1>3, <2>1 DEF Entered
  <2>5. \A f \in FramesOf(queue') : Final(f) => f \notin FramesOf(worker.jobs) /\ f \notin done /\ (Entered(f) \/ f = n)
    BY <2>2, <2>3 DEF OnceInv
  <2> HIDE DEF n
  <2> QED
    BY <1>1, <1>4, <2>1, <2>3, <2>4, <2>5 DEF OnceInv, n
<1>6. CASE ~Admitted
  <2>1. queue' = queue
    BY <1>1, <1>6
  <2>2. handler'.pc = "idle" \/ (handler'.pc = "wait" /\ handler'.frame = n)
    BY <1>1, <1>2, <1>6 DEF Refused, NoHandler
  <2>3. \A f : Entered(f) => Entered(f)'
    BY <1>1, <1>3 DEF Entered
  <2> QED
    BY <1>1, <1>4, <2>1, <2>2, <2>3 DEF OnceInv
<1> QED
  BY <1>5, <1>6

\* Accept keeps every terminal in one place.
LEMMA AcceptKeepsOnce == ASSUME StreamShapes, OnceInv, Accept PROVE OnceInv'
<1>1. /\ handler.pc = "accept" /\ handler'.pc = "idle"
      /\ known' = IF Final(handler.frame) THEN known \cup {handler.frame} ELSE known
      /\ UNCHANGED <<worker, done>>
  BY DEF Accept, NoHandler
<1>2. \A f : Final(f) /\ Entered(f) => Entered(f)'
  BY <1>1 DEF Entered
<1>3. FramesOf(queue') \subseteq FramesOf(queue) /\ FinalsOnce(queue')
  BY PromotedTerminal DEF Accept, OnceInv, StreamShapes, WorkShape
<1> QED
  BY <1>1, <1>2, <1>3 DEF OnceInv

\* WorkerTakes keeps every terminal in one place.
LEMMA WorkerTakesKeepsOnce == ASSUME StreamShapes, OnceInv, WorkerTakes PROVE OnceInv'
<1>1. /\ FramesOf(queue') \subseteq FramesOf(queue) /\ FramesOf(worker'.jobs) \subseteq FramesOf(queue)
      /\ FinalsOnce(queue') /\ FinalsOnce(worker'.jobs)
      /\ \A f \in FramesOf(queue') : Final(f) => f \notin FramesOf(worker'.jobs)
  BY WorkerTook DEF OnceInv, StreamShapes, WorkShape
<1>2. UNCHANGED <<handler, done, known>>
  BY DEF WorkerTakes, socket
<1>3. \A f : Entered(f) => Entered(f)'
  BY <1>2 DEF Entered
<1> QED
  BY <1>1, <1>2, <1>3 DEF OnceInv

\* WorkerProcesses keeps every terminal in one place.
LEMMA WorkerProcessesKeepsOnce == ASSUME StreamShapes, OnceInv, WorkerProcesses PROVE OnceInv'
<1> DEFINE held == Head(worker.jobs)
           rest == Tail(worker.jobs)
<1>1. worker.jobs \in Seq(FrameJobs) /\ worker.jobs # <<>>
  BY WorkerHasJob DEF WorkerProcesses
<1>2. /\ FramesOf(worker.jobs) = FramesOf(rest) \cup {held.frame}
      /\ FinalsOnce(rest) /\ (Final(held.frame) => held.frame \notin FramesOf(rest))
  BY <1>1, RestOfJobs DEF OnceInv
<1>3. worker'.jobs = rest /\ (done' = done \/ done' = done \cup {held.frame}) /\ UNCHANGED <<handler, queue, known>>
  BY DEF WorkerProcesses, socket
<1> HIDE DEF held, rest
<1>4. \A f : Entered(f) => Entered(f)'
  BY <1>3 DEF Entered
<1>5. Final(held.frame) => held.frame \notin FramesOf(queue) /\ Entered(held.frame)
  BY <1>2 DEF OnceInv
<1> QED
  BY <1>2, <1>3, <1>4, <1>5 DEF OnceInv

\* Every step keeps terminals in one place.
LEMMA OnceKept == ASSUME StreamShapes, OnceInv, [StreamNext]_streamVars PROVE OnceInv'
<1>1. CASE Put \/ WaitForRoom
  BY <1>1, PutKeepsOnce
<1>2. CASE Accept
  BY <1>2, AcceptKeepsOnce
<1>3. CASE WorkerTakes
  BY <1>3, WorkerTakesKeepsOnce
<1>4. CASE WorkerProcesses
  BY <1>4, WorkerProcessesKeepsOnce
<1>5. CASE Receive
  <2>1. UNCHANGED <<queue, done, known>>
    BY <1>5 DEF Receive, AnswerDuplicate, AnswerGap, Admit
  <2>2. worker'.jobs = worker.jobs \/ worker'.jobs = <<>>
    BY <1>5 DEF Receive, AnswerDuplicate, AnswerGap, Admit
  <2>3. \/ handler' = handler
        \/ handler.pc = "idle" /\ (handler'.pc # "idle" /\ Final(handler'.frame) => handler'.frame \notin known)
    BY <1>5 DEF Receive, AnswerDuplicate, AnswerGap, Admit
  <2> QED
    BY <2>1, <2>2, <2>3, OthersKeepOnce
<1>6. CASE WorkerDies \/ WorkerTimesOut \/ WorkerExits
  <2>1. UNCHANGED <<queue, done, known>>
    BY <1>6 DEF WorkerDies, WorkerTimesOut, WorkerExits
  <2>2. worker \in [pc : {"none", "dead", "wait", "exit", "busy"}, jobs : Seq(FrameJobs)]
    BY DEF StreamShapes, WorkShape
  <2>3. worker'.jobs = worker.jobs \/ worker'.jobs = <<>>
    BY <1>6, <2>2 DEF WorkerDies, WorkerTimesOut, WorkerExits, NoWorker
  <2>4. handler' = handler \/ handler' = [handler EXCEPT !.stale = handler.pc = "put"]
    BY <1>6 DEF WorkerDies, WorkerTimesOut, WorkerExits, socket
  <2> QED
    BY <2>1, <2>3, <2>4, OthersKeepOnce
<1>7. CASE \/ Capture \/ Flush \/ DesktopReceives \/ LoseConnection \/ AckStalled \/ Connect
           \/ RateLimited \/ TurnLapses \/ UNCHANGED streamVars
  <2>1. UNCHANGED <<queue, done, known, worker, handler>>
    BY <1>7 DEF Capture, Flush, DesktopReceives, LoseConnection, AckStalled, Connect, RateLimited,
                TurnLapses, streamVars, socket, work
  <2> QED
    BY <2>1, OthersKeepOnce
<1> QED
  BY <1>1, <1>2, <1>3, <1>4, <1>5, <1>6, <1>7 DEF StreamNext

\* Terminals are in one place in every behaviour.
LEMMA OnceHolds == StreamSpec => []OnceInv
<1>1. StreamInit => OnceInv
  BY OnceStarts
<1>2. StreamShapes /\ OnceInv /\ [StreamNext]_streamVars => OnceInv'
  BY OnceKept
<1> QED
  BY <1>1, <1>2, ShapesHold, PTL DEF StreamSpec

\* A set without two members has one at most.
LEMMA AtMostOnePlace ==
  ASSUME NEW S, \A x, y \in S : x = y
  PROVE  Cardinality(S) \in Nat /\ Cardinality(S) <= 1 /\ (S = {} => Cardinality(S) = 0)
<1>1. CASE S = {}
  BY <1>1, FS_EmptySet
<1>2. CASE S # {}
  <2>1. PICK x \in S : S = {x}
    BY <1>2
  <2> QED
    BY <2>1, FS_Singleton
<1> QED
  BY <1>1, <1>2

\* Being in one place is what the property counts.
LEMMA OnceIsOnce == OnceInv => TerminalProcessedOnce
<1> SUFFICES ASSUME OnceInv, NEW n \in Frames, Final(n)
             PROVE  Cardinality({i \in DOMAIN queue : queue[i].frame = n})
                      + Cardinality({i \in DOMAIN worker.jobs : worker.jobs[i].frame = n})
                      + Cardinality(done \cap {n}) <= 1
  BY DEF TerminalProcessedOnce
<1> DEFINE Q == {i \in DOMAIN queue : queue[i].frame = n}
           W == {i \in DOMAIN worker.jobs : worker.jobs[i].frame = n}
           E == done \cap {n}
<1>1. \A x, y \in Q : x = y
  BY DEF OnceInv, FinalsOnce
<1>2. \A x, y \in W : x = y
  BY DEF OnceInv, FinalsOnce
<1>3. \A x, y \in E : x = y
  OBVIOUS
<1>4. (Q = {} /\ W = {}) \/ (Q = {} /\ E = {}) \/ (W = {} /\ E = {})
  BY DEF OnceInv, FramesOf
<1> HIDE DEF Q, W, E
<1>5. /\ Cardinality(Q) \in Nat /\ Cardinality(Q) <= 1 /\ (Q = {} => Cardinality(Q) = 0)
      /\ Cardinality(W) \in Nat /\ Cardinality(W) <= 1 /\ (W = {} => Cardinality(W) = 0)
      /\ Cardinality(E) \in Nat /\ Cardinality(E) <= 1 /\ (E = {} => Cardinality(E) = 0)
  BY <1>1, <1>2, <1>3, AtMostOnePlace
<1>6. Cardinality(Q) + Cardinality(W) + Cardinality(E) <= 1
  BY <1>4, <1>5
<1> QED
  BY <1>6 DEF Q, W, E

\* A terminal is in the queue, with the worker or done at most once, however often the desktop sends
\* it again: it enters the queue before it is known as accepted, and what is known enters no more.
THEOREM TerminalsProcessedOnce == StreamSpec => []TerminalProcessedOnce
BY OnceHolds, OnceIsOnce, PTL

-----------------------------------------------------------------------------
(* A frame the desktop let go of was received                              *)

\* Nothing was let go of at the start.
LEMMA SeenStarts == StreamInit => SeenInv
<1> SUFFICES ASSUME StreamInit PROVE SeenInv
  OBVIOUS
<1>1. <<>> \in Seq(TrueAnswers)
  OBVIOUS
<1>2. 1 .. 0 = {}
  OBVIOUS
<1>3. FramesOf(<<>>) = {}
  BY DEF FramesOf
<1>4. 1 - 1 = 0
  OBVIOUS
<1>5. Below(expected - 1) /\ Below(receipt) /\ RetiredWasReceived
  BY <1>2, <1>4 DEF StreamInit, Below, RetiredWasReceived
<1> QED
  BY <1>1, <1>3, <1>5 DEF StreamInit, SeenInv, SocketSeen, WorkSeen, AnswersTrue, NoHandler, NoWorker

\* What answers say of receipts stays true as receipts are added.
LEMMA SeenGrows ==
  ASSUME seen \subseteq seen'
  PROVE  /\ \A k : Below(k) => Below(k)'
         /\ TrueAnswers \subseteq TrueAnswers'
         /\ \A s \in Seq(TrueAnswers) : s \in Seq(TrueAnswers')
<1>1. \A k : Below(k) => Below(k)'
  BY DEF Below
<1>2. TrueAnswers \subseteq TrueAnswers'
  BY <1>1 DEF TrueAnswers, AnswerShapes
<1>3. \A s \in Seq(TrueAnswers) : s \in Seq(TrueAnswers')
  BY <1>2, SeqMonotonic
<1> QED
  BY <1>1, <1>2, <1>3

\* The sequences that are compared are numbers.
LEMMA NumbersInHand ==
  ASSUME StreamShapes
  PROVE  /\ expected \in Nat \ {0} /\ receipt \in Nat /\ made \in Nat
         /\ Frames \subseteq Nat \ {0} /\ outbox \subseteq 1 .. made
BY ScriptFacts DEF StreamShapes, SocketShape, DesktopShape

\* Capture acknowledges nothing that was not received.
LEMMA CaptureKeepsSeen == ASSUME StreamShapes, SeenInv, Capture PROVE SeenInv'
<1>1. UNCHANGED <<link, down, socket, store, work, known, seen>>
  BY DEF Capture
<1>2. SocketSeen' /\ WorkSeen' /\ AnswersTrue'
  BY <1>1 DEF SeenInv, SocketSeen, WorkSeen, AnswersTrue, TrueAnswers, Below, socket, store, work
<1>3. (1 .. made') \ outbox' \subseteq (1 .. made) \ outbox
  BY NumbersInHand DEF Capture
<1>4. RetiredWasReceived'
  BY <1>1, <1>3 DEF SeenInv, RetiredWasReceived
<1> QED
  BY <1>2, <1>4 DEF SeenInv

\* The desktop, the network and the socket's refusals change nothing of what was received.
LEMMA OthersKeepSeen ==
  ASSUME SeenInv, UNCHANGED <<made, outbox, expected, receipt, handler, queue, worker, known, seen>>,
         down' = down \/ down' = <<>>, link # "failed" \/ link' = "failed"
  PROVE  SeenInv'
<1>1. <<>> \in Seq(TrueAnswers)
  OBVIOUS
<1>2. AnswersTrue'
  BY <1>1 DEF SeenInv, AnswersTrue, TrueAnswers, Below, AnswerShapes
<1>3. SocketSeen' /\ WorkSeen'
  BY DEF SeenInv, SocketSeen, WorkSeen, Below
<1>4. RetiredWasReceived'
  BY DEF SeenInv, RetiredWasReceived
<1> QED
  BY <1>2, <1>3, <1>4 DEF SeenInv

\* Connect acknowledges nothing that was not received.
LEMMA ConnectKeepsSeen == ASSUME StreamShapes, SeenInv, Connect PROVE SeenInv'
<1>1. /\ UNCHANGED <<made, outbox, receipt, handler, queue, worker, known, seen>>
      /\ expected' = receipt + 1 /\ down' = <<Answer("resume", receipt)>> /\ link # "failed"
  BY DEF Connect, desktop, store, work
<1>2. Answer("resume", receipt) \in TrueAnswers
  <2>1. Answer("resume", receipt) \in AnswerShapes
    BY AnswersHaveShape DEF StreamShapes, SocketShape
  <2> QED
    BY <2>1 DEF TrueAnswers, Answer, SeenInv, SocketSeen
<1>3. AnswersTrue'
  <2>1. down' \in Seq(TrueAnswers)
    BY <1>1, <1>2
  <2> QED
    BY <1>1, <2>1 DEF AnswersTrue, TrueAnswers, Below, AnswerShapes
<1>4. expected' - 1 = receipt
  BY <1>1, NumbersInHand
<1>5. SocketSeen' /\ WorkSeen'
  BY <1>1, <1>4 DEF SeenInv, SocketSeen, WorkSeen, Below
<1>6. RetiredWasReceived'
  BY <1>1 DEF SeenInv, RetiredWasReceived
<1> QED
  BY <1>3, <1>5, <1>6 DEF SeenInv

\* DesktopReceives acknowledges nothing that was not received.
LEMMA DesktopReceivesKeepsSeen == ASSUME StreamShapes, SeenInv, DesktopReceives PROVE SeenInv'
<1> DEFINE answer == Head(down)
<1>1. /\ UNCHANGED <<made, expected, receipt, handler, queue, worker, known, seen>>
      /\ link # "failed" /\ down # <<>> /\ down' = Tail(down)
  BY DEF DesktopReceives, socket, store, work
<1>2. answer \in TrueAnswers /\ down' \in Seq(TrueAnswers)
  BY <1>1, HeadTailProperties DEF SeenInv, AnswersTrue
<1>3. AnswersTrue'
  BY <1>1, <1>2 DEF AnswersTrue, TrueAnswers, Below, AnswerShapes
<1>4. SocketSeen' /\ WorkSeen'
  BY <1>1 DEF SeenInv, SocketSeen, WorkSeen, Below
<1> HIDE DEF answer
<1>5. /\ answer.frame \in Nat
      /\ outbox \subseteq Nat /\ made \in Nat
      /\ \A n \in (1 .. made) \ outbox : n \in seen
  <2>1. answer.frame \in 0 .. Len(Script)
    BY <1>2 DEF TrueAnswers, AnswerShapes
  <2>2. made \in Nat /\ outbox \subseteq 1 .. made
    BY NumbersInHand
  <2>3. (1 .. made) \ outbox \subseteq seen
    BY <1>1 DEF SeenInv, RetiredWasReceived
  <2>4. answer.frame \in Nat
    BY <2>1, ScriptFacts
  <2>5. \A n \in outbox : n \in Nat
    BY <2>2
  <2> QED
    BY <2>2, <2>3, <2>4, <2>5
<1>6. \A k, n \in Nat : Below(k) /\ 1 <= n /\ n <= k => n \in seen
  BY DEF Below
<1>7. link' = "failed" \/ \A n \in (1 .. made) \ outbox' : n \in seen
  <2>1. CASE answer.kind = "resume" /\ ApplyResumeOffsets(answer)
    <3>1. Below(answer.frame)
      BY <1>2, <2>1 DEF TrueAnswers
    <3>2. link' = "failed" \/ outbox' = {n \in outbox : n > answer.frame \/ Final(n)}
      BY <2>1 DEF ApplyResumeOffsets, StartsOver
    <3> QED
      BY <1>5, <1>6, <3>1, <3>2
  <2>2. CASE answer.kind \in {"frame", "terminal"} /\ Acknowledge(answer)
    <3>1. outbox' = {n \in outbox : IF answer.terminal # 0 THEN n # answer.terminal ELSE n > answer.frame}
      BY <2>2 DEF Acknowledge
    <3>2. CASE answer.terminal # 0
      <4>1. answer.terminal \in seen
        BY <1>2, <3>2 DEF TrueAnswers
      <4> QED
        BY <1>5, <3>1, <3>2, <4>1
    <3>3. CASE answer.terminal = 0
      <4>1. Below(answer.frame)
        BY <1>2, <2>2, <3>3 DEF TrueAnswers
      <4> QED
        BY <1>5, <1>6, <3>1, <3>3, <4>1
    <3> QED
      BY <3>2, <3>3
  <2>3. CASE answer.kind = "gap" /\ HandleGap(answer)
    <3>1. Below(answer.frame - 1)
      BY <1>2, <2>3 DEF TrueAnswers
    <3>2. link' = "failed" \/ outbox' = outbox \/ outbox' = {n \in outbox : n >= answer.frame}
      BY <2>3 DEF HandleGap, StartsOver
    <3>3. \A n \in Nat : 1 <= n /\ n < answer.frame => n \in 1 .. answer.frame - 1
      BY <1>5
    <3>4. \A n \in Nat : 1 <= n /\ n < answer.frame => n \in seen
      BY <3>1, <3>3 DEF Below
    <3> QED
      BY <1>5, <3>2, <3>4
  <2>4. CASE UNCHANGED <<outbox, sent, gap, link, up>>
    BY <1>5, <2>4
  <2> QED
    BY <2>1, <2>2, <2>3, <2>4 DEF DesktopReceives, answer
<1>8. RetiredWasReceived'
  BY <1>1, <1>7 DEF RetiredWasReceived
<1> QED
  BY <1>3, <1>4, <1>8 DEF SeenInv

\* A step that adds receipts and makes a true answer leaves the answers true.
LEMMA AnswersStayTrue ==
  ASSUME SeenInv, seen \subseteq seen',
         down' = down \/ down' = <<>> \/ (\E a \in TrueAnswers' : Reply(a))
  PROVE  AnswersTrue'
<1>1. down \in Seq(TrueAnswers')
  BY SeenGrows DEF SeenInv, AnswersTrue
<1>2. <<>> \in Seq(TrueAnswers')
  OBVIOUS
<1>3. down' \in Seq(TrueAnswers')
  <2>1. CASE \E a \in TrueAnswers' : Reply(a)
    <3>1. PICK a \in TrueAnswers' : Reply(a)
      BY <2>1
    <3>2. Append(down, a) \in Seq(TrueAnswers')
      BY <1>1, <3>1, AppendProperties
    <3> QED
      BY <1>1, <3>1, <3>2 DEF Reply
  <2> QED
    BY <1>1, <1>2, <2>1
<1> QED
  BY <1>3 DEF AnswersTrue

\* The answer to a duplicate only reaches as far as the sequence expected.
LEMMA DuplicateKeepsSeen ==
  ASSUME StreamShapes, SeenInv, NEW n \in Frames, n < expected, AnswerDuplicate(n)
  PROVE  SocketSeen' /\ AnswersTrue' /\ seen' = seen
<1>1. expected \in Nat \ {0} /\ n \in Nat /\ 1 <= n /\ n <= expected - 1
      /\ n \in 0 .. Len(Script) /\ expected - 1 \in 0 .. Len(Script)
  BY ScriptFacts, NumbersInHand DEF StreamShapes, SocketShape
<1>2. n \in seen
  BY <1>1 DEF SeenInv, SocketSeen, Below
<1>3. TrueAnswers' = TrueAnswers
  BY DEF AnswerDuplicate, TrueAnswers, AnswerShapes, Below
<1>4. Answer("frame", expected - 1) \in TrueAnswers /\ TerminalAnswer(expected - 1, n) \in TrueAnswers
  <2>1. /\ Answer("frame", expected - 1) \in AnswerShapes
        /\ TerminalAnswer(expected - 1, n) \in AnswerShapes
    BY <1>1, AnswersHaveShape
  <2> QED
    BY <1>1, <1>2, <2>1 DEF TrueAnswers, Answer, TerminalAnswer, SeenInv, SocketSeen
<1>5. AnswersTrue'
  BY <1>3, <1>4, AnswersStayTrue DEF AnswerDuplicate
<1>6. SocketSeen'
  BY DEF AnswerDuplicate, SeenInv, SocketSeen, Below
<1> QED
  BY <1>5, <1>6 DEF AnswerDuplicate

\* The answer to a gap asks for the first frame that is missing.
LEMMA GapKeepsSeen ==
  ASSUME StreamShapes, SeenInv, NEW n \in Frames, AnswerGap(n)
  PROVE  SocketSeen' /\ AnswersTrue' /\ seen' = seen
<1>1. expected \in 0 .. Len(Script) /\ expected \in Int
  BY ScriptFacts DEF StreamShapes, SocketShape, AnswerGap
<1>2. TrueAnswers' = TrueAnswers
  BY DEF AnswerGap, TrueAnswers, AnswerShapes, Below
<1>3. Answer("gap", expected) \in TrueAnswers
  <2>1. Answer("gap", expected) \in AnswerShapes
    BY <1>1, AnswersHaveShape
  <2> QED
    BY <2>1 DEF TrueAnswers, Answer, SeenInv, SocketSeen
<1>4. AnswersTrue'
  BY <1>2, <1>3, AnswersStayTrue DEF AnswerGap
<1>5. SocketSeen'
  BY DEF AnswerGap, SeenInv, SocketSeen, Below
<1> QED
  BY <1>4, <1>5 DEF AnswerGap

\* The next frame, once received, or one that was passed: the receipts reach as far as it.
LEMMA NextBelow ==
  ASSUME StreamShapes, SeenInv, NEW n \in Frames, n \in seen, n <= expected \/ Below(n)
  PROVE  Below((IF n + 1 > expected THEN n + 1 ELSE expected) - 1)
<1>1. expected \in Nat \ {0} /\ n \in Nat
  BY NumbersInHand
<1>2. 1 .. expected - 1 \subseteq seen
  BY DEF SeenInv, SocketSeen, Below
<1>3. 1 .. n \subseteq seen
  <2>1. CASE Below(n)
    BY <2>1 DEF Below
  <2>2. CASE n <= expected
    <3>1. \A x \in 1 .. n : x = n \/ x \in 1 .. expected - 1
      BY <1>1, <2>2
    <3> QED
      BY <1>2, <3>1
  <2> QED
    BY <2>1, <2>2
<1>4. (n + 1) - 1 = n
  BY <1>1
<1> QED
  BY <1>2, <1>3, <1>4 DEF Below

\* A frame is only admitted after all before it.
LEMMA AdmitKeepsSeen ==
  ASSUME StreamShapes, SeenInv, NEW n \in Frames, n <= expected, Admit(n), handler.pc = "idle"
  PROVE  SocketSeen' /\ AnswersTrue' /\ seen \subseteq seen'
<1>1. n \in 1 .. Len(Script) /\ n \in 0 .. Len(Script)
  BY ScriptFacts
<1>2. CASE Final(n) /\ n \in known
  <2>1. /\ seen' = seen /\ receipt' = receipt /\ handler' = handler
        /\ expected' = IF n + 1 > expected THEN n + 1 ELSE expected
        /\ Reply(TerminalAnswer(n, n))
    BY <1>2 DEF Admit
  <2>2. n \in seen
    BY <1>2 DEF SeenInv, WorkSeen
  <2>3. Below((IF n + 1 > expected THEN n + 1 ELSE expected) - 1)
    BY NextBelow, <2>2
  <2>4. 1 .. expected' - 1 \subseteq seen'
    BY <2>1, <2>3 DEF Below
  <2>5. TerminalAnswer(n, n) \in TrueAnswers'
    <3>1. TerminalAnswer(n, n) \in AnswerShapes
      BY <1>1, AnswersHaveShape
    <3> QED
      BY <2>1, <2>2, <3>1, <1>1 DEF TrueAnswers, TerminalAnswer, AnswerShapes
  <2>6. AnswersTrue'
    BY <2>1, <2>5, AnswersStayTrue
  <2>7. SocketSeen'
    BY <2>1, <2>4 DEF SeenInv, SocketSeen, Below
  <2> QED
    BY <2>1, <2>6, <2>7
<1>3. CASE ~(Final(n) /\ n \in known)
  <2>1. /\ receipt' = n /\ seen' = seen \cup {n} /\ expected' = expected /\ down' = down
        /\ handler' = [pc |-> "put", frame |-> n, stale |-> FALSE]
    BY <1>3 DEF Admit
  <2>2. seen \subseteq seen' /\ n \in seen'
    BY <2>1
  <2>3. 1 .. n \subseteq seen' /\ 1 .. expected - 1 \subseteq seen'
    <3>1. expected \in Nat \ {0} /\ n \in Nat
      BY NumbersInHand
    <3>2. 1 .. expected - 1 \subseteq seen'
      BY <2>2 DEF SeenInv, SocketSeen, Below
    <3>3. \A x \in 1 .. n : x = n \/ x \in 1 .. expected - 1
      BY <3>1
    <3> QED
      BY <2>2, <3>2, <3>3
  <2>4. AnswersTrue'
    BY <2>1, <2>2, AnswersStayTrue
  <2>5. SocketSeen'
    BY <2>1, <2>3 DEF SocketSeen, Below
  <2> QED
    BY <2>2, <2>4, <2>5
<1> QED
  BY <1>2, <1>3

\* Receive acknowledges nothing that was not received.
LEMMA ReceiveKeepsSeen == ASSUME StreamShapes, SeenInv, Receive PROVE SeenInv'
<1> DEFINE n == Head(up)
<1>1. n \in Frames
  BY HeadTailProperties DEF StreamShapes, LinkShape, Receive
<1>2. n \in Nat /\ expected \in Nat
  BY <1>1, NumbersInHand
<1> HIDE DEF n
<1>3. \/ n < expected /\ AnswerDuplicate(n)
      \/ AnswerGap(n)
      \/ n <= expected /\ Admit(n)
  BY <1>2 DEF Receive, n
<1>4. SocketSeen' /\ AnswersTrue' /\ seen \subseteq seen'
  BY <1>1, <1>3, DuplicateKeepsSeen, GapKeepsSeen, AdmitKeepsSeen DEF Receive
<1>5. UNCHANGED <<made, outbox, known, queue>> /\ link # "failed"
  BY DEF Receive, AnswerDuplicate, AnswerGap, Admit
<1>6. FramesOf(worker'.jobs) \subseteq FramesOf(worker.jobs)
  <2>1. worker' = worker \/ worker' = [pc |-> "wait", jobs |-> <<>>]
    BY DEF Receive, AnswerDuplicate, AnswerGap, Admit
  <2>2. FramesOf(<<>>) = {}
    BY DEF FramesOf
  <2> QED
    BY <2>1, <2>2
<1>7. WorkSeen'
  BY <1>4, <1>5, <1>6, SeenGrows DEF SeenInv, WorkSeen
<1>8. RetiredWasReceived'
  BY <1>4, <1>5 DEF SeenInv, RetiredWasReceived
<1> QED
  BY <1>4, <1>7, <1>8 DEF SeenInv

\* A refusal claims nothing.
LEMMA DegradedIsTrue ==
  ASSUME NEW n \in 0 .. Len(Script)
  PROVE  Answer("degraded", n) \in TrueAnswers'
<1>1. Answer("degraded", n) \in AnswerShapes
  BY AnswersHaveShape
<1> QED
  BY <1>1 DEF TrueAnswers, Answer, AnswerShapes

\* RateLimited acknowledges nothing that was not received.
LEMMA RateLimitedKeepsSeen == ASSUME StreamShapes, SeenInv, RateLimited PROVE SeenInv'
<1>1. Head(up) \in Frames
  BY HeadTailProperties DEF StreamShapes, LinkShape, RateLimited
<1>2. Head(up) \in 0 .. Len(Script)
  BY <1>1, ScriptFacts
<1>3. AnswersTrue'
  BY <1>2, DegradedIsTrue, AnswersStayTrue DEF RateLimited
<1>4. UNCHANGED <<made, outbox, link, expected, receipt, handler, queue, worker, known, seen>>
  BY DEF RateLimited, desktop, socket, store, work
<1>5. SocketSeen' /\ WorkSeen' /\ RetiredWasReceived'
  BY <1>4 DEF SeenInv, SocketSeen, WorkSeen, Below, RetiredWasReceived
<1> QED
  BY <1>3, <1>5 DEF SeenInv

\* Put acknowledges nothing that was not received.
LEMMA PutKeepsSeen == ASSUME StreamShapes, SeenInv, Put \/ WaitForRoom PROVE SeenInv'
<1> DEFINE n == handler.frame
<1>1. /\ handler.pc \in {"put", "wait"}
      /\ \/ Admitted \/ Refused
         \/ handler' = [handler EXCEPT !.pc = "wait"] /\ UNCHANGED <<expected, down>>
      /\ QueueTakes(n)
      /\ UNCHANGED <<made, outbox, link, receipt, worker, known, seen>>
  BY PutTakes DEF desktop, store
<1>2. /\ handler \in [pc : {"idle", "put", "wait", "accept"}, frame : 0 .. Len(Script), stale : BOOLEAN]
      /\ n \in Frames /\ n \in 0 .. Len(Script) /\ queue \in Seq(FrameJobs) /\ Len(queue) <= QueueMax
  BY <1>1 DEF StreamShapes, SocketShape, WorkShape
<1>3. AnswersTrue'
  BY <1>1, <1>2, DegradedIsTrue, AnswersStayTrue DEF Admitted, Refused
<1>4. Below(n)
  BY <1>1 DEF SeenInv, SocketSeen
<1>5. expected' = expected /\ (handler'.pc # "idle" => handler'.frame = n)
  BY <1>1, <1>2 DEF Admitted, Refused, NoHandler
<1>6. FramesOf(queue') \subseteq FramesOf(queue) \cup {n}
  BY <1>1, <1>2, TakenIn
<1> HIDE DEF n
<1>7. SocketSeen' /\ WorkSeen' /\ RetiredWasReceived'
  BY <1>1, <1>4, <1>5, <1>6 DEF SeenInv, SocketSeen, WorkSeen, Below, RetiredWasReceived
<1> QED
  BY <1>3, <1>7 DEF SeenInv

\* The answer to an admitted frame is true.
LEMMA AcceptedIsTrue ==
  ASSUME NEW n \in Frames, Below(n), seen' = seen
  PROVE  TerminalAnswer(n, n) \in TrueAnswers' /\ Answer("frame", n) \in TrueAnswers'
<1>1. n \in 0 .. Len(Script) /\ n \in Nat /\ 1 <= n
  BY ScriptFacts
<1>2. TerminalAnswer(n, n) \in AnswerShapes /\ Answer("frame", n) \in AnswerShapes
  BY <1>1, AnswersHaveShape
<1>3. n \in seen' /\ Below(n)'
  BY <1>1 DEF Below
<1>4. TerminalAnswer(n, n) \in TrueAnswers'
  BY <1>1, <1>2, <1>3 DEF TrueAnswers, TerminalAnswer, AnswerShapes
<1>5. Answer("frame", n) \in TrueAnswers'
  BY <1>2, <1>3 DEF TrueAnswers, Answer, AnswerShapes
<1> QED
  BY <1>4, <1>5

\* Accept acknowledges nothing that was not received.
LEMMA AcceptKeepsSeen == ASSUME StreamShapes, SeenInv, Accept PROVE SeenInv'
<1> DEFINE n == handler.frame
           answer == IF Final(n) THEN TerminalAnswer(n, n) ELSE Answer("frame", n)
<1>1. /\ n \in Frames /\ queue \in Seq(FrameJobs)
      /\ UNCHANGED <<made, outbox, link, receipt, worker, seen>>
      /\ handler' = NoHandler
      /\ expected' = IF n + 1 > expected THEN n + 1 ELSE expected
      /\ queue' = queue \/ queue' = Promoted(n)
      /\ known' = known \/ known' = known \cup {n}
      /\ Reply(answer)
  BY DEF Accept, StreamShapes, SocketShape, WorkShape, desktop, store
<1>2. Below(n) /\ n \in 0 .. Len(Script) /\ n \in Nat /\ 1 <= n
  BY <1>1, ScriptFacts DEF Accept, SeenInv, SocketSeen
<1>3. n \in seen
  BY <1>2 DEF Below
<1>4. answer \in TrueAnswers'
  <2>1. TerminalAnswer(n, n) \in TrueAnswers' /\ Answer("frame", n) \in TrueAnswers'
    BY <1>1, <1>2, AcceptedIsTrue
  <2> QED
    BY <2>1
<1>5. AnswersTrue'
  BY <1>1, <1>4, AnswersStayTrue
<1>6. Below((IF n + 1 > expected THEN n + 1 ELSE expected) - 1)
  BY <1>1, <1>2, <1>3, NextBelow
<1>7. SocketSeen'
  BY <1>1, <1>6 DEF SeenInv, SocketSeen, Below, NoHandler
<1>8. FramesOf(queue') \subseteq FramesOf(queue)
  BY <1>1, PromotedTerminal
<1>9. WorkSeen' /\ RetiredWasReceived'
  BY <1>1, <1>3, <1>8 DEF SeenInv, WorkSeen, Below, RetiredWasReceived
<1> QED
  BY <1>5, <1>7, <1>9 DEF SeenInv

\* The worker only stores a receipt that is there, or of a frame it has.
LEMMA WorkerKeepsSeen ==
  ASSUME StreamShapes, SeenInv,
         WorkerTakes \/ WorkerProcesses \/ WorkerDies \/ WorkerTimesOut \/ WorkerExits
  PROVE  SeenInv'
<1>1. UNCHANGED <<made, outbox, link, down, expected, known, seen>>
  BY DEF WorkerTakes, WorkerProcesses, WorkerDies, WorkerTimesOut, WorkerExits, desktop, socket
<1>2. AnswersTrue' /\ RetiredWasReceived'
  BY <1>1, AnswersStayTrue DEF SeenInv, RetiredWasReceived
<1>3. \A k : Below(k)' <=> Below(k)
  BY <1>1 DEF Below
<1>4. handler' = handler \/ handler' = [handler EXCEPT !.stale = handler.pc = "put"]
  BY DEF WorkerTakes, WorkerProcesses, WorkerDies, WorkerTimesOut, WorkerExits, socket
<1>5. handler'.pc = handler.pc /\ handler'.frame = handler.frame
  <2>1. handler \in [pc : {"idle", "put", "wait", "accept"}, frame : 0 .. Len(Script), stale : BOOLEAN]
    BY DEF StreamShapes, SocketShape
  <2> QED
    BY <1>4, <2>1
<1>6. /\ receipt' = receipt \/ receipt' \in FramesOf(worker.jobs)
      /\ FramesOf(queue') \cup FramesOf(worker'.jobs) \subseteq FramesOf(queue) \cup FramesOf(worker.jobs)
  <2>1. CASE WorkerTakes
    BY <2>1, WorkerTook DEF StreamShapes, WorkShape, WorkerTakes, store
  <2>2. CASE WorkerProcesses
    <3>1. worker.jobs \in Seq(FrameJobs) /\ worker.jobs # <<>>
      BY <2>2, WorkerHasJob DEF WorkerProcesses
    <3>2. FramesOf(worker.jobs) = FramesOf(Tail(worker.jobs)) \cup {Head(worker.jobs).frame}
      BY <3>1, RestOfJobs
    <3> QED
      BY <2>2, <3>2 DEF WorkerProcesses
  <2>3. CASE WorkerDies \/ WorkerTimesOut \/ WorkerExits
    <3>1. worker \in [pc : {"none", "dead", "wait", "exit", "busy"}, jobs : Seq(FrameJobs)]
      BY DEF StreamShapes, WorkShape
    <3>2. worker'.jobs = worker.jobs \/ worker'.jobs = <<>>
      BY <2>3, <3>1 DEF WorkerDies, WorkerTimesOut, WorkerExits, NoWorker
    <3>3. FramesOf(<<>>) = {}
      BY DEF FramesOf
    <3>4. receipt' = receipt /\ queue' = queue
      BY <2>3 DEF WorkerDies, WorkerTimesOut, WorkerExits, store
    <3> QED
      BY <3>2, <3>3, <3>4
  <2> QED
    BY <2>1, <2>2, <2>3
<1>7. SocketSeen'
  <2>1. Below(receipt')
    BY <1>6 DEF SeenInv, SocketSeen, WorkSeen
  <2> QED
    BY <1>1, <1>5, <2>1 DEF SeenInv, SocketSeen, Below
<1>8. WorkSeen'
  BY <1>1, <1>3, <1>6 DEF SeenInv, WorkSeen
<1> QED
  BY <1>2, <1>7, <1>8 DEF SeenInv

\* Every step keeps the receipts as far as the answers say.
LEMMA SeenKept == ASSUME StreamShapes, SeenInv, [StreamNext]_streamVars PROVE SeenInv'
<1>1. CASE Flush \/ AckStalled \/ LoseConnection \/ TurnLapses \/ UNCHANGED streamVars
  <2>1. UNCHANGED <<made, outbox, expected, receipt, handler, queue, worker, known, seen>>
    BY <1>1 DEF Flush, AckStalled, StartsOver, LoseConnection, TurnLapses, streamVars, desktop, socket, store, work
  <2>2. (down' = down \/ down' = <<>>) /\ (link # "failed" \/ link' = "failed")
    BY <1>1 DEF Flush, AckStalled, StartsOver, LoseConnection, TurnLapses, streamVars
  <2> QED
    BY <2>1, <2>2, OthersKeepSeen
<1> QED
  BY <1>1, CaptureKeepsSeen, ConnectKeepsSeen, DesktopReceivesKeepsSeen, ReceiveKeepsSeen,
     RateLimitedKeepsSeen, PutKeepsSeen, AcceptKeepsSeen, WorkerKeepsSeen DEF StreamNext

\* What the desktop no longer keeps was given a receipt: every answer on the way, the stored receipt
\* and the sequence the socket expects only reach as far as frames that were received.
THEOREM RetiredFramesWereReceived == StreamSpec => []RetiredWasReceived
<1>1. StreamInit => SeenInv
  BY SeenStarts
<1>2. StreamShapes /\ SeenInv /\ [StreamNext]_streamVars => SeenInv'
  BY SeenKept
<1>3. SeenInv => RetiredWasReceived
  BY DEF SeenInv
<1> QED
  BY <1>1, <1>2, <1>3, ShapesHold, PTL DEF StreamSpec
=============================================================================
