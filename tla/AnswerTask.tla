----------------------------- MODULE AnswerTask -----------------------------
(***************************************************************************)
(* The answers of one live session.  A page asks for an answer by hand, or *)
(* by itself for a question the transcript has confirmed; in the second    *)
(* case the server first claims the question, so that no other page        *)
(* answers it too.  The reservation of an answer carries the id the page   *)
(* chose, which is the same for every request of one question.  A thread   *)
(* of its own streams each answer while the page may leave, the user may   *)
(* stop the answer, and the transcript goes on revising its questions.     *)
(*                                                                         *)
(* Tasks and questions are in Redis; the active question of the session    *)
(* and the reservation of each task are in the process and are gone when   *)
(* it restarts.                                                            *)
(***************************************************************************)
EXTENDS Integers, FiniteSets

CONSTANTS
  Questions,    \* questions of the interviewer
  Requests,     \* threads; they serve the pages' requests and final transcripts
  Serves,       \* bound: the requests each of them serves
  Tasks,        \* bound: the answers that are asked for
  Heard,        \* how well questions are heard: "sure", "unsure"
  None

\* The idempotency key of the web page: auto:<session>:<question>, manual:...
Usages == {"auto", "manual"} \X Questions

\* What stands in the place of a question's answer until its task is known.
Claim(t) == <<"claim", t>>

ASSUME ConstantsAssumption ==
  /\ Serves \in [Requests -> SUBSET
                  {"auto", "manual", "whole", "cancel", "confirm", "dismiss", "revise"}]
  /\ Heard \subseteq {"unsure", "sure"}
  /\ None \notin Questions \cup Tasks \cup Usages
  /\ \A t \in Tasks : Claim(t) \notin Tasks \cup {None}

VARIABLES
  live,       \* whether interview_sessions.status is live
  auto,       \* auto_answer_enabled
  candidate,  \* the question candidates
  active,     \* _auto_answer_active_candidates of the session
  task,       \* the answer tasks
  known,      \* billing_usage_by_task: tasks whose reservation is known
  charge,     \* what the wallet does with each usage id (UsageCharge)
  undone,     \* history: a question was saved from a copy older than its claim
  thread      \* the call each thread is in

vars == <<live, auto, candidate, active, task, known, charge, undone, thread>>
session == <<live, auto, undone>>
answers == <<task, known, charge>>

U == INSTANCE UsageCharge

Finished == {"completed", "failed", "cancelled"}

NoCandidate == [state |-> "none", old |-> FALSE, answer |-> None]
NoTask      == [status |-> "none", usage |-> None]
Idle        == [op |-> "none", pc |-> "idle", question |-> None, task |-> None,
                bound |-> FALSE, seen |-> NoCandidate]

Goes(c, next)  == thread' = [thread EXCEPT ![c] = next]
GoesOn(c, pc)  == Goes(c, [thread[c] EXCEPT !.pc = pc])
Returns(c)     == Goes(c, Idle)
At(c, pc)      == thread[c].pc = pc

Init ==
  /\ live = TRUE /\ auto = FALSE /\ undone = FALSE
  /\ candidate = [q \in Questions |-> NoCandidate] /\ active = None
  /\ task = [t \in Tasks |-> NoTask] /\ known = {}
  /\ charge = [u \in Usages |-> "open"]
  /\ thread = [c \in Requests |-> Idle]

-----------------------------------------------------------------------------
(* The session's switch and its questions.                                 *)

End ==
  /\ live /\ live' = FALSE
  /\ UNCHANGED <<auto, candidate, active, answers, undone, thread>>

\* Turning the switch on, again too, leaves the questions so far unanswered.
UpdateAutoAnswer(enabled) ==
  /\ live /\ auto' = enabled
  /\ candidate' = [q \in Questions |->
       [candidate[q] EXCEPT !.old = enabled /\ candidate[q].state # "none"]]
  /\ UNCHANGED <<live, active, answers, undone, thread>>

\* A final transcript asks a new question, heard well or not so well.
DetectQuestion(q, state) ==
  /\ candidate[q].state = "none" /\ state \in Heard
  /\ candidate' = [candidate EXCEPT ![q].state = state]
  /\ UNCHANGED <<session, active, answers, thread>>

(***************************************************************************)
(* Saving a question again: a transcript of the same turn revises its      *)
(* text, the user confirms it or dismisses it, after which it is not asked *)
(* by itself.  Each reads the record and writes all of it back, without    *)
(* the lock of the claims.                                                 *)
(***************************************************************************)
ReadCandidate(c, op, q) ==
  /\ thread[c] = Idle /\ candidate[q].state # "none"
  /\ op \in Serves[c] /\ (op = "confirm" => candidate[q].state = "unsure")
  /\ Goes(c, [Idle EXCEPT !.op = op, !.pc = "write", !.question = q,
                       !.seen = [candidate[q] EXCEPT !.old = FALSE]])
  /\ UNCHANGED <<session, candidate, active, answers>>

SaveCandidate(c) ==
  /\ thread[c].op \in {"revise", "confirm", "dismiss"}
  /\ candidate' = [candidate EXCEPT ![thread[c].question] =
       [thread[c].seen EXCEPT !.old = candidate[thread[c].question].old,
                              !.state = IF thread[c].op = "revise" THEN @ ELSE "by user"]]
  /\ undone' = (undone \/ thread[c].seen.answer # candidate[thread[c].question].answer)
  /\ Returns(c)
  /\ UNCHANGED <<live, auto, active, answers>>

-----------------------------------------------------------------------------
(* The claim of a question, under one lock.                                *)

Fresh(t) ==
  /\ task[t] = NoTask /\ \A c \in Requests : thread[c].task # t
  /\ \A q \in Questions : candidate[q].answer # Claim(t)

\* Mutant: the next question does not wait for the last one's answer.
ClaimBeside(c, q, t) ==
  /\ thread[c] = Idle /\ "auto" \in Serves[c] /\ Fresh(t)
  /\ live /\ auto
  /\ candidate[q].state = "sure" /\ ~candidate[q].old /\ candidate[q].answer = None
  /\ candidate' = [candidate EXCEPT ![q].answer = Claim(t)]
  /\ active' = q
  /\ Goes(c, [Idle EXCEPT !.op = "auto", !.pc = "open", !.question = q, !.task = t])
  /\ UNCHANGED <<session, answers>>

ClaimAutoAnswer(c, q, t) ==
  /\ thread[c] = Idle /\ "auto" \in Serves[c] /\ Fresh(t)
  /\ live /\ auto
  /\ candidate[q].state = "sure" /\ ~candidate[q].old /\ candidate[q].answer = None
  /\ active \in {None, q}
  /\ candidate' = [candidate EXCEPT ![q].answer = Claim(t)]
  /\ active' = q
  /\ Goes(c, [Idle EXCEPT !.op = "auto", !.pc = "open", !.question = q, !.task = t])
  /\ UNCHANGED <<session, answers>>

\* A page that is gone before its response is first iterated: the generator,
\* and what it would undo at its end, never runs.
NeverOpened(c) ==
  /\ At(c, "open") /\ Returns(c)
  /\ UNCHANGED <<session, candidate, active, answers>>

\* Mutant: a claim is given up at the end of every answer.
LetGoAlways(c) ==
  LET q == thread[c].question IN
  IF thread[c].op # "auto" THEN UNCHANGED <<candidate, active>>
  ELSE /\ active' = IF active = q THEN None ELSE active
       /\ candidate' = [candidate EXCEPT ![q].answer = None]

(***************************************************************************)
(* What the route does when the generator ends: a bound claim is finished, *)
(* one that was never bound is released, if it is still this one's.        *)
(***************************************************************************)
LetGo(c) ==
  LET q == thread[c].question  mine == candidate[q].answer = Claim(thread[c].task) IN
  IF thread[c].op # "auto" \/ ~(thread[c].bound \/ mine) THEN UNCHANGED <<candidate, active>>
  ELSE /\ active' = IF active = q THEN None ELSE active
       /\ candidate' = IF thread[c].bound THEN candidate
                       ELSE [candidate EXCEPT ![q].answer = None]

-----------------------------------------------------------------------------
(* One answer, from its reservation to its settlement.                     *)

\* RedisChatRepository.save_task: what has ended stays as it is, unless the
\* record to be saved has ended too.
\* Mutant: the repository that tests use keeps whatever is saved last.
SaveAnyTask(t, status) == task' = [task EXCEPT ![t].status = status]

SaveTask(t, status) ==
  task' = IF task[t].status \in Finished /\ status \notin Finished THEN task
          ELSE [task EXCEPT ![t].status = status]

Reserve(u) ==
  \/ charge[u] = "open" /\ U!Hold(u)
  \/ charge[u] # "open" /\ UNCHANGED charge

\* The session must be live and the points suffice; the task is then queued.
\* A request made by hand comes straight to this.
BeginAnswer(c, op, q, t) ==
  LET u == <<IF op = "auto" THEN op ELSE "manual", q>> IN
  /\ IF op = "auto" THEN At(c, "open") /\ thread[c].question = q /\ thread[c].task = t
     ELSE thread[c] = Idle /\ op \in Serves[c] /\ Fresh(t)
  /\ live /\ Reserve(u)
  /\ task' = [task EXCEPT ![t] = [status |-> "queued", usage |-> u]]
  /\ known' = known \cup {t}
  /\ Goes(c, [Idle EXCEPT !.op = op, !.pc = "start", !.task = t,
                       !.question = IF op = "auto" THEN q ELSE None])
  /\ UNCHANGED <<session, candidate, active>>

\* answer_question gives the answer whole; stream_answer_question in pieces.
AnswerQuestion(c, q, t) == BeginAnswer(c, "whole", q, t)

StreamAnswerQuestion(c, q, t) == \E op \in {"auto", "manual"} : BeginAnswer(c, op, q, t)

RefuseAnswer(c) ==
  /\ At(c, "open")
  /\ ~live \/ charge[<<"auto", thread[c].question>>] = "open"
  /\ LetGo(c) /\ Returns(c)
  /\ UNCHANGED <<session, answers>>

\* The first event of a stream tells the route the task's id, and the route
\* puts it in the place of its claim.
StartAnswer(c) ==
  LET q == thread[c].question  t == thread[c].task IN
  /\ At(c, "start")
  /\ SaveTask(t, "streaming")
  /\ candidate' = IF thread[c].op = "auto" /\ candidate[q].answer = Claim(t)
                  THEN [candidate EXCEPT ![q].answer = t] ELSE candidate
  /\ Goes(c, [thread[c] EXCEPT !.pc = "generate", !.bound = thread[c].op = "auto"])
  /\ UNCHANGED <<session, active, known, charge>>

\* Before each piece of text a stream looks whether it was stopped; an answer
\* that is given whole never looks.
LookStopped(c) ==
  /\ At(c, "generate") /\ thread[c].op # "whole"
  /\ IF task[thread[c].task].status = "cancelled"
     THEN LetGo(c) /\ Returns(c)
     ELSE GoesOn(c, "piece") /\ UNCHANGED <<candidate, active>>
  /\ UNCHANGED <<session, answers>>

SavePiece(c) ==
  /\ At(c, "piece")
  /\ SaveTask(thread[c].task, "streaming")
  /\ GoesOn(c, "generate")
  /\ UNCHANGED <<session, candidate, active, known, charge>>

\* A page that leaves closes its stream between two events; and whatever a call
\* needs may fail it where it is.  Task and reservation stay as they are.
BreaksOff(c) ==
  /\ thread[c].pc \in {"start", "generate", "piece", "append", "settle", "cancel", "release"}
  /\ LetGo(c) /\ Returns(c)
  /\ UNCHANGED <<session, answers>>

\* The last piece is followed by no look.
CompleteTask(c) ==
  /\ At(c, "generate")
  /\ SaveTask(thread[c].task, "completed")
  /\ GoesOn(c, "append")
  /\ UNCHANGED <<session, candidate, active, known, charge>>

\* The answer joins the transcript; once the session has ended that fails,
\* and nothing is settled.
AppendAnswer(c) ==
  /\ At(c, "append") /\ live
  /\ GoesOn(c, "settle")
  /\ UNCHANGED <<session, candidate, active, answers>>

SettleUsage(c) ==
  LET u == task[thread[c].task].usage IN
  /\ At(c, "settle")
  /\ IF charge[u] = "held" THEN U!Charge(u) ELSE UNCHANGED charge
  /\ LetGo(c) /\ Returns(c)
  /\ UNCHANGED <<session, task, known>>

FailTask(c) ==
  /\ At(c, "generate")
  /\ SaveTask(thread[c].task, "failed")
  /\ GoesOn(c, "release")
  /\ UNCHANGED <<session, candidate, active, known, charge>>

GiveBack(u) == IF charge[u] = "held" THEN U!Waive({u}) ELSE UNCHANGED charge

\* Mutant: a failed answer is settled like a complete one.
SettleFailed(c) ==
  LET u == task[thread[c].task].usage IN
  /\ At(c, "release") /\ thread[c].op # "cancel"
  /\ IF charge[u] = "held" THEN U!Charge(u) ELSE UNCHANGED charge
  /\ LetGo(c) /\ Returns(c)
  /\ UNCHANGED <<session, task, known>>

ReleaseUsage(c) ==
  /\ At(c, "release") /\ thread[c].op # "cancel"
  /\ GiveBack(task[thread[c].task].usage)
  /\ LetGo(c) /\ Returns(c)
  /\ UNCHANGED <<session, task, known>>

-----------------------------------------------------------------------------
(* Stopping an answer: read, save, give back, in three steps.              *)

Cancel(c, t) ==
  /\ thread[c] = Idle /\ "cancel" \in Serves[c]
  /\ task[t].status \in {"queued", "streaming"}
  /\ Goes(c, [Idle EXCEPT !.op = "cancel", !.pc = "cancel", !.task = t])
  /\ UNCHANGED <<session, candidate, active, answers>>

CancelTask(c) ==
  /\ At(c, "cancel")
  /\ SaveTask(thread[c].task, "cancelled")
  /\ GoesOn(c, "release")
  /\ UNCHANGED <<session, candidate, active, known, charge>>

\* A reservation this process does not know has the task's id in its place,
\* under which nothing is reserved.
ReleaseCancelled(c) ==
  LET t == thread[c].task IN
  /\ At(c, "release") /\ thread[c].op = "cancel"
  /\ IF t \in known THEN GiveBack(task[t].usage) ELSE UNCHANGED charge
  /\ Returns(c)
  /\ UNCHANGED <<session, candidate, active, task, known>>

-----------------------------------------------------------------------------
(* What nobody serves any more.                                            *)

Served(t) == \E c \in Requests : thread[c].task = t /\ thread[c].op # "cancel"

\* Reading a task that nothing has saved for long finds it interrupted.
TaskLapses(t) ==
  /\ task[t].status \in {"queued", "streaming"} /\ ~Served(t)
  /\ task' = [task EXCEPT ![t].status = "failed"]
  /\ UNCHANGED <<session, candidate, active, known, charge, thread>>

\* A later reservation of the user gives back those that are half an hour old.
ReleaseStale ==
  LET stale == {u \in Usages : charge[u] = "held"
                                 /\ \A t \in Tasks : task[t].usage = u => ~Served(t)} IN
  /\ stale # {} /\ U!Waive(stale)
  /\ UNCHANGED <<session, candidate, active, task, known, thread>>

Restart ==
  /\ active' = None /\ known' = {}
  /\ thread' = [c \in Requests |-> Idle]
  /\ UNCHANGED <<session, candidate, task, charge>>

Step(c) ==
  \/ NeverOpened(c) \/ RefuseAnswer(c) \/ StartAnswer(c) \/ BreaksOff(c)
  \/ LookStopped(c) \/ SavePiece(c)
  \/ CompleteTask(c) \/ AppendAnswer(c) \/ SettleUsage(c) \/ FailTask(c) \/ ReleaseUsage(c)
  \/ CancelTask(c) \/ ReleaseCancelled(c)

Next ==
  \/ End \/ Restart \/ ReleaseStale
  \/ \E enabled \in BOOLEAN : UpdateAutoAnswer(enabled)
  \/ \E q \in Questions, state \in {"unsure", "sure"} : DetectQuestion(q, state)
  \/ \E c \in Requests, q \in Questions, op \in {"revise", "confirm", "dismiss"} :
       ReadCandidate(c, op, q)
  \/ \E c \in Requests, q \in Questions, t \in Tasks :
       \/ ClaimAutoAnswer(c, q, t)
       \/ AnswerQuestion(c, q, t) \/ StreamAnswerQuestion(c, q, t)
  \/ \E c \in Requests, t \in Tasks : Cancel(c, t)
  \/ \E t \in Tasks : TaskLapses(t)
  \/ \E c \in Requests : SaveCandidate(c) \/ Step(c)

Spec == Init /\ [][Next]_vars

-----------------------------------------------------------------------------
(* The types; every task that was saved has a reservation to its name, and *)
(* only a stream that answers by itself has bound its claim.               *)
TypeOK ==
  /\ live \in BOOLEAN /\ auto \in BOOLEAN /\ undone \in BOOLEAN /\ active \in Questions \cup {None}
  /\ candidate \in [Questions -> [state : {"none", "unsure", "sure", "by user"},
       old : BOOLEAN, answer : {None} \cup Tasks \cup {Claim(t) : t \in Tasks}]]
  /\ task \in [Tasks -> [status : {"none", "queued", "streaming"} \cup Finished,
                         usage : Usages \cup {None}]]
  /\ known \subseteq Tasks
  /\ charge \in [Usages -> U!States]
  /\ \A t \in Tasks : task[t].status = "none" <=> task[t].usage = None
  /\ \A t \in Tasks : task[t].usage # None => charge[task[t].usage] # "open"
  /\ \A c \in DOMAIN thread : thread[c].bound => thread[c].op = "auto"

Answering(c) == thread[c].op = "auto" /\ thread[c].pc # "open"

(* At most one answer is generated by itself in the session at a time: the *)
(* next question waits until the stream of the last one has ended          *)
(* (claim_auto_answer_candidate, finish_auto_answer_candidate).  The one   *)
(* way out is a question that was saved from a copy older than its claim.  *)
OneAtATime ==
  ~undone => \A c, d \in Requests : Answering(c) /\ Answering(d) => c = d

(* However many pages submit a question, and however often, at most one    *)
(* task writes an answer to it by itself, also after a restart; a claim    *)
(* released because nothing was written can be made again.  Again only a   *)
(* save from a copy older than the claim gets round it.                    *)
OneAutoAnswer ==
  ~undone => \A q \in Questions :
    Cardinality({t \in Tasks : /\ task[t].usage = <<"auto", q>>
                               /\ task[t].status \in {"streaming", "completed"}}) <= 1

(* What is charged was delivered: some task of that reservation has been   *)
(* completed, even if a late cancellation has renamed it since.            *)
ChargedWasDelivered ==
  \A u \in Usages : charge[u] = "charged" =>
    \E t \in Tasks : task[t].usage = u /\ task[t].status \in {"completed", "cancelled"}

(* An answer that has ended is never shown as being written again, though  *)
(* its thread may still have a piece of text to save.                      *)
NeverResumes ==
  [][\A t \in Tasks : task[t].status \in Finished => task'[t].status \in Finished]_vars

(* An answer that the user has stopped, and been told is stopped, does not *)
(* end as a complete one (cancel_task beside _complete_task).              *)
StoppedStaysStopped ==
  [][\A t \in Tasks : task[t].status = "cancelled" => task'[t].status = "cancelled"]_vars
=============================================================================
