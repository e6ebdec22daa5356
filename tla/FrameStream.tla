---------------------------- MODULE FrameStream ----------------------------
(***************************************************************************)
(* The audio frames of one source of a live session: from the desktop's    *)
(* outbox over a websocket into the queue of the source's frame worker.    *)
(*                                                                         *)
(* The desktop sends each captured frame in order and keeps it until it is *)
(* acknowledged; frames of a turn are incremental audio and the last one   *)
(* is the turn's terminal.  The socket takes the frame with the sequence   *)
(* it expects, and resumes after a lost connection from the receipts.  A   *)
(* worker thread takes frames off the queue and leaves when it stayed      *)
(* empty; the socket and the worker only share the queue's lock.           *)
(*                                                                         *)
(* What the provider makes of a frame is left open: a processed terminal   *)
(* closes its turn, marks it incomplete or leaves it, and a turn that has  *)
(* audio may lapse (watchdog, a newer turn) at any time.                   *)
(***************************************************************************)
EXTENDS Integers, Sequences, FiniteSets, FiniteSetsExt, SequencesExt

CONSTANTS
  Script,       \* the captured frames: the turn of each and whether it is final
  QueueMax,     \* frames the worker's queue holds
  InFlight,     \* frames on the way that are not acknowledged
  CoalesceMax,  \* frames the worker takes at once, at most
  Backlog,      \* waiting frames from which it takes more than one
  GapMax,       \* gaps in a row before the socket is closed
  ResendMax,    \* resends of one sequence before the desktop starts over
  Drops,        \* bound: times the connection is lost
  Refusals      \* bound: frames refused by the rate limit

ASSUME StreamAssumption ==
  /\ Script \in Seq([turn : Nat, final : BOOLEAN])
  /\ QueueMax \in Nat \ {0} /\ InFlight \in Nat \ {0} /\ CoalesceMax \in Nat \ {0}
  /\ Backlog \in Nat \ {0}
  /\ GapMax \in Nat \ {0} /\ ResendMax \in Nat /\ Drops \in Nat /\ Refusals \in Nat

VARIABLES
  made,      \* frames captured
  outbox,    \* queue of the transport: captured frames it keeps
  sent,      \* those sent over the present connection and not acknowledged
  gap,       \* gapRecoveryBySource
  link,      \* the connection, as the desktop knows it
  up, down,  \* frames and answers on the way
  expected,  \* expected_sequence of the socket
  gaps,      \* sequence_gap_events of the socket
  receipt,   \* the sequence of the source's stored receipt
  handler,   \* the frame the socket is admitting
  queue,     \* _frame_queues: the work queue the source is registered with
  worker,    \* _frame_workers: the thread that serves it
  lost,      \* jobs put into a queue that no worker serves
  known,     \* _accepted_terminal_ids
  closed,    \* terminal_state of the turns' transcripts
  done,      \* history: frames the worker has handed to the provider
  seen,      \* history: frames that were given a receipt
  faults     \* drops and refusals so far

desktop == <<made, outbox, sent, gap>>
socket  == <<expected, gaps, handler>>
store   == <<receipt, closed>>
work    == <<queue, worker, lost, done>>
streamVars == <<desktop, link, up, down, socket, store, work, known, seen, faults>>

Frames == 1 .. Len(Script)
Turn(n)  == Script[n].turn
Final(n) == Script[n].final
Turns == {Turn(n) : n \in Frames}

\* A unit of work: the frame it was made from and the frames whose audio it holds.
Job(n) == [frame |-> n, audio |-> {n}]
Merge(early, late) == [late EXCEPT !.audio = early.audio \cup late.audio]

Answer(kind, n) == [kind |-> kind, frame |-> n, terminal |-> 0]
TerminalAnswer(n, terminal) == [kind |-> "terminal", frame |-> n, terminal |-> terminal]

NoHandler == [pc |-> "idle", frame |-> 0, stale |-> FALSE]
NoWorker  == [pc |-> "none", jobs |-> <<>>]
NoGap == [expected |-> 0, attempts |-> 0]

StreamInit ==
  /\ made = 0 /\ outbox = {} /\ sent = {} /\ gap = NoGap
  /\ link = "down" /\ up = <<>> /\ down = <<>>
  /\ expected = 1 /\ gaps = 0 /\ handler = NoHandler
  /\ receipt = 0 /\ closed = [t \in Turns |-> "open"]
  /\ queue = <<>> /\ worker = NoWorker /\ lost = {} /\ done = {}
  /\ known = {} /\ seen = {} /\ faults = [drops |-> 0, refusals |-> 0]

-----------------------------------------------------------------------------
(* The desktop.                                                            *)

Capture ==
  /\ made < Len(Script) /\ link # "failed"
  /\ made' = made + 1
  /\ outbox' = outbox \cup {made + 1}
  /\ UNCHANGED <<sent, gap, link, up, down, socket, store, work, known, seen, faults>>

\* flush sends what was not sent, in order, as far as the window allows.
Flush ==
  /\ link = "ready" /\ outbox \ sent # {} /\ Cardinality(sent) < InFlight
  /\ LET n == Min(outbox \ sent) IN
       /\ sent' = sent \cup {n}
       /\ up' = Append(up, n)
  /\ UNCHANGED <<made, outbox, gap, link, down, socket, store, work, known, seen, faults>>

\* acknowledge: a terminal's answer retires that terminal, any other everything up to its sequence.
Acknowledge(answer) ==
  /\ outbox' = {n \in outbox : IF answer.terminal # 0 THEN n # answer.terminal
                                                      ELSE n > answer.frame}
  /\ sent' = {n \in sent : n > answer.frame}
  /\ gap' = NoGap
  /\ UNCHANGED <<link, up>>

\* requestFreshSequence: the transport is given up with what it still holds.
StartsOver ==
  /\ link' = "failed"
  /\ UNCHANGED <<outbox, sent, gap, up>>

\* Mutant: a gap is answered by the frame again, however often.
HandleGapAlways(answer) ==
  LET attempts == IF gap.expected = answer.frame THEN gap.attempts + 1 ELSE 1
      kept == {n \in outbox : n >= answer.frame} IN
  IF answer.frame \in kept
    THEN /\ outbox' = kept
         /\ gap' = [expected |-> answer.frame, attempts |-> attempts]
         /\ sent' = sent \cup {answer.frame}
         /\ up' = Append(up, answer.frame)
         /\ UNCHANGED link
    ELSE StartsOver

\* handleGap: the expected frame is sent again, unless it is gone or was resent too often.
HandleGap(answer) ==
  LET attempts == IF gap.expected = answer.frame THEN gap.attempts + 1 ELSE 1
      kept == {n \in outbox : n >= answer.frame} IN
  \/ /\ gap.expected = answer.frame   \* within the cooldown
     /\ UNCHANGED <<outbox, sent, gap, link, up>>
  \/ /\ attempts <= ResendMax /\ answer.frame \in kept
     /\ outbox' = kept
     /\ gap' = [expected |-> answer.frame, attempts |-> attempts]
     /\ sent' = sent \cup {answer.frame}
     /\ up' = Append(up, answer.frame)
     /\ UNCHANGED link
  \/ /\ attempts > ResendMax \/ answer.frame \notin kept
     /\ StartsOver

\* applyResumeOffsets: what was observed is dropped, terminals are kept until accepted.
ApplyResumeOffsets(answer) ==
  LET kept == {n \in outbox : n > answer.frame \/ Final(n)} IN
  IF kept # {} /\ Min(kept) > answer.frame + 1 THEN StartsOver
  ELSE link' = "ready" /\ outbox' = kept /\ UNCHANGED <<sent, gap, up>>

DesktopReceives ==
  /\ link \in {"opening", "ready"} /\ down # <<>>
  /\ down' = Tail(down)
  /\ LET answer == Head(down) IN
       CASE answer.kind = "resume" -> ApplyResumeOffsets(answer)
         [] answer.kind \in {"frame", "terminal"} -> Acknowledge(answer)
         [] answer.kind = "gap" -> HandleGap(answer)
         [] OTHER -> UNCHANGED <<outbox, sent, gap, link, up>>
  /\ UNCHANGED <<made, socket, store, work, known, seen, faults>>

LoseConnection ==
  /\ link \in {"opening", "ready"} /\ faults.drops < Drops
  /\ link' = "down" /\ sent' = {} /\ up' = <<>> /\ down' = <<>>
  /\ faults' = [faults EXCEPT !.drops = @ + 1]
  /\ UNCHANGED <<made, outbox, gap, socket, store, work, known, seen>>

\* The publisher's watchdog gives the transport up when acknowledgements stay away.
AckStalled ==
  /\ link = "ready" /\ sent # {} /\ StartsOver
  /\ UNCHANGED <<made, down, socket, store, work, known, seen, faults>>

-----------------------------------------------------------------------------
(* The socket.  An answer reaches the desktop if the connection still is.  *)

Reply(answer) ==
  down' = IF link \in {"opening", "ready"} THEN Append(down, answer) ELSE down

\* The token is free once the last socket has finished; sequences resume after the receipt.
Connect ==
  /\ link = "down" /\ handler.pc = "idle"
  /\ link' = "opening" /\ expected' = receipt + 1 /\ gaps' = 0
  /\ down' = <<Answer("resume", receipt)>>
  /\ UNCHANGED <<desktop, up, handler, store, work, known, seen, faults>>

TerminalIsAccepted(n) == n \in known \/ closed[Turn(n)] = "final"

\* An older frame is a duplicate, but for a terminal that was never accepted.
IsDuplicate(n) == n < expected /\ ~(Final(n) /\ ~TerminalIsAccepted(n))

AnswerDuplicate(n) ==
  /\ gaps' = 0
  /\ Reply(IF Final(n) THEN TerminalAnswer(expected - 1, n) ELSE Answer("frame", expected - 1))
  /\ UNCHANGED <<link, expected, handler, receipt, seen, queue, worker>>

\* Mutant: a later frame is taken.
SkipGap(n) ==
  /\ n > expected
  /\ expected' = n + 1 /\ Reply(Answer("frame", n))
  /\ UNCHANGED <<link, gaps, handler, receipt, seen, queue, worker>>

\* After too many gaps the socket is closed and the desktop connects anew.
AnswerGap(n) ==
  /\ n > expected
  /\ IF gaps + 1 >= GapMax
       THEN link' = "down" /\ down' = <<>> /\ gaps' = 0
       ELSE link' = link /\ gaps' = gaps + 1 /\ Reply(Answer("gap", expected))
  /\ UNCHANGED <<expected, handler, receipt, seen, queue, worker>>

(***************************************************************************)
(* _prepare_audio_frame and the worker lock of enqueue_audio_frame: the    *)
(* receipt is stored, and the source has a queue and a worker; a terminal  *)
(* that was accepted is only acknowledged again.                           *)
(***************************************************************************)
Admit(n) ==
  /\ gaps' = 0
  /\ IF Final(n) /\ n \in known
       THEN /\ expected' = IF n + 1 > expected THEN n + 1 ELSE expected
            /\ Reply(TerminalAnswer(n, n))
            /\ UNCHANGED <<handler, receipt, seen, queue, worker>>
       ELSE /\ receipt' = n /\ seen' = seen \cup {n}
            /\ worker' = IF worker.pc \in {"none", "dead"} THEN [pc |-> "wait", jobs |-> <<>>]
                                                           ELSE worker
            /\ handler' = [pc |-> "put", frame |-> n, stale |-> FALSE]
            /\ UNCHANGED <<expected, down, queue>>
  /\ UNCHANGED link

\* realtime_ingest_ws: one frame off the connection.
Receive ==
  /\ handler.pc = "idle" /\ link \in {"opening", "ready"} /\ up # <<>>
  /\ LET n == Head(up) IN
       /\ IF n < expected /\ IsDuplicate(n) THEN AnswerDuplicate(n)
          ELSE IF n > expected THEN AnswerGap(n) ELSE Admit(n)
       /\ up' = IF link' = "down" THEN <<>> ELSE Tail(up)
       /\ sent' = IF link' = "down" THEN {} ELSE sent
  /\ UNCHANGED <<made, outbox, gap, closed, lost, done, known, faults>>

RateLimited ==
  /\ handler.pc = "idle" /\ link \in {"opening", "ready"} /\ up # <<>>
  /\ faults.refusals < Refusals
  /\ faults' = [faults EXCEPT !.refusals = @ + 1]
  /\ up' = Tail(up) /\ Reply(Answer("degraded", Head(up)))
  /\ UNCHANGED <<desktop, link, socket, store, work, known, seen>>

Refused ==
  /\ handler' = NoHandler
  /\ Reply(Answer("degraded", handler.frame))
  /\ UNCHANGED expected

Admitted == handler' = [handler EXCEPT !.pc = "accept"] /\ UNCHANGED <<expected, down>>

\* Position of the first queued partial, and the queue with it replaced by the terminal.
Partials == {i \in DOMAIN queue : ~Final(queue[i].frame)}

\* Mutant: the oldest queued job makes room, whatever it is.
ReplaceOldest(n) ==
  queue' = [queue EXCEPT ![1] = Job(n)]

ReplaceQueuedPartial(n) ==
  LET i == Min(Partials)
      old == queue[i] IN
  queue' = [queue EXCEPT ![i] = IF Turn(old.frame) = Turn(n) THEN Merge(old, Job(n)) ELSE Job(n)]

\* Mutant: the head of a full queue makes room for a terminal.
PutOverHead ==
  /\ handler.pc = "put"
  /\ IF handler.stale THEN lost' = lost \cup {handler.frame} /\ Admitted /\ UNCHANGED queue
     ELSE IF Len(queue) < QueueMax
       THEN queue' = Append(queue, Job(handler.frame)) /\ Admitted /\ UNCHANGED lost
     ELSE IF Final(handler.frame)
       THEN ReplaceOldest(handler.frame) /\ Admitted /\ UNCHANGED lost
     ELSE Refused /\ UNCHANGED <<queue, lost>>
  /\ UNCHANGED <<desktop, link, up, gaps, store, worker, done, known, seen, faults>>

(***************************************************************************)
(* put_nowait, after the worker lock was released: into the queue the      *)
(* handler holds, which may have lost its worker.  In a full queue a       *)
(* partial is refused, a terminal takes the place of a partial or waits.   *)
(***************************************************************************)
Put ==
  /\ handler.pc = "put"
  /\ IF handler.stale THEN lost' = lost \cup {handler.frame} /\ Admitted /\ UNCHANGED queue
     ELSE IF Len(queue) < QueueMax
       THEN queue' = Append(queue, Job(handler.frame)) /\ Admitted /\ UNCHANGED lost
     ELSE IF ~Final(handler.frame) THEN Refused /\ UNCHANGED <<queue, lost>>
     ELSE IF Partials # {}
       THEN ReplaceQueuedPartial(handler.frame) /\ Admitted /\ UNCHANGED lost
     ELSE /\ handler' = [handler EXCEPT !.pc = "wait"]
          /\ UNCHANGED <<queue, lost, expected, down>>
  /\ UNCHANGED <<desktop, link, up, gaps, store, worker, done, known, seen, faults>>

\* Mutant: a terminal waits until there is room.
WaitForEver ==
  /\ handler.pc = "wait" /\ Len(queue) < QueueMax
  /\ queue' = Append(queue, Job(handler.frame)) /\ Admitted
  /\ UNCHANGED <<desktop, link, up, gaps, store, worker, lost, done, known, seen, faults>>

\* put with a timeout: the terminal gets a place, or is refused.
WaitForRoom ==
  /\ handler.pc = "wait"
  /\ \/ /\ Len(queue) < QueueMax
        /\ queue' = Append(queue, Job(handler.frame)) /\ Admitted
     \/ /\ Len(queue) = QueueMax /\ Refused /\ UNCHANGED queue   \* terminal-admission-timeout
  /\ UNCHANGED <<desktop, link, up, gaps, store, worker, lost, done, known, seen, faults>>

\* _promote_queued_terminal: the partials of the turn right before it are folded into the terminal.
Promoted(n) ==
  LET at == {i \in DOMAIN queue : queue[i].frame = n} IN
  IF at = {} THEN queue
  ELSE LET i == Min(at)
           Folds(k) == \A j \in k .. i - 1 :
                         ~Final(queue[j].frame) /\ Turn(queue[j].frame) = Turn(n)
           k == Min({k \in 1 .. i : Folds(k)}) IN
       SubSeq(queue, 1, k - 1)
         \o <<[queue[i] EXCEPT !.audio = UNION {queue[j].audio : j \in k .. i}]>>
         \o SubSeq(queue, i + 1, Len(queue))

\* Mutant: a terminal is acknowledged and not remembered.
AcceptUnmarked ==
  /\ handler.pc = "accept"
  /\ handler' = NoHandler
  /\ expected' = IF handler.frame + 1 > expected THEN handler.frame + 1 ELSE expected
  /\ queue' = IF Final(handler.frame) THEN Promoted(handler.frame) ELSE queue
  /\ known' = known
  /\ Reply(IF Final(handler.frame) THEN TerminalAnswer(handler.frame, handler.frame)
                                   ELSE Answer("frame", handler.frame))
  /\ UNCHANGED <<desktop, link, up, gaps, store, worker, lost, done, seen, faults>>

\* The admitted frame is acknowledged, and a terminal is remembered as accepted.
Accept ==
  /\ handler.pc = "accept"
  /\ handler' = NoHandler
  /\ expected' = IF handler.frame + 1 > expected THEN handler.frame + 1 ELSE expected
  /\ queue' = IF Final(handler.frame) THEN Promoted(handler.frame) ELSE queue
  /\ known' = IF Final(handler.frame) THEN known \cup {handler.frame} ELSE known
  /\ Reply(IF Final(handler.frame) THEN TerminalAnswer(handler.frame, handler.frame)
                                   ELSE Answer("frame", handler.frame))
  /\ UNCHANGED <<desktop, link, up, gaps, store, worker, lost, done, seen, faults>>

-----------------------------------------------------------------------------
(* The frame worker.                                                       *)

\* _backlog_coalesce_take_count
TakeCount(backlog) ==
  IF CoalesceMax <= 1 \/ backlog < Backlog THEN 0
  ELSE IF backlog <= Backlog + 1 THEN 1
  ELSE IF backlog < CoalesceMax - 1 THEN backlog ELSE CoalesceMax - 1

\* _coalesce_prepared_frame_jobs: a partial is folded into the next frame of its turn.
Coalesced(jobs) ==
  FoldLeft(LAMBDA out, job :
             IF out # <<>> /\ ~Final(Last(out).frame) /\ Turn(Last(out).frame) = Turn(job.frame)
               THEN Append(Front(out), Merge(Last(out), job))
               ELSE Append(out, job),
           <<>>, jobs)

WorkerTakes ==
  /\ worker.pc = "wait" /\ queue # <<>>
  /\ LET n == 1 + TakeCount(Len(queue) - 1) IN
       /\ worker' = [pc |-> "busy", jobs |-> Coalesced(SubSeq(queue, 1, n))]
       /\ queue' = SubSeq(queue, n + 1, Len(queue))
  /\ UNCHANGED <<desktop, link, up, down, socket, store, lost, done, known, seen, faults>>

\* A job ends with its receipt stored again; a turn that is over takes no more audio.
WorkerProcesses ==
  /\ worker.pc = "busy"
  /\ LET job == Head(worker.jobs)
         t == Turn(job.frame)
         rest == Tail(worker.jobs) IN
       /\ receipt' = job.frame
       /\ worker' = [pc |-> IF rest = <<>> THEN "wait" ELSE "busy", jobs |-> rest]
       /\ IF closed[t] # "open" THEN UNCHANGED <<closed, done>>
          ELSE /\ done' = done \cup {job.frame}
               /\ closed' \in IF Final(job.frame)
                                THEN {[closed EXCEPT ![t] = s] : s \in {"open", "final", "incomplete"}}
                                ELSE {closed}
  /\ UNCHANGED <<desktop, link, up, down, socket, queue, lost, known, seen, faults>>

\* An error other than a refused frame ends the thread with the jobs it took.
WorkerDies ==
  /\ worker.pc = "busy"
  /\ worker' = [pc |-> "dead", jobs |-> <<>>]
  /\ UNCHANGED <<desktop, link, up, down, socket, store, queue, lost, done, known, seen, faults>>

\* The queue stayed empty: the worker goes for the lock, and leaves if it still is.
WorkerTimesOut ==
  /\ worker.pc = "wait" /\ queue = <<>>
  /\ worker' = [worker EXCEPT !.pc = "exit"]
  /\ UNCHANGED <<desktop, link, up, down, socket, store, queue, lost, done, known, seen, faults>>

WorkerExits ==
  /\ worker.pc = "exit"
  /\ IF queue = <<>>
       THEN worker' = NoWorker /\ handler' = [handler EXCEPT !.stale = handler.pc = "put"]
       ELSE worker' = [worker EXCEPT !.pc = "wait"] /\ UNCHANGED handler
  /\ UNCHANGED <<desktop, link, up, down, expected, gaps, store, queue, lost, done, known, seen,
                 faults>>

\* The watchdog or a newer turn gives an unfinished turn up.
TurnLapses ==
  /\ \E t \in Turns :
       /\ closed[t] = "open" /\ \E n \in done : Turn(n) = t
       /\ closed' = [closed EXCEPT ![t] = "incomplete"]
  /\ UNCHANGED <<desktop, link, up, down, socket, receipt, work, known, seen, faults>>

-----------------------------------------------------------------------------
StreamNext ==
  \/ Capture \/ Flush \/ DesktopReceives \/ LoseConnection \/ AckStalled
  \/ Connect \/ Receive \/ RateLimited \/ Put \/ WaitForRoom \/ Accept
  \/ WorkerTakes \/ WorkerProcesses \/ WorkerDies \/ WorkerTimesOut \/ WorkerExits \/ TurnLapses

StreamSpec == StreamInit /\ [][StreamNext]_streamVars

-----------------------------------------------------------------------------
FrameJobs == [frame : Frames, audio : SUBSET Frames]

StreamTypeOK ==
  /\ made \in 0 .. Len(Script) /\ outbox \subseteq 1 .. made /\ sent \subseteq 1 .. made
  /\ gap \in [expected : 0 .. Len(Script), attempts : 0 .. ResendMax]
  /\ link \in {"down", "opening", "ready", "failed"}
  /\ up \in Seq(Frames)
  /\ down \in Seq([kind : {"resume", "frame", "terminal", "gap", "degraded"},
                   frame : 0 .. Len(Script), terminal : 0 .. Len(Script)])
  /\ expected \in 1 .. Len(Script) + 1 /\ gaps \in 0 .. GapMax - 1
  /\ receipt \in 0 .. Len(Script) /\ closed \in [Turns -> {"open", "final", "incomplete"}]
  /\ handler \in [pc : {"idle", "put", "wait", "accept"}, frame : 0 .. Len(Script), stale : BOOLEAN]
  /\ queue \in Seq(FrameJobs) /\ Len(queue) <= QueueMax
  /\ worker \in [pc : {"none", "dead", "wait", "exit", "busy"}, jobs : Seq(FrameJobs)]
  /\ lost \subseteq Frames /\ done \subseteq Frames
  /\ known \subseteq {n \in Frames : Final(n)} /\ seen \subseteq Frames
  /\ faults \in [drops : 0 .. Drops, refusals : 0 .. Refusals]

\* A frame the desktop has let go of was received, unless the transport was given up: answers
\* are cumulative, and a refused frame holds back everything after it.
RetiredWasReceived ==
  link # "failed" => (1 .. made) \ outbox \subseteq seen

\* A terminal is processed at most once, however often the desktop sends it again.
TerminalProcessedOnce ==
  \A n \in Frames :
    Final(n) => Cardinality({i \in DOMAIN queue : queue[i].frame = n})
                  + Cardinality({i \in DOMAIN worker.jobs : worker.jobs[i].frame = n})
                  + Cardinality(done \cap {n}) <= 1

\* A terminal in the queue leaves it only with the worker: pressure evicts partials.
QueuedTerminalStays ==
  [][\A i \in DOMAIN queue :
       Final(queue[i].frame) =>
         \/ \E j \in DOMAIN queue' : queue'[j].frame = queue[i].frame
         \/ \E j \in DOMAIN worker'.jobs : worker'.jobs[j].frame = queue[i].frame]_streamVars

\* A connection resumes after the frames that were acknowledged.
ResumesAfterAccepted ==
  link \in {"opening", "ready"} => \A n \in (1 .. made) \ outbox : n < expected

\* Both ends and the worker go on; the connection, the rate limit and the thread need not fail.
Fair ==
  /\ WF_streamVars(Flush) /\ WF_streamVars(DesktopReceives) /\ WF_streamVars(AckStalled)
  /\ WF_streamVars(Connect) /\ WF_streamVars(Receive) /\ WF_streamVars(Put) /\ WF_streamVars(WaitForRoom)
  /\ WF_streamVars(Accept) /\ WF_streamVars(WorkerTakes) /\ WF_streamVars(WorkerProcesses)

FairSpec == StreamSpec /\ Fair

\* Every captured frame is let go of or the transport is given up: refusals, gaps and lost
\* connections never leave the outbox waiting for ever.
OutboxDrains == []<>(outbox = {} \/ link = "failed")
=============================================================================
