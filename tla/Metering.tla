------------------------------ MODULE Metering ------------------------------
(***************************************************************************)
(* One live session and the minutes it is charged for.  Starting reserves  *)
(* the first minute before the session goes live and settles it after; a   *)
(* metering thread then reserves and settles each further minute while     *)
(* audio is captured.  The user, the desktop companion, an administrator,  *)
(* a takeover and the idle reaper call into the same service meanwhile.    *)
(*                                                                         *)
(* The session row and the last capture-control event are stored; the      *)
(* capture cache, the registered meter and its stop event live in the one  *)
(* server process and are gone when it restarts.  The wallet is seen       *)
(* through what it promises for each minute (UsageCharge): other uses of   *)
(* the user's points only show in a reservation being refused.             *)
(***************************************************************************)
EXTENDS Integers, FiniteSets

CONSTANTS
  Callers,    \* threads that serve requests, and the idle reaper
  Workers,    \* metering threads
  MaxMinute,  \* bound: the clock stops when the session has been live that long
  Modes,      \* session modes considered
  Serves,     \* bound: the requests each caller serves
  Faults,     \* whether the process may restart and the reading of a row fail
  None

ASSUME ConstantsAssumption ==
  /\ Callers \cap Workers = {}
  /\ None \notin Workers \cup {"capturing", "paused"}
  /\ MaxMinute \in Nat
  /\ Modes \subseteq {"interview", "written"}
  /\ Serves \in [Callers -> SUBSET {"start", "pause", "resume", "attach", "end"}]
  /\ Faults \in BOOLEAN

VARIABLES
  mode,     \* interview_sessions.session_mode
  status,   \* interview_sessions.status
  elapsed,  \* minutes since started_at_ms
  log,      \* captureState of the last capture-control event, capturing if none
  charge,   \* the wallet's promise for each minute; 0 is also the exam entry
  cache,    \* _capture_control_cache
  meter,    \* _meter_threads, _meter_stops: the registered metering thread
  stopped,  \* metering threads whose stop event is set
  thread    \* the call each thread is in

vars == <<mode, status, elapsed, log, charge, cache, meter, stopped, thread>>

Minutes == 0 .. MaxMinute

U == INSTANCE UsageCharge WITH Usages <- Minutes

-----------------------------------------------------------------------------
Idle == [op |-> "none", pc |-> "idle", seen |-> None, goal |-> None,
         minute |-> 0]

Goes(p, next) == thread' = [thread EXCEPT ![p] = next]

GoesOn(p, pc) == Goes(p, [thread[p] EXCEPT !.pc = pc])

Returns(p) == Goes(p, Idle)

At(p, op, pc) == thread[p].op = op /\ thread[p].pc = pc

Alive(p) == thread[p] # Idle

Free(c, op) == ~Alive(c) /\ op \in Serves[c]

Init ==
  /\ mode \in Modes
  /\ status = "preparing" /\ elapsed = 0
  /\ log = "capturing" /\ charge = [m \in Minutes |-> "open"]
  /\ cache = None /\ meter = None /\ stopped = {}
  /\ thread = [p \in Callers \cup Workers |-> Idle]

-----------------------------------------------------------------------------
(* What a request or a thread goes through, shared by several of them.     *)

\* A metering thread computes the next boundary and waits for it or its stop.
Asleep == [Idle EXCEPT !.op = "meter", !.pc = "wait", !.minute = elapsed]

(***************************************************************************)
(* capture_control_state: the cache, or else the last event, with which    *)
(* the cache is filled in a step of its own.  A call with a goal saves an  *)
(* event when the state it saw is another one; the metering loop settles   *)
(* its minute or sleeps; an attaching desktop is metered or refused.       *)
(***************************************************************************)
Decided(p, seen) ==
  LET call == [thread[p] EXCEPT !.seen = IF thread[p].goal = None THEN None ELSE seen] IN
  Goes(p, CASE call.goal # None -> [call EXCEPT !.pc = "save"]
            [] call.goal = None /\ call.op = "meter" ->
                 IF seen = "capturing" THEN [call EXCEPT !.pc = "settle"] ELSE Asleep
            [] OTHER -> IF seen = "capturing" THEN [call EXCEPT !.pc = "ensure"] ELSE Idle)

\* Mutant: after a restart the events are not asked.
CaptureStateOfProcess(p) ==
  /\ thread[p].pc = "look"
  /\ IF cache = None THEN Goes(p, [thread[p] EXCEPT !.seen = "capturing", !.pc = "fill"])
     ELSE Decided(p, cache)
  /\ UNCHANGED <<mode, status, elapsed, log, charge, cache, meter, stopped>>

CaptureControlState(p) ==
  /\ thread[p].pc = "look"
  /\ IF cache = None THEN Goes(p, [thread[p] EXCEPT !.seen = log, !.pc = "fill"])
     ELSE Decided(p, cache)
  /\ UNCHANGED <<mode, status, elapsed, log, charge, cache, meter, stopped>>

FillCache(p) ==
  /\ thread[p].pc = "fill"
  /\ cache' = thread[p].seen
  /\ Decided(p, thread[p].seen)
  /\ UNCHANGED <<mode, status, elapsed, log, charge, meter, stopped>>

\* A change of the capture state is an event first, then the cache's new value.
SaveCaptureEvent(p) ==
  /\ thread[p].pc = "save"
  /\ log' = IF thread[p].seen # thread[p].goal THEN thread[p].goal ELSE log
  /\ Goes(p, [thread[p] EXCEPT !.seen = None, !.pc = "write"])
  /\ UNCHANGED <<mode, status, elapsed, charge, cache, meter, stopped>>

(***************************************************************************)
(* _settle_realtime_minute: the row is read, then the minute of that       *)
(* moment is reserved; the wallet answers with the reservation it has, new *)
(* or old, or refuses.                                                     *)
(***************************************************************************)
NotSettled(p) == IF p \in Workers THEN GoesOn(p, "exit") ELSE Returns(p)

\* Mutant: the status of the session is not looked at.
SettleMinuteOfAny(p) ==
  /\ thread[p].pc = "settle"
  /\ Goes(p, [thread[p] EXCEPT !.pc = "reserve", !.minute = elapsed])
  /\ UNCHANGED <<mode, status, elapsed, log, charge, cache, meter, stopped>>

SettleMinute(p) ==
  /\ thread[p].pc = "settle"
  /\ IF status = "live"
       THEN Goes(p, [thread[p] EXCEPT !.pc = "reserve", !.minute = elapsed])
       ELSE NotSettled(p)
  /\ UNCHANGED <<mode, status, elapsed, log, charge, cache, meter, stopped>>

\* Where a call goes on once its minute has nothing left to settle.
Settled(p) ==
  LET call == [Idle EXCEPT !.op = thread[p].op] IN
  Goes(p, CASE call.op = "start"  -> [call EXCEPT !.pc = "capture"]
            [] call.op = "resume" -> [call EXCEPT !.pc = "look", !.goal = "capturing"]
            [] OTHER              -> Asleep)

HasReservation(p) == GoesOn(p, IF thread[p].op = "start" THEN "begin" ELSE "charge")

\* Mutant: a refused reservation is taken for one.
ReserveOrNot(p) ==
  LET m == thread[p].minute IN
  /\ thread[p].pc = "reserve"
  /\ HasReservation(p)
  /\ U!Hold(m) \/ UNCHANGED charge
  /\ UNCHANGED <<mode, status, elapsed, log, cache, meter, stopped>>

ReserveMinute(p) ==
  LET m == thread[p].minute IN
  /\ thread[p].pc = "reserve"
  /\ \/ HasReservation(p) /\ (U!Hold(m) \/ (charge[m] # "open" /\ UNCHANGED charge))
     \/ /\ charge[m] = "open"
        /\ IF thread[p].op = "start" THEN Returns(p)
           ELSE Goes(p, [Idle EXCEPT !.op = thread[p].op, !.pc = "look", !.goal = "paused"])
        /\ UNCHANGED charge
  /\ UNCHANGED <<mode, status, elapsed, log, cache, meter, stopped>>

SettleUsage(p) ==
  LET m == thread[p].minute IN
  /\ thread[p].pc = "charge"
  /\ U!Charge(m) \/ (charge[m] # "held" /\ UNCHANGED charge)
  /\ Settled(p)
  /\ UNCHANGED <<mode, status, elapsed, log, cache, meter, stopped>>

(***************************************************************************)
(* _ensure_realtime_metering and _stop_realtime_metering.  The stop event  *)
(* is set after the lock is given back; as only its own thread reads it,   *)
(* that is part of the same step.                                          *)
(***************************************************************************)
EnsureMetering(p) ==
  /\ thread[p].pc = "ensure"
  /\ \/ /\ meter # None /\ Alive(meter)
        /\ Returns(p) /\ UNCHANGED <<meter, stopped>>
     \/ /\ ~(meter # None /\ Alive(meter))
        /\ \E w \in Workers :
             /\ ~Alive(w)
             /\ meter' = w /\ stopped' = stopped \ {w}
             /\ thread' = [thread EXCEPT ![p] = Idle,
                                         ![w] = [Idle EXCEPT !.op = "meter", !.pc = "top"]]
  /\ UNCHANGED <<mode, status, elapsed, log, charge, cache>>

StopMetering(p) ==
  /\ thread[p].pc = "stop"
  /\ meter' = None
  /\ stopped' = stopped \cup ({meter} \ {None})
  /\ Returns(p)
  /\ UNCHANGED <<mode, status, elapsed, log, charge, cache>>

-----------------------------------------------------------------------------
(* start_live_session, in either mode.                                     *)

Start(c) ==
  /\ Free(c, "start") /\ status # "live"
  /\ Goes(c, [Idle EXCEPT !.op = "start", !.pc = "reserve"])
  /\ UNCHANGED <<mode, status, elapsed, log, charge, cache, meter, stopped>>

\* session_service.start_session; it fails on an ended session, on another
\* live one, and with the database.
StartSession(c) ==
  /\ At(c, "start", "begin")
  /\ \/ /\ status # "ended"
        /\ status' = "live"
        /\ GoesOn(c, "charge")
     \/ /\ GoesOn(c, "release")
        /\ UNCHANGED status
  /\ UNCHANGED <<mode, elapsed, log, charge, cache, meter, stopped>>

ReleaseUsage(c) ==
  LET m == thread[c].minute IN
  /\ At(c, "start", "release")
  /\ U!Waive({m}) \/ (charge[m] # "held" /\ UNCHANGED charge)
  /\ Returns(c)
  /\ UNCHANGED <<mode, status, elapsed, log, cache, meter, stopped>>

\* A live interview captures and is metered, a written exam is neither.
StartCapture(c) ==
  /\ At(c, "start", "capture")
  /\ cache' = IF mode = "written" THEN "paused" ELSE "capturing"
  /\ IF mode = "written" THEN Returns(c) ELSE GoesOn(c, "ensure")
  /\ UNCHANGED <<mode, status, elapsed, log, charge, meter, stopped>>

-----------------------------------------------------------------------------
(* control_capture and create_publisher.  A pairing status or a frame of   *)
(* audio asks for the capture state as an attaching desktop does.          *)

ControlCapture(c, action) ==
  /\ Free(c, action) /\ mode = "interview" /\ status = "live"
  /\ Goes(c, IF action = "pause"
               THEN [Idle EXCEPT !.op = "pause", !.pc = "look", !.goal = "paused"]
               ELSE [Idle EXCEPT !.op = "resume", !.pc = "settle"])
  /\ UNCHANGED <<mode, status, elapsed, log, charge, cache, meter, stopped>>

\* The cache takes the new state; what follows differs with the call.
WriteCache(p) ==
  /\ thread[p].pc = "write"
  /\ cache' = thread[p].goal
  /\ CASE thread[p].op = "pause" -> GoesOn(p, "stop")
       [] thread[p].op = "meter" -> GoesOn(p, "exit")
       [] OTHER -> IF thread[p].goal = "capturing" THEN GoesOn(p, "ensure") ELSE Returns(p)
  /\ UNCHANGED <<mode, status, elapsed, log, charge, meter, stopped>>

CreatePublisher(c) ==
  /\ Free(c, "attach") /\ mode = "interview" /\ status = "live"
  /\ Goes(c, [Idle EXCEPT !.op = "attach", !.pc = "look"])
  /\ UNCHANGED <<mode, status, elapsed, log, charge, cache, meter, stopped>>

-----------------------------------------------------------------------------
(* The session ends: by the user, an administrator or the idle reaper      *)
(* (terminate_session_for_admin), or because another session takes over    *)
(* (supersede_active_interviews): the row, then _reset_realtime_session.   *)
(* The first of the two stops in terminate_session_for_admin, which the    *)
(* reset repeats, is left out.                                             *)

Terminate(c) ==
  /\ Free(c, "end")
  /\ status' = "ended"
  /\ Goes(c, [Idle EXCEPT !.op = "end", !.pc = "stop"])
  /\ UNCHANGED <<mode, elapsed, log, charge, cache, meter, stopped>>

-----------------------------------------------------------------------------
(* _realtime_meter_loop                                                    *)

\* A thread wakes up at the boundary it waits for, or when it is stopped.
Wakes(w) == At(w, "meter", "top") \/ (At(w, "meter", "wait") /\
              (w \in stopped \/ elapsed > thread[w].minute))

\* The loop is left when the stop event is set, the session is not live or
\* its row cannot be read.
MeterChecks(w) ==
  /\ Wakes(w)
  /\ \/ /\ w \notin stopped /\ status = "live"
        /\ Goes(w, [Idle EXCEPT !.op = "meter", !.pc = "look"])
     \/ /\ w \in stopped \/ status # "live" \/ Faults
        /\ Goes(w, [Idle EXCEPT !.op = "meter", !.pc = "exit"])
  /\ UNCHANGED <<mode, status, elapsed, log, charge, cache, meter, stopped>>

\* Mutant: whatever meter is registered is taken off the list.
MeterExitsAnyway(w) ==
  /\ At(w, "meter", "exit")
  /\ meter' = None
  /\ Returns(w)
  /\ UNCHANGED <<mode, status, elapsed, log, charge, cache, stopped>>

MeterExits(w) ==
  /\ At(w, "meter", "exit")
  /\ meter' = IF meter = w THEN None ELSE meter
  /\ Returns(w)
  /\ UNCHANGED <<mode, status, elapsed, log, charge, cache, stopped>>

-----------------------------------------------------------------------------
(* The world around: time, the wallet's sweep of old reservations, and a   *)
(* restart of the process.                                                 *)

Minute ==
  /\ status = "live" /\ elapsed < MaxMinute
  /\ elapsed' = elapsed + 1
  /\ UNCHANGED <<mode, status, log, charge, cache, meter, stopped, thread>>

\* A reservation is swept when it is old; no thread has it in hand any more.
Sweep ==
  /\ \E m \in Minutes :
       /\ \A p \in Callers \cup Workers :
            thread[p].pc \in {"begin", "charge", "release"} => thread[p].minute # m
       /\ U!Waive({m})
  /\ UNCHANGED <<mode, status, elapsed, log, cache, meter, stopped, thread>>

Restart ==
  /\ Faults
  /\ cache' = None /\ meter' = None /\ stopped' = {}
  /\ thread' = [p \in Callers \cup Workers |-> Idle]
  /\ UNCHANGED <<mode, status, elapsed, log, charge>>

-----------------------------------------------------------------------------
\* A call or a metering thread goes on.
Step(p) ==
  \/ CaptureControlState(p) \/ FillCache(p) \/ SaveCaptureEvent(p) \/ WriteCache(p)
  \/ SettleMinute(p) \/ ReserveMinute(p) \/ SettleUsage(p)
  \/ EnsureMetering(p) \/ StopMetering(p)

CallerStep(c) == Step(c) \/ StartSession(c) \/ ReleaseUsage(c) \/ StartCapture(c)

MeterStep(w) ==
  Step(w) \/ MeterChecks(w) \/ MeterExits(w)

Request(c) ==
  \/ Start(c) \/ (\E action \in {"pause", "resume"} : ControlCapture(c, action))
  \/ CreatePublisher(c) \/ Terminate(c)

Next ==
  \/ \E c \in Callers : Request(c) \/ CallerStep(c)
  \/ \E w \in Workers : MeterStep(w)
  \/ Minute \/ Sweep \/ Restart

Spec == Init /\ [][Next]_vars

-----------------------------------------------------------------------------
Ops == {"none", "start", "pause", "resume", "attach", "end", "meter"}

Pcs == {"idle", "reserve", "begin", "charge", "release", "capture", "ensure", "look", "fill",
        "save", "write", "settle", "stop", "top", "wait", "exit"}

CaptureStates == {"capturing", "paused"}

Calls == [op : Ops, pc : Pcs, seen : CaptureStates \cup {None},
          goal : CaptureStates \cup {None}, minute : Minutes]

(* Every variable has the shape of its row, its cache or its thread; only  *)
(* metering threads run the metering loop.                                 *)
TypeOK ==
  /\ mode \in Modes
  /\ status \in {"preparing", "live", "ended"} /\ elapsed \in Minutes
  /\ log \in CaptureStates /\ cache \in CaptureStates \cup {None}
  /\ charge \in [Minutes -> U!States]
  /\ meter \in Workers \cup {None} /\ stopped \subseteq Workers
  /\ thread \in [Callers \cup Workers -> Calls]
  /\ \A w \in Workers : thread[w].op \in {"none", "meter"}
  /\ \A c \in Callers : thread[c].op # "meter"

(* A metering thread that has not been told to stop is the registered one, *)
(* which pause and end will find: however pauses, resumes, endings and     *)
(* meters on their way out cross, no second meter runs on unseen.  What is *)
(* registered is alive and has not been told to stop.                      *)
NoOrphanMeter ==
  /\ \A w \in Workers : Alive(w) /\ w \notin stopped => meter = w
  /\ meter # None => Alive(meter) /\ meter \notin stopped

(* A session is live only when its first minute, or its exam entry, has    *)
(* been reserved, and capture begins only when that has been settled or    *)
(* given up: a start cannot slip past a wallet that refuses.               *)
StartIsPaidFor ==
  /\ status = "live" => charge[0] # "open"
  /\ \A c \in Callers : At(c, "start", "capture") => charge[0] \in {"charged", "waived"}

\* The session has ended and no thread is past its look at the row.
QuietlyEnded ==
  /\ status = "ended"
  /\ \A p \in Callers \cup Workers : thread[p].pc = "reserve" => thread[p].op = "start"

(* Once a session has ended and every thread that saw it live is past its  *)
(* reservation, no further minute is ever reserved: neither a metering     *)
(* thread nor a resume that was on the way charges for a dead interview.   *)
NoMinuteAfterEnd ==
  [][QuietlyEnded =>
       /\ QuietlyEnded'
       /\ \A m \in Minutes \ {0} : charge[m] = "open" => charge'[m] = "open"]_vars

\* The stored state is paused, and no thread acts on an older one.
QuietlyPaused ==
  /\ log = "paused" /\ cache # "capturing"
  /\ \A p \in Callers \cup Workers :
       /\ thread[p].op \notin {"resume", "start"}
       /\ thread[p].pc \notin {"settle", "reserve", "charge"}
       /\ thread[p].pc = "fill" => thread[p].seen = "paused"
       /\ thread[p].pc = "write" => thread[p].goal = "paused"

(* A pause that has taken hold lasts until somebody resumes: not a metering *)
(* thread on its way, an attaching desktop, or a restart that loses the     *)
(* cache ends it, and no minute is reserved while it lasts.                 *)
PauseLasts ==
  [][QuietlyPaused =>
       \/ QuietlyPaused' /\ charge' = charge
       \/ \E c \in Callers : ~Alive(c) /\ thread'[c].op \in {"resume", "start"}
       \/ \E m \in Minutes : charge[m] = "held" /\ charge'[m] = "waived"]_vars

(* No metering thread sleeps through the end of its session: once the call  *)
(* that ended it has returned, whoever waits for the next minute has been   *)
(* told to stop, also when a resume or an attaching desktop started it late.*)
NoSleeperAfterEnd ==
  status = "ended" /\ (\A c \in Callers : ~Alive(c)) =>
    \A w \in Workers : thread[w].pc = "wait" => w \in stopped

(* Where nobody can resume, what is paused stays paused: a pairing status,  *)
(* a frame or a reconnecting desktop does not restore capture.  The code    *)
(* breaks this: one of them that read the events before the pause fills the *)
(* empty cache after it.                                                    *)
ReconnectDoesNotResume ==
  log = "paused" /\ (\A p \in Callers \cup Workers : ~Alive(p)) => cache # "capturing"
=============================================================================
