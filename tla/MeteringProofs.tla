--------------------------- MODULE MeteringProofs ---------------------------
(***************************************************************************)
(* Theorems about Metering, for any number of request threads and metering *)
(* threads, any length of an interview and any requests.                   *)
(***************************************************************************)
EXTENDS Metering, TLAPS

Threads == Callers \cup Workers

-----------------------------------------------------------------------------
(* The calls a thread can be in                                            *)

\* The places each call goes through.
Places == [start  |-> {"reserve", "begin", "charge", "release", "capture", "ensure"},
           resume |-> {"settle", "reserve", "charge", "look", "fill", "save", "write", "ensure"},
           pause  |-> {"look", "fill", "save", "write", "stop"},
           attach |-> {"look", "fill", "ensure"},
           end    |-> {"stop"},
           meter  |-> {"top", "look", "fill", "settle", "reserve", "charge", "save",
                       "write", "wait", "exit"}]

Requests == {"start", "resume", "pause", "attach", "end"}

\* A call under way: a request on a caller, the loop on a metering thread.
Going(p, call) ==
  /\ call.op \in (IF p \in Workers THEN {"meter"} ELSE Requests)
  /\ call.pc \in Places[call.op]
  /\ call.op = "start" => call.minute = 0
  /\ call.op = "pause" => call.goal = "paused"
  /\ call.op \in {"attach", "start"} => call.goal = None
  /\ call.op = "meter" => call.goal # "capturing"
  /\ call.op = "resume" /\ call.pc \in {"look", "fill"} => call.goal # None
  /\ call.pc \in {"save", "write"} => call.goal # None
  /\ call.pc = "fill" => call.seen # None

Sound(p, call) == call \in Calls /\ (call = Idle \/ Going(p, call))

ThreadsOK == thread \in [Threads -> Calls] /\ \A p \in Threads : Sound(p, thread[p])

TablesOK ==
  /\ mode \in Modes
  /\ status \in {"preparing", "live", "ended"} /\ elapsed \in Minutes
  /\ log \in CaptureStates /\ cache \in CaptureStates \cup {None}
  /\ charge \in [Minutes -> U!States]
  /\ meter \in Workers \cup {None} /\ stopped \subseteq Workers

(* Threads that go through sound calls have the types of TypeOK.           *)
LEMMA TypesFollow == TablesOK /\ ThreadsOK => TypeOK
<1> SUFFICES ASSUME TablesOK, ThreadsOK  PROVE TypeOK
  OBVIOUS
<1>1. thread \in [Callers \cup Workers -> Calls]
  BY DEF ThreadsOK, Threads, Sound
<1>2. \A w \in Workers : thread[w].op \in {"none", "meter"}
  BY DEF ThreadsOK, Threads, Sound, Going, Idle
<1>3. \A c \in Callers : thread[c].op # "meter"
  BY ConstantsAssumption DEF ThreadsOK, Threads, Sound, Going, Idle, Requests
<1>4. QED
  BY <1>1, <1>2, <1>3 DEF TypeOK, TablesOK

(* The same of the state after a step.                                     *)
LEMMA TypesFollowNext == TablesOK' /\ ThreadsOK' => TypeOK'
  BY TypesFollow, PTL

\* A call is a start from its beginning; a minute is reserved by a start, or
\* by a thread that sees the session live.
Follows(p, next) ==
  /\ next.op = "start" => thread[p].op = "start" \/ next.pc = "reserve"
  /\ next.pc = "reserve" => next.op = "start" \/ status = "live"

\* A thread goes on to a sound call; a metering thread stays in its loop.
Proceeds(p) ==
  \E next : /\ Sound(p, next) /\ Goes(p, next) /\ Follows(p, next)
            /\ p \in Workers => next # Idle /\ thread[p] # Idle

(* Threads stay sound when one of them goes on to a sound call.            *)
LEMMA ThreadsStayOK ==
  ASSUME ThreadsOK, NEW p \in Threads, NEW next, Sound(p, next), Goes(p, next)
  PROVE  ThreadsOK'
<1>1. thread' \in [Threads -> Calls]
  BY DEF ThreadsOK, Goes, Sound
<1>2. ASSUME NEW q \in Threads  PROVE Sound(q, thread'[q])
  <2>1. CASE q = p
    BY <2>1 DEF ThreadsOK, Goes
  <2>2. CASE q # p
    BY <2>2 DEF ThreadsOK, Goes
  <2>3. QED
    BY <2>1, <2>2
<1>3. QED
  BY <1>1, <1>2 DEF ThreadsOK

(* A thread that has given up is sound.                                    *)
LEMMA IdleIsSound == (\A p : Sound(p, Idle)) /\ Idle.op = "none" /\ Idle.pc = "idle"
  BY ConstantsAssumption DEF Sound, Idle, Calls, Ops, Pcs, Minutes

(* What is known of a thread that is somewhere in a call.                  *)
LEMMA ThreadIsGoing ==
  ASSUME ThreadsOK, NEW p \in Threads, thread[p].pc # "idle"
  PROVE  Going(p, thread[p]) /\ thread[p] \in Calls /\ thread[p] # Idle
  BY DEF ThreadsOK, Sound, Idle

(* A caller is not a metering thread.                                      *)
LEMMA CallersDoNotMeter == \A c \in Callers : c \in Threads /\ c \notin Workers
  BY ConstantsAssumption DEF Threads

(* A metering thread is at its loop, with nothing to do, waiting.          *)
LEMMA SleepersAreSound ==
  ASSUME TablesOK, NEW w \in Workers
  PROVE  Sound(w, Asleep) /\ Asleep # Idle /\ Asleep.op = "meter" /\ Asleep.pc = "wait"
<1>1. Asleep \in Calls
  BY DEF TablesOK, Asleep, Idle, Calls, Ops, Pcs
<1>2. Asleep.op = "meter" /\ Asleep.pc = "wait" /\ Asleep.goal = None /\ Asleep # Idle
  BY DEF Asleep, Idle
<1>3. QED
  BY <1>1, <1>2, ConstantsAssumption DEF Sound, Going, Places

-----------------------------------------------------------------------------
(* The steps of a call                                                     *)

(* A call that knows the capture state goes on with it.                    *)
LEMMA DecidedProceeds ==
  ASSUME TablesOK, ThreadsOK, NEW p \in Threads, thread[p].pc \in {"look", "fill"},
         NEW seen \in CaptureStates, Decided(p, seen)
  PROVE  Proceeds(p)
<1> DEFINE call == [thread[p] EXCEPT !.seen = IF thread[p].goal = None THEN None ELSE seen]
<1>1. Going(p, thread[p]) /\ thread[p] \in Calls /\ thread[p] # Idle
  BY ThreadIsGoing
<1>2. call \in Calls /\ call.op = thread[p].op /\ call.goal = thread[p].goal
      /\ call.pc = thread[p].pc /\ call.minute = thread[p].minute
  BY <1>1 DEF Calls
<1> HIDE DEF call
<1>3. Goes(p, CASE call.goal # None -> [call EXCEPT !.pc = "save"]
                [] call.goal = None /\ call.op = "meter" ->
                     IF seen = "capturing" THEN [call EXCEPT !.pc = "settle"] ELSE Asleep
                [] OTHER -> IF seen = "capturing" THEN [call EXCEPT !.pc = "ensure"] ELSE Idle)
  BY DEF Decided, call
<1>4. ASSUME NEW pc \in {"save", "settle", "ensure"}
      PROVE  LET next == [call EXCEPT !.pc = pc] IN
             /\ next \in Calls /\ next.op = call.op /\ next.goal = call.goal /\ next.pc = pc
             /\ next.minute = call.minute /\ next # Idle
  BY <1>2 DEF Calls, Pcs, Idle
<1>5. CASE call.goal # None
  <2> DEFINE next == [call EXCEPT !.pc = "save"]
  <2>1. Goes(p, next)
    BY <1>3, <1>5
  <2>2. next \in Calls /\ next.op = call.op /\ next.goal = call.goal /\ next.pc = "save"
        /\ next.minute = call.minute /\ next # Idle
    BY <1>4
  <2> HIDE DEF next
  <2>3. Going(p, next)
    BY <1>1, <1>2, <1>5, <2>2 DEF Going, Places, Requests
  <2>4. QED
    BY <1>1, <1>2, <2>1, <2>2, <2>3 DEF Proceeds, Follows, Sound
<1>6. CASE call.goal = None /\ call.op = "meter"
  <2>0. p \in Workers
    BY <1>1, <1>2, <1>6 DEF Going, Requests
  <2>1. CASE seen = "capturing"
    <3> DEFINE next == [call EXCEPT !.pc = "settle"]
    <3>1. Goes(p, next)
      BY <1>3, <1>6, <2>1
    <3>2. next \in Calls /\ next.op = call.op /\ next.goal = call.goal /\ next.pc = "settle"
          /\ next.minute = call.minute /\ next # Idle
      BY <1>4
    <3> HIDE DEF next
    <3>3. Going(p, next)
      BY <1>1, <1>2, <1>6, <3>2 DEF Going, Places, Requests
    <3>4. QED
      BY <1>1, <1>6, <3>1, <3>2, <3>3 DEF Proceeds, Follows, Sound
  <2>2. CASE seen # "capturing"
    <3>1. Goes(p, Asleep)
      BY <1>3, <1>6, <2>2
    <3>2. QED
      BY <1>1, <2>0, <3>1, SleepersAreSound DEF Proceeds, Follows
  <2>3. QED
    BY <2>1, <2>2
<1>7. CASE call.goal = None /\ call.op # "meter"
  <2>0. call.op = "attach" /\ p \notin Workers
    BY <1>1, <1>2, <1>7, ConstantsAssumption DEF Going, Places, Requests
  <2>1. CASE seen = "capturing"
    <3> DEFINE next == [call EXCEPT !.pc = "ensure"]
    <3>1. Goes(p, next)
      BY <1>3, <1>7, <2>1
    <3>2. next \in Calls /\ next.op = call.op /\ next.goal = call.goal /\ next.pc = "ensure"
          /\ next.minute = call.minute /\ next # Idle
      BY <1>4
    <3> HIDE DEF next
    <3>3. Going(p, next)
      BY <1>1, <1>2, <1>7, <2>0, <3>2 DEF Going, Places, Requests
    <3>4. QED
      BY <1>1, <2>0, <3>1, <3>2, <3>3 DEF Proceeds, Follows, Sound
  <2>2. CASE seen # "capturing"
    BY <1>3, <1>7, <2>0, <2>2, IdleIsSound DEF Proceeds, Follows
  <2>3. QED
    BY <2>1, <2>2
<1>8. QED
  BY <1>5, <1>6, <1>7

(* A call that only moves on to another place.                             *)
LEMMA MovingOnProceeds ==
  ASSUME ThreadsOK, NEW p \in Threads, thread[p] # Idle, NEW pc, GoesOn(p, pc),
         pc \in Places[thread[p].op],
         pc \in {"look", "fill"} => thread[p].op # "resume" \/ thread[p].goal # None,
         pc \in {"save", "write"} => thread[p].goal # None,
         pc = "fill" => thread[p].seen # None, pc # "reserve"
  PROVE  Proceeds(p)
<1>1. Going(p, thread[p]) /\ thread[p] \in Calls
  BY DEF ThreadsOK, Sound
<1>2. pc \in Pcs /\ pc # "idle"
  BY <1>1 DEF Going, Requests, Places, Pcs
<1> DEFINE next == [thread[p] EXCEPT !.pc = pc]
<1>3. /\ next \in Calls /\ next.pc = pc /\ next.op = thread[p].op /\ next.goal = thread[p].goal
      /\ next.seen = thread[p].seen /\ next.minute = thread[p].minute /\ next # Idle
  BY <1>1, <1>2 DEF Calls, Idle
<1>4. Goes(p, next)
  BY DEF GoesOn
<1> HIDE DEF next
<1>5. Going(p, next)
  BY <1>1, <1>3 DEF Going
<1>6. QED
  BY <1>3, <1>4, <1>5 DEF Proceeds, Follows, Sound

(* A call of a caller may end.                                             *)
LEMMA ReturningProceeds ==
  ASSUME NEW c \in Callers, Returns(c)
  PROVE  Proceeds(c)
  BY IdleIsSound, CallersDoNotMeter DEF Proceeds, Follows, Returns

(* capture_control_state goes on to fill the cache, or to use it.          *)
LEMMA LookingProceeds ==
  ASSUME TablesOK, ThreadsOK, NEW p \in Threads, CaptureControlState(p)
  PROVE  Proceeds(p)
<1>1. Going(p, thread[p]) /\ thread[p] \in Calls /\ thread[p] # Idle /\ thread[p].pc = "look"
  BY ThreadIsGoing DEF CaptureControlState
<1>2. CASE cache = None
  <2> DEFINE next == [thread[p] EXCEPT !.seen = log, !.pc = "fill"]
  <2>1. Goes(p, next)
    BY <1>2 DEF CaptureControlState
  <2>2. /\ next \in Calls /\ next.pc = "fill" /\ next.op = thread[p].op
        /\ next.goal = thread[p].goal /\ next.seen = log /\ next.minute = thread[p].minute
        /\ next # Idle
    BY <1>1 DEF TablesOK, Calls, Pcs, Idle
  <2>3. log # None
    BY ConstantsAssumption DEF TablesOK, CaptureStates
  <2> HIDE DEF next
  <2>4. Going(p, next)
    BY <1>1, <2>2, <2>3 DEF Going, Places, Requests
  <2>5. QED
    BY <1>1, <2>1, <2>2, <2>4 DEF Proceeds, Follows, Sound
<1>3. CASE cache # None
  <2>1. cache \in CaptureStates /\ Decided(p, cache)
    BY <1>3 DEF CaptureControlState, TablesOK
  <2>2. QED
    BY <1>1, <2>1, DecidedProceeds
<1>4. QED
  BY <1>2, <1>3

(* The cache is filled with a state, and the call goes on with it.         *)
LEMMA FillingProceeds ==
  ASSUME TablesOK, ThreadsOK, NEW p \in Threads, FillCache(p)
  PROVE  Proceeds(p) /\ cache' \in CaptureStates
<1>1. Going(p, thread[p]) /\ thread[p] \in Calls /\ thread[p].pc = "fill"
  BY ThreadIsGoing DEF FillCache
<1>2. thread[p].seen \in CaptureStates
  BY <1>1 DEF Going, Calls
<1>3. QED
  BY <1>1, <1>2, DecidedProceeds DEF FillCache

(* An event is saved with the state the call wants.                        *)
LEMMA SavingProceeds ==
  ASSUME TablesOK, ThreadsOK, NEW p \in Threads, SaveCaptureEvent(p)
  PROVE  Proceeds(p) /\ log' \in CaptureStates
<1>1. Going(p, thread[p]) /\ thread[p] \in Calls /\ thread[p] # Idle /\ thread[p].pc = "save"
  BY ThreadIsGoing DEF SaveCaptureEvent
<1>2. thread[p].goal \in CaptureStates /\ thread[p].goal # None
  BY <1>1 DEF Going, Calls
<1> DEFINE next == [thread[p] EXCEPT !.seen = None, !.pc = "write"]
<1>3. /\ next \in Calls /\ next.pc = "write" /\ next.op = thread[p].op
      /\ next.goal = thread[p].goal /\ next.minute = thread[p].minute /\ next # Idle
  BY <1>1 DEF Calls, Pcs, Idle
<1>4. Goes(p, next)
  BY DEF SaveCaptureEvent
<1> HIDE DEF next
<1>5. Going(p, next)
  BY <1>1, <1>2, <1>3 DEF Going, Places, Requests
<1>6. log' \in CaptureStates
  BY <1>2 DEF SaveCaptureEvent, TablesOK
<1>7. QED
  BY <1>1, <1>3, <1>4, <1>5, <1>6 DEF Proceeds, Follows, Sound

(* The new state is put into the cache; the call then stops or ensures the *)
(* meter, ends, or leaves the loop.                                        *)
LEMMA WritingProceeds ==
  ASSUME TablesOK, ThreadsOK, NEW p \in Threads, WriteCache(p)
  PROVE  Proceeds(p) /\ cache' \in CaptureStates
<1>1. Going(p, thread[p]) /\ thread[p] \in Calls /\ thread[p] # Idle /\ thread[p].pc = "write"
  BY ThreadIsGoing DEF WriteCache
<1>2. cache' \in CaptureStates
  BY <1>1 DEF Going, Calls, WriteCache
<1>3. CASE thread[p].op = "pause"
  <2>1. GoesOn(p, "stop")
    BY <1>3 DEF WriteCache
  <2>2. QED
    BY <1>1, <1>2, <1>3, <2>1, MovingOnProceeds DEF Places
<1>4. CASE thread[p].op = "meter"
  <2>1. GoesOn(p, "exit")
    BY <1>4 DEF WriteCache
  <2>2. QED
    BY <1>1, <1>2, <1>4, <2>1, MovingOnProceeds DEF Places
<1>5. CASE thread[p].op \notin {"pause", "meter"}
  <2>1. thread[p].op = "resume" /\ p \in Callers
    BY <1>1, <1>5 DEF Going, Places, Requests, Threads
  <2>2. GoesOn(p, "ensure") \/ Returns(p)
    BY <1>5 DEF WriteCache
  <2>3. QED
    BY <1>1, <1>2, <2>1, <2>2, MovingOnProceeds, ReturningProceeds DEF Places
<1>6. QED
  BY <1>3, <1>4, <1>5

(* A minute is looked up and reserved.                                     *)
LEMMA SettlingProceeds ==
  ASSUME TablesOK, ThreadsOK, NEW p \in Threads, SettleMinute(p)
  PROVE  Proceeds(p)
<1>1. Going(p, thread[p]) /\ thread[p] \in Calls /\ thread[p] # Idle /\ thread[p].pc = "settle"
  BY ThreadIsGoing DEF SettleMinute
<1>2. thread[p].op \in {"resume", "meter"} /\ (p \notin Workers => p \in Callers)
  BY <1>1 DEF Going, Places, Requests, Threads
<1>3. CASE status = "live"
  <2> DEFINE next == [thread[p] EXCEPT !.pc = "reserve", !.minute = elapsed]
  <2>1. Goes(p, next)
    BY <1>3 DEF SettleMinute
  <2>2. /\ next \in Calls /\ next.pc = "reserve" /\ next.op = thread[p].op
        /\ next.goal = thread[p].goal /\ next # Idle
    BY <1>1 DEF TablesOK, Calls, Pcs, Idle
  <2> HIDE DEF next
  <2>3. Going(p, next)
    BY <1>1, <1>2, <2>2 DEF Going, Places, Requests
  <2>4. QED
    BY <1>1, <1>3, <2>1, <2>2, <2>3 DEF Proceeds, Follows, Sound
<1>4. CASE status # "live"
  <2>1. CASE p \in Workers
    <3>1. GoesOn(p, "exit") /\ thread[p].op = "meter"
      BY <1>1, <1>4, <2>1 DEF SettleMinute, NotSettled, Going
    <3>2. QED
      BY <1>1, <3>1, MovingOnProceeds DEF Places
  <2>2. CASE p \notin Workers
    BY <1>2, <1>4, <2>2, ReturningProceeds DEF SettleMinute, NotSettled
  <2>3. QED
    BY <2>1, <2>2
<1>5. QED
  BY <1>3, <1>4

\* A call at its beginning.
Fresh(op, pc, goal) == [op |-> op, pc |-> pc, seen |-> None, goal |-> goal, minute |-> 0]

(* What such a call is made of.                                            *)
LEMMA FreshIsCall ==
  ASSUME NEW op \in Ops, NEW pc \in Pcs, NEW goal \in CaptureStates \cup {None}
  PROVE  /\ Fresh(op, pc, goal) \in Calls
         /\ Fresh(op, pc, goal).op = op /\ Fresh(op, pc, goal).pc = pc
         /\ Fresh(op, pc, goal).goal = goal /\ Fresh(op, pc, goal).minute = 0
         /\ pc # "idle" => Fresh(op, pc, goal) # Idle
<1>1. 0 \in Minutes
  BY ConstantsAssumption DEF Minutes
<1>2. QED
  BY <1>1 DEF Fresh, Calls, Idle

(* Where such a call begins.                                               *)
LEMMA FreshStarts == \A op, pc : Fresh(op, pc, None).op = op /\ Fresh(op, pc, None).pc = pc
  BY DEF Fresh

(* How Metering writes such a call.                                        *)
LEMMA FreshCalls ==
  ASSUME NEW op \in Ops, NEW pc \in Pcs, NEW goal \in CaptureStates \cup {None}
  PROVE  /\ [Idle EXCEPT !.op = op, !.pc = pc, !.goal = goal] = Fresh(op, pc, goal)
         /\ [Idle EXCEPT !.op = op, !.pc = pc] = Fresh(op, pc, None)
<1>0. Idle \in Calls /\ Fresh(op, pc, goal) \in Calls /\ Fresh(op, pc, None) \in Calls
  <2>1. Idle \in Calls
    BY IdleIsSound DEF Sound
  <2>2. Fresh(op, pc, goal) \in Calls /\ Fresh(op, pc, None) \in Calls
    BY FreshIsCall
  <2>3. QED
    BY <2>1, <2>2
<1>1. ASSUME NEW x \in Calls, NEW y \in Calls, x.op = y.op, x.pc = y.pc, x.seen = y.seen,
             x.goal = y.goal, x.minute = y.minute
      PROVE  x = y
  BY <1>1, SMT DEF Calls
<1>2. [Idle EXCEPT !.op = op, !.pc = pc, !.goal = goal] = Fresh(op, pc, goal)
  <2> DEFINE x == [Idle EXCEPT !.op = op, !.pc = pc, !.goal = goal]
  <2>1. x \in Calls
    BY <1>0 DEF Calls
  <2>2. x.op = op /\ x.pc = pc /\ x.seen = Idle.seen /\ x.goal = goal /\ x.minute = Idle.minute
    BY <1>0 DEF Calls
  <2> HIDE DEF x
  <2>3. x = Fresh(op, pc, goal)
    BY <1>0, <1>1, <2>1, <2>2 DEF Fresh, Idle
  <2>4. QED
    BY <2>3 DEF x
<1>3. [Idle EXCEPT !.op = op, !.pc = pc] = Fresh(op, pc, None)
  <2> DEFINE x == [Idle EXCEPT !.op = op, !.pc = pc]
  <2>1. x \in Calls
    BY <1>0 DEF Calls
  <2>2. /\ x.op = op /\ x.pc = pc /\ x.seen = Idle.seen /\ x.goal = Idle.goal
        /\ x.minute = Idle.minute
    BY <1>0 DEF Calls
  <2> HIDE DEF x
  <2>3. x = Fresh(op, pc, None)
    BY <1>0, <1>1, <2>1, <2>2 DEF Fresh, Idle
  <2>4. QED
    BY <2>3 DEF x
<1>4. QED
  BY <1>2, <1>3

(* The beginnings of requests, and of the loop.                            *)
LEMMA RequestsAreSound ==
  /\ \A c \in Callers : /\ Sound(c, Fresh("start", "reserve", None))
                        /\ Sound(c, Fresh("start", "capture", None))
                        /\ Sound(c, Fresh("pause", "look", "paused"))
                        /\ Sound(c, Fresh("resume", "settle", None))
                        /\ Sound(c, Fresh("attach", "look", None))
                        /\ Sound(c, Fresh("end", "stop", None))
  /\ \A w \in Workers, pc \in {"top", "look", "exit"} :
       Sound(w, Fresh("meter", pc, None)) /\ Fresh("meter", pc, None) # Idle
<1>1. ASSUME NEW op \in Ops, NEW pc \in Pcs, NEW goal \in CaptureStates \cup {None}, NEW p,
             op \in (IF p \in Workers THEN {"meter"} ELSE Requests),
             pc \in Places[op], pc \notin {"save", "write", "fill", "idle"},
             op = "pause" => goal = "paused",
             op \in {"attach", "start"} => goal = None,
             op = "meter" => goal # "capturing",
             op = "resume" /\ pc = "look" => goal # None
      PROVE  Sound(p, Fresh(op, pc, goal)) /\ Fresh(op, pc, goal) # Idle
  BY <1>1, FreshIsCall DEF Sound, Going
<1>2. QED
  BY <1>1, ConstantsAssumption, CallersDoNotMeter
  DEF Places, Requests, Ops, Pcs, CaptureStates

(* A call that leaves its minute for the capture state, with a goal.       *)
LEMMA LookingAnewProceeds ==
  ASSUME ThreadsOK, NEW p \in Threads, thread[p].op \in {"resume", "meter"}, thread[p] # Idle,
         NEW goal \in CaptureStates, thread[p].op = "meter" => goal = "paused",
         Goes(p, [Idle EXCEPT !.op = thread[p].op, !.pc = "look", !.goal = goal])
  PROVE  Proceeds(p)
<1> DEFINE next == Fresh(thread[p].op, "look", goal)
<1>1. Going(p, thread[p]) /\ thread[p] \in Calls
  BY DEF ThreadsOK, Sound
<1>2. /\ next \in Calls /\ next.pc = "look" /\ next.op = thread[p].op
      /\ next.goal = goal /\ next # Idle
  BY <1>1, FreshIsCall DEF Ops, Pcs
<1>3. Goes(p, next)
  BY <1>1, FreshCalls DEF Calls, Pcs
<1> HIDE DEF next
<1>4. Going(p, next)
  BY <1>1, <1>2, ConstantsAssumption DEF Going, Places, Requests, CaptureStates
<1>5. QED
  BY <1>1, <1>2, <1>3, <1>4 DEF Proceeds, Follows, Sound

(* The wallet's answer to a reservation.                                   *)
LEMMA ReservingProceeds ==
  ASSUME TablesOK, ThreadsOK, NEW p \in Threads, ReserveMinute(p)
  PROVE  Proceeds(p)
<1>1. Going(p, thread[p]) /\ thread[p] \in Calls /\ thread[p] # Idle /\ thread[p].pc = "reserve"
  BY ThreadIsGoing DEF ReserveMinute
<1>2. thread[p].op \in {"start", "resume", "meter"}
  BY <1>1 DEF Going, Places, Requests
<1>3. CASE HasReservation(p)
  <2>1. GoesOn(p, IF thread[p].op = "start" THEN "begin" ELSE "charge")
    BY <1>3 DEF HasReservation
  <2>2. QED
    BY <1>1, <1>2, <2>1, MovingOnProceeds DEF Places
<1>4. CASE thread[p].op = "start" /\ Returns(p)
  BY <1>1, <1>4, ReturningProceeds DEF Going, Threads
<1>5. CASE /\ thread[p].op # "start"
           /\ Goes(p, [Idle EXCEPT !.op = thread[p].op, !.pc = "look", !.goal = "paused"])
  BY <1>1, <1>2, <1>5, LookingAnewProceeds DEF CaptureStates
<1>6. QED
  BY <1>3, <1>4, <1>5 DEF ReserveMinute

(* The minute is settled, and the call goes on.                            *)
LEMMA ChargingProceeds ==
  ASSUME TablesOK, ThreadsOK, NEW p \in Threads, SettleUsage(p)
  PROVE  Proceeds(p)
<1>1. Going(p, thread[p]) /\ thread[p] \in Calls /\ thread[p] # Idle /\ thread[p].pc = "charge"
  BY ThreadIsGoing DEF SettleUsage
<1>2. thread[p].op \in {"start", "resume", "meter"}
  BY <1>1 DEF Going, Places, Requests
<1>3. CASE thread[p].op = "start"
  <2>0. "start" \in Ops /\ "capture" \in Pcs
    BY DEF Ops, Pcs
  <2>a. p \in Callers
    BY <1>1, <1>3 DEF Going, Threads
  <2>b. Goes(p, [Idle EXCEPT !.op = thread[p].op, !.pc = "capture"])
    BY <1>3 DEF SettleUsage, Settled
  <2>1. Goes(p, Fresh("start", "capture", None))
    BY <1>3, <2>0, <2>b, FreshCalls
  <2>2. QED
    BY <1>3, <2>a, <2>1, CallersDoNotMeter, RequestsAreSound, FreshStarts DEF Proceeds, Follows
<1>4. CASE thread[p].op = "resume"
  <2>1. Goes(p, [Idle EXCEPT !.op = thread[p].op, !.pc = "look", !.goal = "capturing"])
    BY <1>4 DEF SettleUsage, Settled
  <2>2. QED
    BY <1>1, <1>4, <2>1, LookingAnewProceeds DEF CaptureStates
<1>5. CASE thread[p].op = "meter"
  <2>1. Goes(p, Asleep) /\ p \in Workers
    BY <1>1, <1>5 DEF SettleUsage, Settled, Going, Requests
  <2>2. QED
    BY <1>1, <2>1, SleepersAreSound DEF Proceeds, Follows
<1>6. QED
  BY <1>2, <1>3, <1>4, <1>5

(* What a reservation, a settlement and a release do to the minutes.       *)
LEMMA MinutesMove ==
  ASSUME TablesOK, NEW m \in Minutes,
         \/ charge' = charge
         \/ U!Hold(m)
         \/ U!Charge(m)
         \/ U!Waive({m})
  PROVE  /\ charge' \in [Minutes -> U!States]
         /\ \A n \in Minutes : /\ charge[n] # "open" => charge'[n] # "open"
                               /\ charge[n] \in {"charged", "waived"} => charge'[n] = charge[n]
                               /\ n # m => charge'[n] = charge[n]
<1>1. CASE charge' = charge
  BY <1>1 DEF TablesOK
<1>2. CASE U!Hold(m)
  BY <1>2 DEF TablesOK, U!Hold, U!Move, U!States
<1>3. CASE U!Charge(m)
  BY <1>3 DEF TablesOK, U!Charge, U!Move, U!States
<1>4. CASE U!Waive({m})
  BY <1>4 DEF TablesOK, U!Waive, U!States
<1>5. QED
  BY <1>1, <1>2, <1>3, <1>4

(* The steps of a call that leave the registered meter alone.              *)
LEMMA StepsProceed ==
  ASSUME TablesOK, ThreadsOK, NEW p \in Threads, Step(p),
         ~EnsureMetering(p), ~StopMetering(p)
  PROVE  Proceeds(p) /\ TablesOK' /\ meter' = meter /\ stopped' = stopped
<1>1. CASE CaptureControlState(p)
  BY <1>1, LookingProceeds DEF CaptureControlState, TablesOK
<1>2. CASE FillCache(p)
  BY <1>2, FillingProceeds DEF FillCache, TablesOK
<1>3. CASE SaveCaptureEvent(p)
  BY <1>3, SavingProceeds DEF SaveCaptureEvent, TablesOK
<1>4. CASE WriteCache(p)
  BY <1>4, WritingProceeds DEF WriteCache, TablesOK
<1>5. CASE SettleMinute(p)
  BY <1>5, SettlingProceeds DEF SettleMinute, TablesOK
<1>6. CASE ReserveMinute(p)
  <2>1. thread[p].minute \in Minutes
    BY <1>6, ThreadIsGoing DEF ReserveMinute, Calls
  <2>2. charge' \in [Minutes -> U!States]
    BY <1>6, <2>1, MinutesMove DEF ReserveMinute
  <2>3. QED
    BY <1>6, <2>2, ReservingProceeds DEF ReserveMinute, TablesOK
<1>7. CASE SettleUsage(p)
  <2>1. thread[p].minute \in Minutes
    BY <1>7, ThreadIsGoing DEF SettleUsage, Calls
  <2>2. charge' \in [Minutes -> U!States]
    BY <1>7, <2>1, MinutesMove DEF SettleUsage
  <2>3. QED
    BY <1>7, <2>2, ChargingProceeds DEF SettleUsage, TablesOK
<1>8. QED
  BY <1>1, <1>2, <1>3, <1>4, <1>5, <1>6, <1>7 DEF Step

(* A request begins with a sound call.                                     *)
LEMMA RequestsProceed ==
  ASSUME TablesOK, ThreadsOK, NEW c \in Callers, Request(c)
  PROVE  Proceeds(c) /\ TablesOK' /\ meter' = meter /\ stopped' = stopped
<1>0. ASSUME NEW op \in Ops, NEW pc \in Pcs, NEW goal \in CaptureStates \cup {None},
             Sound(c, Fresh(op, pc, goal)), op = "start" <=> pc = "reserve",
             \/ Goes(c, [Idle EXCEPT !.op = op, !.pc = pc, !.goal = goal])
             \/ goal = None /\ Goes(c, [Idle EXCEPT !.op = op, !.pc = pc])
      PROVE  Proceeds(c)
  <2>1. Goes(c, Fresh(op, pc, goal))
    BY <1>0, FreshCalls
  <2>2. QED
    BY <1>0, <2>1, CallersDoNotMeter, FreshIsCall DEF Proceeds, Follows
<1>1. CASE Start(c)
  <2>1. Proceeds(c)
    BY <1>0, <1>1, RequestsAreSound DEF Start, Ops, Pcs
  <2>2. QED
    BY <1>1, <2>1 DEF Start, TablesOK
<1>2. CASE ControlCapture(c, "pause") \/ ControlCapture(c, "resume")
  <2>1. Proceeds(c)
    BY <1>0, <1>2, RequestsAreSound DEF ControlCapture, Ops, Pcs, CaptureStates
  <2>2. QED
    BY <1>2, <2>1 DEF ControlCapture, TablesOK
<1>3. CASE CreatePublisher(c)
  <2>1. Proceeds(c)
    BY <1>0, <1>3, RequestsAreSound DEF CreatePublisher, Ops, Pcs
  <2>2. QED
    BY <1>3, <2>1 DEF CreatePublisher, TablesOK
<1>4. CASE Terminate(c)
  <2>1. Proceeds(c)
    BY <1>0, <1>4, RequestsAreSound DEF Terminate, Ops, Pcs
  <2>2. QED
    BY <1>4, <2>1 DEF Terminate, TablesOK
<1>5. QED
  BY <1>1, <1>2, <1>3, <1>4 DEF Request

(* The steps of a start.                                                   *)
LEMMA StartingProceeds ==
  ASSUME TablesOK, ThreadsOK, NEW c \in Callers,
         StartSession(c) \/ ReleaseUsage(c) \/ StartCapture(c)
  PROVE  Proceeds(c) /\ TablesOK' /\ meter' = meter /\ stopped' = stopped
<1>0. c \in Threads
  BY CallersDoNotMeter
<1>1. CASE StartSession(c)
  <2>1. thread[c] # Idle /\ thread[c].op = "start"
    BY <1>1 DEF StartSession, At, Idle
  <2>2. GoesOn(c, "charge") \/ GoesOn(c, "release")
    BY <1>1 DEF StartSession
  <2>3. Proceeds(c)
    BY <1>0, <2>1, <2>2, MovingOnProceeds DEF Places
  <2>4. QED
    BY <1>1, <2>3 DEF StartSession, TablesOK
<1>2. CASE ReleaseUsage(c)
  <2>1. thread[c].minute \in Minutes
    BY <1>0, <1>2, ThreadIsGoing DEF ReleaseUsage, At, Calls
  <2>2. charge' \in [Minutes -> U!States]
    BY <1>2, <2>1, MinutesMove DEF ReleaseUsage
  <2>3. QED
    BY <1>2, <2>2, ReturningProceeds DEF ReleaseUsage, TablesOK
<1>3. CASE StartCapture(c)
  <2>1. thread[c] # Idle /\ thread[c].op = "start"
    BY <1>3 DEF StartCapture, At, Idle
  <2>2. Returns(c) \/ GoesOn(c, "ensure")
    BY <1>3 DEF StartCapture
  <2>3. Proceeds(c)
    BY <1>0, <2>1, <2>2, MovingOnProceeds, ReturningProceeds DEF Places
  <2>4. QED
    BY <1>3, <2>3 DEF StartCapture, TablesOK, CaptureStates
<1>4. QED
  BY <1>1, <1>2, <1>3

(* A metering thread at the top of its loop.                               *)
LEMMA ChecksProceed ==
  ASSUME TablesOK, ThreadsOK, NEW w \in Workers, MeterChecks(w)
  PROVE  Proceeds(w) /\ TablesOK' /\ meter' = meter /\ stopped' = stopped
<1>1. thread[w] # Idle
  BY DEF MeterChecks, Wakes, At, Idle
<1>2. Goes(w, Fresh("meter", "look", None)) \/ Goes(w, Fresh("meter", "exit", None))
  BY FreshCalls DEF MeterChecks, Ops, Pcs
<1>3. Proceeds(w)
  BY <1>1, <1>2, RequestsAreSound, FreshStarts DEF Proceeds, Follows
<1>4. QED
  BY <1>3 DEF MeterChecks, TablesOK

-----------------------------------------------------------------------------
(* The registered meter                                                    *)

(* A thread that goes on by itself leaves the registered meter as it was.  *)
LEMMA GoingOnKeeps ==
  ASSUME TablesOK, ThreadsOK, NoOrphanMeter, NEW p \in Threads, Proceeds(p),
         meter' = meter, stopped' = stopped
  PROVE  ThreadsOK' /\ NoOrphanMeter'
<1>1. PICK next : /\ Sound(p, next) /\ Goes(p, next)
                  /\ p \in Workers => next # Idle /\ thread[p] # Idle
  BY DEF Proceeds
<1>2. ThreadsOK'
  BY <1>1, ThreadsStayOK
<1>3. \A w \in Workers : thread'[w] # Idle <=> thread[w] # Idle
  BY <1>1 DEF ThreadsOK, Threads, Goes
<1>4. meter # None => meter \in Workers /\ Alive(meter) /\ meter \notin stopped
  BY DEF NoOrphanMeter, TablesOK
<1>5. QED
  BY <1>2, <1>3, <1>4 DEF NoOrphanMeter, Alive

(* A request that ensures the meter starts one only where none is on.      *)
LEMMA EnsuringKeeps ==
  ASSUME TablesOK, ThreadsOK, NoOrphanMeter, NEW p \in Threads, EnsureMetering(p)
  PROVE  TablesOK' /\ ThreadsOK' /\ NoOrphanMeter'
<1>1. p \in Callers /\ p \notin Workers
  <2>1. Going(p, thread[p]) /\ thread[p].pc = "ensure"
    BY ThreadIsGoing DEF EnsureMetering
  <2>2. QED
    BY <2>1, CallersDoNotMeter DEF Going, Places, Threads
<1>2. CASE Returns(p) /\ meter' = meter /\ stopped' = stopped
  <2>1. TablesOK'
    BY <1>2 DEF EnsureMetering, TablesOK
  <2>2. QED
    BY <1>1, <1>2, <2>1, ReturningProceeds, GoingOnKeeps
<1>3. CASE ~Returns(p) \/ meter' # meter \/ stopped' # stopped
  <2>1. ~(meter # None /\ Alive(meter))
    BY <1>3 DEF EnsureMetering
  <2>2. PICK w \in Workers :
          /\ ~Alive(w)
          /\ meter' = w /\ stopped' = stopped \ {w}
          /\ thread' = [thread EXCEPT ![p] = Idle,
                                      ![w] = [Idle EXCEPT !.op = "meter", !.pc = "top"]]
    BY <1>3 DEF EnsureMetering
  <2>3. [Idle EXCEPT !.op = "meter", !.pc = "top"] = Fresh("meter", "top", None)
    BY FreshCalls DEF Ops, Pcs
  <2>4. Sound(w, Fresh("meter", "top", None)) /\ Fresh("meter", "top", None) # Idle
    BY RequestsAreSound
  <2>5. w \in Threads /\ thread \in [Threads -> Calls] /\ w # p
    BY <1>1 DEF Threads, ThreadsOK
  <2>6. /\ thread' \in [Threads -> Calls]
        /\ thread'[w] = Fresh("meter", "top", None) /\ thread'[p] = Idle
        /\ \A q \in Threads \ {p, w} : thread'[q] = thread[q]
    BY <2>2, <2>3, <2>4, <2>5, IdleIsSound DEF Sound
  <2>7. ThreadsOK'
    <3>1. ASSUME NEW q \in Threads  PROVE Sound(q, thread'[q])
      BY <2>4, <2>6, IdleIsSound DEF ThreadsOK
    <3>2. QED
      BY <2>6, <3>1 DEF ThreadsOK
  <2>8. TablesOK'
    BY <2>2 DEF EnsureMetering, TablesOK
  <2>9. meter = None
    BY <2>1 DEF NoOrphanMeter
  <2>10. NoOrphanMeter'
    <3>1. Alive(w)' /\ w \notin stopped'
      BY <2>2, <2>4, <2>6 DEF Alive
    <3>2. ASSUME NEW v \in Workers, v # w, thread'[v] # Idle  PROVE v \in stopped'
      <4>1. v \in Threads \ {p, w}
        BY <1>1, <3>2 DEF Threads
      <4>2. Alive(v)
        BY <2>6, <3>2, <4>1 DEF Alive
      <4>3. v \in stopped
        BY <2>9, <4>2, ConstantsAssumption DEF NoOrphanMeter
      <4>4. QED
        BY <2>2, <3>2, <4>3
    <3>3. QED
      BY <2>2, <3>1, <3>2 DEF NoOrphanMeter, Alive
  <2>11. QED
    BY <2>7, <2>8, <2>10
<1>4. QED
  BY <1>2, <1>3

(* Whoever stops the meter tells the registered thread, and registers none.*)
LEMMA StoppingKeeps ==
  ASSUME TablesOK, ThreadsOK, NoOrphanMeter, NEW p \in Threads, StopMetering(p)
  PROVE  TablesOK' /\ ThreadsOK' /\ NoOrphanMeter'
<1>1. p \in Callers /\ p \notin Workers
  <2>1. Going(p, thread[p]) /\ thread[p].pc = "stop"
    BY ThreadIsGoing DEF StopMetering
  <2>2. QED
    BY <2>1, CallersDoNotMeter DEF Going, Places, Threads
<1>2. TablesOK'
  BY DEF StopMetering, TablesOK
<1>3. ThreadsOK'
  BY IdleIsSound, ThreadsStayOK DEF StopMetering, Returns
<1>4. NoOrphanMeter'
  <2>1. \A w \in Workers : thread'[w] # Idle => thread[w] # Idle
    BY <1>1 DEF StopMetering, Returns, Goes, ThreadsOK, Threads
  <2>2. ASSUME NEW w \in Workers, thread'[w] # Idle  PROVE w \in stopped'
    <3>1. w \in stopped \/ meter = w
      BY <2>1, <2>2 DEF NoOrphanMeter, Alive
    <3>2. QED
      BY <3>1, ConstantsAssumption DEF StopMetering
  <2>3. QED
    BY <2>2 DEF NoOrphanMeter, StopMetering, Alive
<1>5. QED
  BY <1>2, <1>3, <1>4

(* A metering thread on its way out takes only itself off the list.        *)
LEMMA ExitingKeeps ==
  ASSUME TablesOK, ThreadsOK, NoOrphanMeter, NEW w \in Workers, MeterExits(w)
  PROVE  TablesOK' /\ ThreadsOK' /\ NoOrphanMeter'
<1>1. w \in Threads
  BY DEF Threads
<1>2. TablesOK'
  BY DEF MeterExits, TablesOK
<1>3. ThreadsOK'
  BY <1>1, IdleIsSound, ThreadsStayOK DEF MeterExits, Returns
<1>4. NoOrphanMeter'
  <2>1. thread'[w] = Idle /\ \A v \in Workers \ {w} : thread'[v] = thread[v]
    BY <1>1 DEF MeterExits, Returns, Goes, ThreadsOK, Threads
  <2>2. ASSUME NEW v \in Workers, thread'[v] # Idle, v \notin stopped'  PROVE meter' = v
    <3>1. v # w /\ meter = v
      BY <2>1, <2>2 DEF MeterExits, NoOrphanMeter, Alive
    <3>2. QED
      BY <3>1 DEF MeterExits
  <2>3. ASSUME meter' # None  PROVE thread'[meter'] # Idle /\ meter' \notin stopped'
    <3>1. meter' = meter /\ meter # w /\ meter \in Workers
      BY <2>3 DEF MeterExits, TablesOK
    <3>2. Alive(meter) /\ meter \notin stopped
      BY <2>3, <3>1 DEF NoOrphanMeter
    <3>3. QED
      BY <2>1, <3>1, <3>2 DEF MeterExits, Alive
  <2>4. QED
    BY <2>2, <2>3 DEF NoOrphanMeter, Alive
<1>5. QED
  BY <1>2, <1>3, <1>4

(* Time, a sweep and a restart.                                            *)
LEMMA WorldKeeps ==
  ASSUME TablesOK, ThreadsOK, NoOrphanMeter, Minute \/ Sweep \/ Restart
  PROVE  TablesOK' /\ ThreadsOK' /\ NoOrphanMeter'
<1>1. CASE Minute
  <2>1. elapsed' \in Minutes
    BY <1>1, ConstantsAssumption DEF Minute, TablesOK, Minutes
  <2>2. QED
    BY <1>1, <2>1 DEF Minute, TablesOK, ThreadsOK, NoOrphanMeter, Alive
<1>2. CASE Sweep
  <2>1. charge' \in [Minutes -> U!States]
    BY <1>2, MinutesMove DEF Sweep
  <2>2. QED
    BY <1>2, <2>1 DEF Sweep, TablesOK, ThreadsOK, NoOrphanMeter, Alive
<1>3. CASE Restart
  <2>1. thread' \in [Threads -> Calls] /\ \A p \in Threads : thread'[p] = Idle
    BY <1>3, IdleIsSound DEF Restart, Threads, Sound
  <2>2. ThreadsOK'
    BY <2>1, IdleIsSound DEF ThreadsOK
  <2>3. TablesOK'
    BY <1>3 DEF Restart, TablesOK
  <2>4. NoOrphanMeter'
    BY <1>3, <2>1 DEF Restart, NoOrphanMeter, Alive, Threads
  <2>5. QED
    BY <2>2, <2>3, <2>4
<1>4. QED
  BY <1>1, <1>2, <1>3

\* The inductive invariant: the tables and the threads are sound, and the
\* registered meter is the one that runs.
MetersInv == TablesOK /\ ThreadsOK /\ NoOrphanMeter

(* The initial state has no thread on the way.                             *)
LEMMA InitIsSound == Init => MetersInv
<1> SUFFICES ASSUME Init  PROVE MetersInv
  OBVIOUS
<1>1. TablesOK
  BY ConstantsAssumption DEF Init, TablesOK, CaptureStates, Minutes, U!States
<1>2. ThreadsOK
  BY IdleIsSound DEF Init, ThreadsOK, Threads, Sound
<1>3. NoOrphanMeter
  BY DEF Init, NoOrphanMeter, Alive
<1>4. QED
  BY <1>1, <1>2, <1>3 DEF MetersInv

(* Every step keeps them so.                                               *)
LEMMA NextIsSound == MetersInv /\ [Next]_vars => MetersInv'
<1> SUFFICES ASSUME TablesOK, ThreadsOK, NoOrphanMeter, [Next]_vars
             PROVE  TablesOK' /\ ThreadsOK' /\ NoOrphanMeter'
  BY DEF MetersInv
<1>1. ASSUME NEW p \in Threads, Step(p)  PROVE TablesOK' /\ ThreadsOK' /\ NoOrphanMeter'
  BY <1>1, StepsProceed, GoingOnKeeps, EnsuringKeeps, StoppingKeeps
<1>2. ASSUME NEW c \in Callers, Request(c)  PROVE TablesOK' /\ ThreadsOK' /\ NoOrphanMeter'
  BY <1>2, RequestsProceed, GoingOnKeeps, CallersDoNotMeter
<1>3. ASSUME NEW c \in Callers, CallerStep(c)  PROVE TablesOK' /\ ThreadsOK' /\ NoOrphanMeter'
  <2>1. CASE Step(c)
    BY <1>1, <2>1, CallersDoNotMeter
  <2>2. CASE StartSession(c) \/ ReleaseUsage(c) \/ StartCapture(c)
    BY <2>2, StartingProceeds, GoingOnKeeps, CallersDoNotMeter
  <2>3. QED
    BY <1>3, <2>1, <2>2 DEF CallerStep
<1>4. ASSUME NEW w \in Workers, MeterStep(w)  PROVE TablesOK' /\ ThreadsOK' /\ NoOrphanMeter'
  <2>0. w \in Threads
    BY DEF Threads
  <2>1. CASE Step(w)
    BY <1>1, <2>0, <2>1
  <2>2. CASE MeterChecks(w)
    BY <2>0, <2>2, ChecksProceed, GoingOnKeeps
  <2>3. CASE MeterExits(w)
    BY <2>3, ExitingKeeps
  <2>4. QED
    BY <1>4, <2>1, <2>2, <2>3 DEF MeterStep
<1>5. CASE Minute \/ Sweep \/ Restart
  BY <1>5, WorldKeeps
<1>6. CASE UNCHANGED vars
  BY <1>6 DEF vars, TablesOK, ThreadsOK, NoOrphanMeter, Alive
<1>7. QED
  BY <1>2, <1>3, <1>4, <1>5, <1>6 DEF Next

(* The tables and the threads are sound, and a second meter never runs     *)
(* unseen, in every reachable state.                                       *)
THEOREM MetersHold == Spec => []MetersInv
  BY InitIsSound, NextIsSound, PTL DEF Spec

(* Every variable keeps the shape of its row, its cache or its thread.     *)
THEOREM TypeCorrect == Spec => []TypeOK
<1>1. MetersInv => TypeOK
  BY TypesFollow DEF MetersInv
<1>2. QED
  BY <1>1, MetersHold, PTL

(* A metering thread that has not been told to stop is the registered one: *)
(* _ensure_realtime_metering and _stop_realtime_metering always find it.   *)
THEOREM OneMeterAtMost == Spec => []NoOrphanMeter
<1>1. MetersInv => NoOrphanMeter
  BY DEF MetersInv
<1>2. QED
  BY <1>1, MetersHold, PTL

-----------------------------------------------------------------------------
(* Minutes and starts                                                      *)

\* A minute is held by the thread that reserves it.
Reserved(m) == U!Hold(m) /\ \E p \in Threads : thread[p].pc = "reserve" /\ thread[p].minute = m

(* At most one minute moves in a step, and only along its way.             *)
LEMMA OneMinuteMoves ==
  ASSUME TablesOK, ThreadsOK, [Next]_vars
  PROVE  \E m \in Minutes : charge' = charge \/ Reserved(m) \/ U!Charge(m) \/ U!Waive({m})
<1>0. 0 \in Minutes
  BY ConstantsAssumption DEF Minutes
<1>1. ASSUME NEW p \in Threads, Step(p)
      PROVE  \E m \in Minutes : charge' = charge \/ Reserved(m) \/ U!Charge(m)
  <2>1. CASE ReserveMinute(p) \/ SettleUsage(p)
    <3>1. thread[p].minute \in Minutes
      BY <2>1, ThreadIsGoing DEF ReserveMinute, SettleUsage, Calls
    <3>2. QED
      BY <2>1, <3>1 DEF ReserveMinute, SettleUsage, Reserved
  <2>2. CASE ~ReserveMinute(p) /\ ~SettleUsage(p)
    <3>1. charge' = charge
      BY <1>1, <2>2 DEF Step, CaptureControlState, FillCache, SaveCaptureEvent, WriteCache,
                        SettleMinute, EnsureMetering, StopMetering
    <3>2. QED
      BY <1>0, <3>1
  <2>3. QED
    BY <2>1, <2>2
<1>2. ASSUME NEW c \in Callers, Request(c) \/ CallerStep(c)
      PROVE  \E m \in Minutes : charge' = charge \/ Reserved(m) \/ U!Charge(m) \/ U!Waive({m})
  <2>1. CASE ReleaseUsage(c)
    <3>1. thread[c].minute \in Minutes
      BY <2>1, CallersDoNotMeter, ThreadIsGoing DEF ReleaseUsage, At, Calls
    <3>2. QED
      BY <2>1, <3>1 DEF ReleaseUsage
  <2>2. CASE Step(c)
    BY <1>1, <2>2, CallersDoNotMeter
  <2>3. CASE ~ReleaseUsage(c) /\ ~Step(c)
    <3>1. charge' = charge
      BY <1>2, <2>3 DEF Request, CallerStep, Start, ControlCapture, CreatePublisher, Terminate,
                        StartSession, StartCapture
    <3>2. QED
      BY <1>0, <3>1
  <2>4. QED
    BY <2>1, <2>2, <2>3
<1>3. ASSUME NEW w \in Workers, MeterStep(w)
      PROVE  \E m \in Minutes : charge' = charge \/ Reserved(m) \/ U!Charge(m)
  <2>1. CASE Step(w)
    BY <1>1, <2>1 DEF Threads
  <2>2. CASE ~Step(w)
    BY <1>0, <1>3, <2>2 DEF MeterStep, MeterChecks, MeterExits
  <2>3. QED
    BY <2>1, <2>2
<1>4. CASE Minute \/ Sweep \/ Restart \/ UNCHANGED vars
  BY <1>0, <1>4 DEF Minute, Sweep, Restart, vars
<1>5. QED
  BY <1>2, <1>3, <1>4 DEF Next

(* The first minute is never open again, and settled for ever.             *)
LEMMA FirstMinuteGoesForward ==
  ASSUME TablesOK, ThreadsOK, [Next]_vars
  PROVE  /\ charge[0] # "open" => charge'[0] # "open"
         /\ charge[0] \in {"charged", "waived"} => charge'[0] = charge[0]
<1>1. 0 \in Minutes
  BY ConstantsAssumption DEF Minutes
<1>2. PICK m \in Minutes : charge' = charge \/ U!Hold(m) \/ U!Charge(m) \/ U!Waive({m})
  BY OneMinuteMoves DEF Reserved
<1>3. QED
  BY <1>1, <1>2, MinutesMove

\* A start on its way has its first minute in hand, or settled.
StartHasMinute(c) ==
  /\ thread[c].op = "start" /\ thread[c].pc \in {"begin", "charge"} => charge[0] # "open"
  /\ At(c, "start", "capture") => charge[0] \in {"charged", "waived"}

StartsHaveMinutes ==
  /\ status = "live" => charge[0] # "open"
  /\ \A c \in Callers : StartHasMinute(c)

(* A start that goes on by itself keeps its minute.                        *)
LEMMA StartKeepsMinute ==
  ASSUME TablesOK, ThreadsOK, StartsHaveMinutes, NEW c \in Callers,
         Request(c) \/ CallerStep(c)
  PROVE  StartHasMinute(c)'
<1>0. c \in Threads /\ c \notin Workers /\ [Next]_vars /\ 0 \in Minutes
  BY CallersDoNotMeter, ConstantsAssumption DEF Next, Minutes
<1>1. CASE EnsureMetering(c) \/ StopMetering(c)
  <2>1. thread'[c] = Idle
    BY <1>0, <1>1 DEF EnsureMetering, StopMetering, Returns, Goes, ThreadsOK
  <2>2. QED
    BY <2>1, IdleIsSound DEF StartHasMinute, At
<1>2. CASE ~EnsureMetering(c) /\ ~StopMetering(c) /\ thread[c].op # "start"
  <2>1. Proceeds(c)
    BY <1>0, <1>2, StepsProceed, RequestsProceed, StartingProceeds DEF CallerStep
  <2>2. thread'[c].op = "start" => thread'[c].pc = "reserve"
    BY <1>0, <1>2, <2>1 DEF Proceeds, Follows, Goes, ThreadsOK
  <2>3. QED
    BY <2>2 DEF StartHasMinute, At
<1>3. CASE ~EnsureMetering(c) /\ ~StopMetering(c) /\ thread[c].op = "start"
  <2>0. /\ thread[c] \in Calls /\ thread[c].minute = 0
        /\ thread[c].pc \in {"reserve", "begin", "charge", "release", "capture", "ensure"}
    BY <1>0, <1>3, IdleIsSound DEF ThreadsOK, Sound, Going, Places
  <2>1. ~Request(c)
    BY <1>3, IdleIsSound DEF Request, Start, ControlCapture, CreatePublisher, Terminate, Free,
                             Alive
  <2>2. \/ ReserveMinute(c) \/ SettleUsage(c) \/ StartSession(c) \/ ReleaseUsage(c)
        \/ StartCapture(c)
    BY <1>3, <2>0, <2>1 DEF CallerStep, Step, CaptureControlState, FillCache,
       SaveCaptureEvent, WriteCache, SettleMinute
  <2>3. CASE ReserveMinute(c)
    <3>1. CASE HasReservation(c)
      <4>1. thread'[c].pc = "begin"
        BY <1>0, <1>3, <2>0, <3>1 DEF HasReservation, GoesOn, Goes, ThreadsOK, Calls
      <4>2. U!Hold(0) \/ (charge[0] # "open" /\ charge' = charge)
        <5>1. ~Returns(c)
          BY <1>0, <4>1, IdleIsSound DEF Returns, Goes, ThreadsOK
        <5>2. QED
          BY <1>3, <2>0, <2>3, <5>1 DEF ReserveMinute
      <4>3. charge'[0] # "open"
        BY <1>0, <4>2 DEF U!Hold, U!Move, TablesOK
      <4>4. QED
        BY <4>1, <4>3 DEF StartHasMinute, At
    <3>2. CASE ~HasReservation(c)
      <4>1. thread'[c] = Idle
        BY <1>0, <1>3, <2>3, <3>2 DEF ReserveMinute, Returns, Goes, ThreadsOK
      <4>2. QED
        BY <4>1, IdleIsSound DEF StartHasMinute, At
    <3>3. QED
      BY <3>1, <3>2
  <2>4. CASE SettleUsage(c)
    <3>1. charge[0] # "open"
      BY <1>3, <2>4 DEF SettleUsage, StartsHaveMinutes, StartHasMinute
    <3>2. charge'[0] \in {"charged", "waived"}
      BY <1>0, <2>0, <2>4, <3>1 DEF SettleUsage, U!Charge, U!Move, U!States, TablesOK
    <3>3. QED
      BY <3>2 DEF StartHasMinute
  <2>5. CASE StartSession(c)
    <3>1. charge[0] # "open" /\ charge' = charge
      BY <2>5 DEF StartSession, At, StartsHaveMinutes, StartHasMinute
    <3>2. thread'[c].pc \in {"charge", "release"}
      BY <1>0, <2>0, <2>5 DEF StartSession, GoesOn, Goes, ThreadsOK, Calls
    <3>3. QED
      BY <3>1, <3>2 DEF StartHasMinute, At
  <2>6. CASE ReleaseUsage(c)
    <3>1. thread'[c] = Idle
      BY <1>0, <2>6 DEF ReleaseUsage, Returns, Goes, ThreadsOK
    <3>2. QED
      BY <3>1, IdleIsSound DEF StartHasMinute, At
  <2>7. CASE StartCapture(c)
    <3>1. thread'[c] = Idle \/ thread'[c].pc = "ensure"
      BY <1>0, <2>0, <2>7 DEF StartCapture, Returns, GoesOn, Goes, ThreadsOK, Calls
    <3>2. QED
      BY <3>1, IdleIsSound DEF StartHasMinute, At
  <2>8. QED
    BY <2>2, <2>3, <2>4, <2>5, <2>6, <2>7
<1>4. QED
  BY <1>1, <1>2, <1>3

(* What a thread does leaves the calls of the callers alone but its own.   *)
LEMMA OtherCallsStay ==
  ASSUME ThreadsOK, NEW p \in Threads,
         (p \in Callers /\ (Request(p) \/ CallerStep(p))) \/ (p \in Workers /\ MeterStep(p))
  PROVE  \A c \in Callers \ {p} : thread'[c] = thread[c]
<1> SUFFICES ASSUME NEW c \in Callers, c # p  PROVE thread'[c] = thread[c]
  OBVIOUS
<1>0. c \in Threads /\ c \notin Workers
  BY CallersDoNotMeter
<1>1. CASE EnsureMetering(p)
  BY <1>0, <1>1 DEF EnsureMetering, Returns, Goes, ThreadsOK
<1>2. CASE \E next : Goes(p, next)
  BY <1>0, <1>2 DEF Goes, ThreadsOK
<1>3. Step(p) => EnsureMetering(p) \/ \E next : Goes(p, next)
  BY DEF Step, CaptureControlState, FillCache, SaveCaptureEvent, WriteCache, SettleMinute,
     NotSettled, ReserveMinute, HasReservation, SettleUsage, Settled, StopMetering, Decided,
     GoesOn, Returns
<1>4. CASE p \in Callers /\ ~Step(p)
  <2>1. \E next : Goes(p, next)
    BY <1>4, CallersDoNotMeter DEF CallerStep, StartSession, ReleaseUsage, StartCapture, Request,
       Start, ControlCapture, CreatePublisher, Terminate, GoesOn, Returns, MeterStep
  <2>2. QED
    BY <1>2, <2>1
<1>5. CASE p \in Workers /\ ~Step(p)
  <2>1. \E next : Goes(p, next)
    BY <1>5, CallersDoNotMeter DEF MeterStep, MeterChecks, MeterExits, Returns
  <2>2. QED
    BY <1>2, <2>1
<1>6. QED
  BY <1>1, <1>2, <1>3, <1>4, <1>5

(* The session goes live only through a start that has its minute.         *)
LEMMA GoingLive ==
  ASSUME [Next]_vars, status' = "live", status # "live"
  PROVE  \E c \in Callers : At(c, "start", "begin")
<1>1. ASSUME NEW p, Step(p)  PROVE status' = status
  BY <1>1 DEF Step, CaptureControlState, FillCache, SaveCaptureEvent, WriteCache, SettleMinute,
     ReserveMinute, SettleUsage, EnsureMetering, StopMetering
<1>2. ASSUME NEW c \in Callers, Request(c) \/ CallerStep(c)  PROVE At(c, "start", "begin")
  BY <1>1, <1>2 DEF Request, CallerStep, Start, ControlCapture, CreatePublisher, Terminate,
     StartSession, ReleaseUsage, StartCapture
<1>3. ASSUME NEW w \in Workers  PROVE ~MeterStep(w)
  BY <1>1 DEF MeterStep, MeterChecks, MeterExits
<1>4. QED
  BY <1>2, <1>3 DEF Next, Minute, Sweep, Restart, vars

(* The minutes of the starts, in every step.                               *)
LEMMA StartsKeepMinutes ==
  MetersInv /\ StartsHaveMinutes /\ [Next]_vars => StartsHaveMinutes'
<1> SUFFICES ASSUME TablesOK, ThreadsOK, StartsHaveMinutes, [Next]_vars
             PROVE  StartsHaveMinutes'
  BY DEF MetersInv
<1>1. status' = "live" => charge'[0] # "open"
  BY FirstMinuteGoesForward, GoingLive DEF StartsHaveMinutes, StartHasMinute, At
<1>2. ASSUME NEW c \in Callers, thread'[c] = thread[c]  PROVE StartHasMinute(c)'
  BY <1>2, FirstMinuteGoesForward DEF StartsHaveMinutes, StartHasMinute, At
<1>3. ASSUME NEW c \in Callers  PROVE StartHasMinute(c)'
  <2>1. CASE \E d \in Callers : Request(d) \/ CallerStep(d)
    <3>1. PICK d \in Callers : Request(d) \/ CallerStep(d)
      BY <2>1
    <3>2. c = d \/ thread'[c] = thread[c]
      BY <3>1, CallersDoNotMeter, OtherCallsStay
    <3>3. QED
      BY <1>2, <3>1, <3>2, StartKeepsMinute
  <2>2. CASE \E w \in Workers : MeterStep(w)
    <3>1. thread'[c] = thread[c]
      BY <2>2, CallersDoNotMeter, OtherCallsStay DEF Threads
    <3>2. QED
      BY <1>2, <3>1
  <2>3. CASE Minute \/ Sweep \/ UNCHANGED vars
    BY <1>2, <2>3 DEF Minute, Sweep, vars
  <2>4. CASE Restart
    <3>1. thread'[c] = Idle
      BY <2>4 DEF Restart
    <3>2. QED
      BY <3>1, IdleIsSound DEF StartHasMinute, At
  <2>5. QED
    BY <2>1, <2>2, <2>3, <2>4 DEF Next
<1>4. QED
  BY <1>1, <1>3 DEF StartsHaveMinutes

(* A session is live only with its first minute reserved, and capture      *)
(* begins only once that minute is settled: start_live_session cannot slip *)
(* past a wallet that refuses.                                             *)
THEOREM StartsArePaidFor == Spec => []StartIsPaidFor
<1>1. Init => StartsHaveMinutes
  BY IdleIsSound DEF Init, StartsHaveMinutes, StartHasMinute, At
<1>2. StartsHaveMinutes => StartIsPaidFor
  BY DEF StartsHaveMinutes, StartHasMinute, StartIsPaidFor
<1>3. QED
  BY <1>1, <1>2, MetersHold, StartsKeepMinutes, PTL DEF Spec

-----------------------------------------------------------------------------
(* After the end                                                           *)

(* An ended session stays ended.                                           *)
LEMMA EndIsFinal ==
  ASSUME [Next]_vars, status = "ended"
  PROVE  status' = "ended"
<1>1. ASSUME NEW p, Step(p)  PROVE status' = status
  BY <1>1 DEF Step, CaptureControlState, FillCache, SaveCaptureEvent, WriteCache, SettleMinute,
     ReserveMinute, SettleUsage, EnsureMetering, StopMetering
<1>2. ASSUME NEW c \in Callers, Request(c) \/ CallerStep(c)  PROVE status' = "ended"
  BY <1>1, <1>2 DEF Request, CallerStep, Start, ControlCapture, CreatePublisher, Terminate,
     StartSession, ReleaseUsage, StartCapture
<1>3. ASSUME NEW w \in Workers, MeterStep(w)  PROVE status' = "ended"
  BY <1>1, <1>3 DEF MeterStep, MeterChecks, MeterExits
<1>4. QED
  BY <1>2, <1>3 DEF Next, Minute, Sweep, Restart, vars

(* A thread that has come to a reservation was there before, starts the    *)
(* session, or has seen it live.                                           *)
LEMMA ComingToReserve ==
  ASSUME TablesOK, ThreadsOK, [Next]_vars, NEW p \in Threads, thread'[p].pc = "reserve"
  PROVE  thread'[p] = thread[p] \/ thread'[p].op = "start" \/ status = "live"
<1>0. thread \in [Threads -> Calls]
  BY DEF ThreadsOK
<1>1. ASSUME NEW q \in Threads, Proceeds(q)
      PROVE  thread'[p] = thread[p] \/ thread'[p].op = "start" \/ status = "live"
  <2>1. PICK next : Goes(q, next) /\ Follows(q, next)
    BY <1>1 DEF Proceeds
  <2>2. CASE p = q
    BY <1>0, <2>1, <2>2 DEF Goes, Follows
  <2>3. CASE p # q
    BY <1>0, <2>1, <2>3 DEF Goes
  <2>4. QED
    BY <2>2, <2>3
<1>2. ASSUME NEW q \in Threads, Returns(q)  PROVE thread'[p] = thread[p]
  BY <1>0, <1>2, IdleIsSound DEF Returns, Goes
<1>3. ASSUME NEW q \in Threads, EnsureMetering(q)  PROVE thread'[p] = thread[p]
  <2>1. CASE Returns(q)
    BY <1>2, <2>1
  <2>2. CASE ~Returns(q)
    <3>1. PICK w \in Workers :
            thread' = [thread EXCEPT ![q] = Idle,
                                     ![w] = [Idle EXCEPT !.op = "meter", !.pc = "top"]]
      BY <1>3, <2>2 DEF EnsureMetering
    <3>2. [Idle EXCEPT !.op = "meter", !.pc = "top"] = Fresh("meter", "top", None)
      BY FreshCalls DEF Ops, Pcs
    <3>3. Fresh("meter", "top", None).pc = "top" /\ w \in Threads
      BY FreshStarts DEF Threads
    <3>4. thread'[p] = thread[p] \/ thread'[p] = Idle \/ thread'[p] = Fresh("meter", "top", None)
      BY <1>0, <3>1, <3>2, <3>3
    <3>5. QED
      BY <3>3, <3>4, IdleIsSound
  <2>3. QED
    BY <2>1, <2>2
<1>4. ASSUME NEW q \in Threads, Step(q)
      PROVE  thread'[p] = thread[p] \/ thread'[p].op = "start" \/ status = "live"
  <2>1. CASE EnsureMetering(q)
    BY <1>3, <2>1
  <2>2. CASE StopMetering(q)
    BY <1>2, <2>2 DEF StopMetering
  <2>3. QED
    BY <1>1, <1>4, <2>1, <2>2, StepsProceed
<1>5. ASSUME NEW c \in Callers, Request(c) \/ CallerStep(c)
      PROVE  thread'[p] = thread[p] \/ thread'[p].op = "start" \/ status = "live"
  <2>0. c \in Threads
    BY CallersDoNotMeter
  <2>1. CASE Step(c)
    BY <1>4, <2>0, <2>1
  <2>2. CASE ~Step(c)
    <3>1. Proceeds(c)
      BY <1>5, <2>2, RequestsProceed, StartingProceeds DEF CallerStep
    <3>2. QED
      BY <1>1, <2>0, <3>1
  <2>3. QED
    BY <2>1, <2>2
<1>6. ASSUME NEW w \in Workers, MeterStep(w)
      PROVE  thread'[p] = thread[p] \/ thread'[p].op = "start" \/ status = "live"
  <2>0. w \in Threads
    BY DEF Threads
  <2>1. CASE MeterExits(w)
    BY <1>2, <2>0, <2>1 DEF MeterExits
  <2>2. CASE MeterChecks(w)
    BY <1>1, <2>0, <2>2, ChecksProceed
  <2>3. QED
    BY <1>4, <1>6, <2>0, <2>1, <2>2 DEF MeterStep
<1>7. CASE Minute \/ Sweep \/ UNCHANGED vars
  BY <1>7 DEF Minute, Sweep, vars
<1>8. CASE Restart
  <2>1. thread'[p] = Idle
    BY <1>8 DEF Restart, Threads
  <2>2. QED
    BY <2>1, IdleIsSound
<1>9. QED
  BY <1>5, <1>6, <1>7, <1>8 DEF Next

(* Once every thread that saw the session live is past its reservation, no *)
(* step of the ended session reserves a further minute, and none comes     *)
(* back to a reservation.                                                  *)
LEMMA EndedStaysQuiet ==
  ASSUME TablesOK, ThreadsOK, [Next]_vars, QuietlyEnded
  PROVE  /\ QuietlyEnded'
         /\ \A m \in Minutes \ {0} : charge[m] = "open" => charge'[m] = "open"
<1>1. status' = "ended"
  BY EndIsFinal DEF QuietlyEnded
<1>2. ASSUME NEW p \in Threads, thread'[p].pc = "reserve"  PROVE thread'[p].op = "start"
  BY <1>2, ComingToReserve DEF QuietlyEnded, Threads
<1>3. ASSUME NEW m \in Minutes \ {0}, charge[m] = "open"  PROVE charge'[m] = "open"
  <2>1. PICK n \in Minutes : charge' = charge \/ Reserved(n) \/ U!Charge(n) \/ U!Waive({n})
    BY OneMinuteMoves
  <2>2. CASE Reserved(n)
    <3>1. PICK p \in Threads : thread[p].pc = "reserve" /\ thread[p].minute = n
      BY <2>2 DEF Reserved
    <3>2. thread[p].op = "start"
      BY <3>1 DEF QuietlyEnded, Threads
    <3>3. n = 0
      BY <3>1, <3>2, ThreadIsGoing DEF Going
    <3>4. QED
      BY <1>3, <2>2, <3>3, MinutesMove DEF Reserved
  <2>3. CASE charge' = charge
    BY <1>3, <2>3
  <2>4. CASE U!Charge(n)
    BY <1>3, <2>4 DEF U!Charge, U!Move, TablesOK
  <2>5. CASE U!Waive({n})
    BY <1>3, <2>5 DEF U!Waive
  <2>6. QED
    BY <2>1, <2>2, <2>3, <2>4, <2>5
<1>4. QED
  BY <1>1, <1>2, <1>3 DEF QuietlyEnded, Threads

(* No further minute of an ended session is ever reserved, by a metering   *)
(* thread or by a resume that was on the way, once those that saw it live  *)
(* have reserved theirs.                                                   *)
THEOREM NothingAfterEnd == Spec => NoMinuteAfterEnd
<1>1. MetersInv /\ [Next]_vars =>
        [QuietlyEnded =>
           /\ QuietlyEnded'
           /\ \A m \in Minutes \ {0} : charge[m] = "open" => charge'[m] = "open"]_vars
  BY EndedStaysQuiet DEF MetersInv
<1>2. QED
  BY <1>1, MetersHold, PTL DEF Spec, NoMinuteAfterEnd

-----------------------------------------------------------------------------
(* While a pause lasts                                                     *)

\* A call that does not act on an older state than paused.
Quiet(call) ==
  /\ call.op \notin {"resume", "start"}
  /\ call.pc \notin {"settle", "reserve", "charge"}
  /\ call.pc = "fill" => call.seen = "paused"
  /\ call.pc = "write" => call.goal = "paused"

StillPaused == QuietlyPaused' /\ charge' = charge

(* The pause lasts when a thread goes on to a quiet call.                  *)
LEMMA QuietGoingOn ==
  ASSUME ThreadsOK, QuietlyPaused, NEW p \in Threads, NEW next, Goes(p, next), Quiet(next),
         log' = "paused", cache' # "capturing", charge' = charge
  PROVE  StillPaused
<1>1. ASSUME NEW q \in Threads  PROVE Quiet(thread'[q])
  <2>1. CASE q = p
    BY <2>1 DEF ThreadsOK, Goes
  <2>2. CASE q # p
    BY <2>2 DEF ThreadsOK, Goes, QuietlyPaused, Quiet, Threads
  <2>3. QED
    BY <2>1, <2>2
<1>2. QED
  BY <1>1 DEF StillPaused, QuietlyPaused, Quiet, Threads

(* What is idle or begins anew is quiet.                                   *)
LEMMA QuietCalls ==
  /\ Quiet(Idle)
  /\ \A op \in Ops \ {"resume", "start"}, pc \in {"top", "look", "exit", "stop"},
        goal \in CaptureStates \cup {None} : Quiet(Fresh(op, pc, goal))
<1>1. Quiet(Idle)
  BY IdleIsSound DEF Quiet
<1>2. ASSUME NEW op \in Ops \ {"resume", "start"}, NEW pc \in {"top", "look", "exit", "stop"},
             NEW goal \in CaptureStates \cup {None}
      PROVE  Quiet(Fresh(op, pc, goal))
  BY FreshIsCall DEF Quiet, Pcs
<1>3. QED
  BY <1>1, <1>2

(* A call that finds the state paused saves its event, sleeps or ends.     *)
LEMMA DecidedIsQuiet ==
  ASSUME TablesOK, ThreadsOK, QuietlyPaused, NEW p \in Threads,
         thread[p].pc \in {"look", "fill"}, Decided(p, "paused")
  PROVE  \E next : Goes(p, next) /\ Quiet(next)
<1> DEFINE call == [thread[p] EXCEPT !.seen = IF thread[p].goal = None THEN None ELSE "paused"]
<1>1. Going(p, thread[p]) /\ thread[p] \in Calls /\ thread[p].op \notin {"resume", "start"}
  BY ThreadIsGoing DEF QuietlyPaused, Threads
<1>2. call \in Calls /\ call.op = thread[p].op /\ call.goal = thread[p].goal
  BY <1>1 DEF Calls, CaptureStates
<1> HIDE DEF call
<1>3. Goes(p, CASE call.goal # None -> [call EXCEPT !.pc = "save"]
                [] call.goal = None /\ call.op = "meter" -> Asleep
                [] OTHER -> Idle)
  BY DEF Decided, call
<1>4. Quiet([call EXCEPT !.pc = "save"])
  BY <1>1, <1>2 DEF Quiet, Calls
<1>5. Quiet(Asleep)
  BY DEF Quiet, Asleep, Idle
<1>6. CASE call.goal # None
  BY <1>3, <1>4, <1>6
<1>7. CASE call.goal = None /\ call.op = "meter"
  BY <1>3, <1>5, <1>7
<1>8. CASE call.goal = None /\ call.op # "meter"
  BY <1>3, <1>8, QuietCalls
<1>9. QED
  BY <1>6, <1>7, <1>8

(* A call or a metering thread that goes on leaves the pause as it is.     *)
LEMMA StepsAreQuiet ==
  ASSUME TablesOK, ThreadsOK, QuietlyPaused, NEW p \in Threads, Step(p)
  PROVE  StillPaused
<1>0. /\ thread[p].op \notin {"resume", "start"}
      /\ thread[p].pc \notin {"settle", "reserve", "charge"}
      /\ log = "paused" /\ cache \in {None, "paused"}
  BY DEF QuietlyPaused, Threads, TablesOK, CaptureStates
<1>1. CASE CaptureControlState(p)
  <2>0. Going(p, thread[p]) /\ thread[p] \in Calls /\ thread[p].pc = "look"
        /\ log' = log /\ cache' = cache /\ charge' = charge
    BY <1>1, ThreadIsGoing DEF CaptureControlState
  <2>1. CASE cache = None
    <3> DEFINE next == [thread[p] EXCEPT !.seen = log, !.pc = "fill"]
    <3>1. Goes(p, next)
      BY <1>1, <2>1 DEF CaptureControlState
    <3>2. next.op = thread[p].op /\ next.pc = "fill" /\ next.seen = "paused"
      BY <1>0, <2>0 DEF Calls
    <3> HIDE DEF next
    <3>3. Quiet(next)
      BY <1>0, <3>2 DEF Quiet
    <3>4. QED
      BY <1>0, <2>0, <3>1, <3>3, QuietGoingOn DEF QuietlyPaused
  <2>2. CASE cache = "paused"
    <3>1. Decided(p, "paused")
      BY <1>1, <2>2, ConstantsAssumption DEF CaptureControlState
    <3>2. QED
      BY <1>0, <2>0, <3>1, DecidedIsQuiet, QuietGoingOn DEF QuietlyPaused
  <2>3. QED
    BY <1>0, <2>1, <2>2
<1>2. CASE FillCache(p)
  <2>1. thread[p].seen = "paused" /\ thread[p].pc = "fill"
    BY <1>2 DEF FillCache, QuietlyPaused, Threads
  <2>2. Decided(p, "paused") /\ cache' = "paused" /\ log' = log /\ charge' = charge
    BY <1>2, <2>1 DEF FillCache
  <2>3. QED
    BY <1>0, <2>1, <2>2, DecidedIsQuiet, QuietGoingOn
<1>3. CASE SaveCaptureEvent(p)
  <2>1. Going(p, thread[p]) /\ thread[p] \in Calls /\ thread[p].pc = "save"
    BY <1>3, ThreadIsGoing DEF SaveCaptureEvent
  <2>2. thread[p].goal = "paused"
    BY <1>0, <2>1 DEF Going, Places, Requests, Calls, CaptureStates
  <2> DEFINE next == [thread[p] EXCEPT !.seen = None, !.pc = "write"]
  <2>3. Goes(p, next)
    BY <1>3 DEF SaveCaptureEvent
  <2>4. next.op = thread[p].op /\ next.pc = "write" /\ next.goal = "paused"
    BY <2>1, <2>2 DEF Calls
  <2> HIDE DEF next
  <2>5. Quiet(next)
    BY <1>0, <2>4 DEF Quiet
  <2>6. log' = "paused" /\ cache' = cache /\ charge' = charge
    BY <1>0, <1>3, <2>2 DEF SaveCaptureEvent
  <2>7. QED
    BY <1>0, <2>3, <2>5, <2>6, QuietGoingOn DEF QuietlyPaused
<1>4. CASE WriteCache(p)
  <2>1. Going(p, thread[p]) /\ thread[p] \in Calls /\ thread[p].pc = "write"
    BY <1>4, ThreadIsGoing DEF WriteCache
  <2>2. thread[p].goal = "paused" /\ thread[p].op \in {"pause", "meter"}
    BY <1>0, <2>1 DEF Going, Places, Requests, QuietlyPaused, Threads
  <2>3. \E pc \in {"stop", "exit"} : GoesOn(p, pc)
    BY <1>4, <2>2 DEF WriteCache
  <2>4. PICK pc \in {"stop", "exit"} : GoesOn(p, pc)
    BY <2>3
  <2> DEFINE next == [thread[p] EXCEPT !.pc = pc]
  <2>5. Goes(p, next)
    BY <2>4 DEF GoesOn
  <2>6. next.op = thread[p].op /\ next.pc = pc
    BY <2>1 DEF Calls
  <2> HIDE DEF next
  <2>7. Quiet(next)
    BY <1>0, <2>4, <2>6 DEF Quiet
  <2>8. log' = "paused" /\ cache' = "paused" /\ charge' = charge
    BY <1>0, <1>4, <2>2 DEF WriteCache
  <2>9. QED
    BY <2>5, <2>7, <2>8, QuietGoingOn
<1>5. CASE EnsureMetering(p)
  <2>0. log' = log /\ cache' = cache /\ charge' = charge
    BY <1>5 DEF EnsureMetering
  <2>1. CASE Returns(p)
    BY <1>0, <2>0, <2>1, QuietCalls, QuietGoingOn DEF Returns, QuietlyPaused
  <2>2. CASE ~Returns(p)
    <3>1. PICK w \in Workers :
            thread' = [thread EXCEPT ![p] = Idle,
                                     ![w] = [Idle EXCEPT !.op = "meter", !.pc = "top"]]
      BY <1>5, <2>2 DEF EnsureMetering
    <3>2. [Idle EXCEPT !.op = "meter", !.pc = "top"] = Fresh("meter", "top", None)
      BY FreshCalls DEF Ops, Pcs
    <3>3. ASSUME NEW q \in Threads  PROVE Quiet(thread'[q])
      <4>1. \/ thread'[q] = thread[q] \/ thread'[q] = Idle
            \/ thread'[q] = Fresh("meter", "top", None)
        BY <3>1, <3>2 DEF ThreadsOK, Threads
      <4>2. Quiet(thread[q])
        BY DEF QuietlyPaused, Quiet, Threads
      <4>3. QED
        BY <4>1, <4>2, QuietCalls DEF Ops
    <3>4. QED
      BY <2>0, <3>3 DEF StillPaused, QuietlyPaused, Quiet, Threads
  <2>3. QED
    BY <2>1, <2>2
<1>6. CASE StopMetering(p)
  BY <1>0, <1>6, QuietCalls, QuietGoingOn DEF StopMetering, Returns, QuietlyPaused
<1>7. QED
  BY <1>0, <1>1, <1>2, <1>3, <1>4, <1>5, <1>6 DEF Step, SettleMinute, ReserveMinute, SettleUsage

\* Somebody resumes or starts.
Resumed == \E c \in Callers : ~Alive(c) /\ thread'[c].op \in {"resume", "start"}

(* A new request leaves the pause as it is, unless it is a resume.         *)
LEMMA RequestsAreQuiet ==
  ASSUME TablesOK, ThreadsOK, QuietlyPaused, NEW c \in Callers, Request(c)
  PROVE  StillPaused \/ Resumed
<1>0. c \in Threads /\ log = "paused" /\ cache # "capturing"
  BY CallersDoNotMeter DEF QuietlyPaused
<1>1. ASSUME NEW op \in Ops, NEW pc \in Pcs, NEW goal \in CaptureStates \cup {None},
             \/ Goes(c, [Idle EXCEPT !.op = op, !.pc = pc, !.goal = goal])
             \/ goal = None /\ Goes(c, [Idle EXCEPT !.op = op, !.pc = pc])
      PROVE  Goes(c, Fresh(op, pc, goal)) /\ thread'[c].op = op
  <2>1. Goes(c, Fresh(op, pc, goal))
    BY <1>1, FreshCalls
  <2>2. QED
    BY <1>0, <2>1, FreshIsCall DEF Goes, ThreadsOK
<1>2. CASE Start(c) \/ ControlCapture(c, "resume")
  <2>1. ~Alive(c)
    BY <1>2 DEF Start, ControlCapture, Free
  <2>2. thread'[c].op \in {"resume", "start"}
    BY <1>1, <1>2 DEF Start, ControlCapture, Ops, Pcs
  <2>3. QED
    BY <2>1, <2>2 DEF Resumed
<1>3. CASE ControlCapture(c, "pause")
  <2>1. Goes(c, Fresh("pause", "look", "paused"))
    BY <1>1, <1>3 DEF ControlCapture, Ops, Pcs, CaptureStates
  <2>2. Quiet(Fresh("pause", "look", "paused"))
    BY QuietCalls DEF Ops, CaptureStates
  <2>3. log' = log /\ cache' = cache /\ charge' = charge
    BY <1>3 DEF ControlCapture
  <2>4. QED
    BY <1>0, <2>1, <2>2, <2>3, QuietGoingOn
<1>4. CASE CreatePublisher(c)
  <2>1. Goes(c, Fresh("attach", "look", None))
    BY <1>1, <1>4 DEF CreatePublisher, Ops, Pcs
  <2>2. Quiet(Fresh("attach", "look", None))
    BY QuietCalls DEF Ops
  <2>3. log' = log /\ cache' = cache /\ charge' = charge
    BY <1>4 DEF CreatePublisher
  <2>4. QED
    BY <1>0, <2>1, <2>2, <2>3, QuietGoingOn
<1>5. CASE Terminate(c)
  <2>1. Goes(c, Fresh("end", "stop", None))
    BY <1>1, <1>5 DEF Terminate, Ops, Pcs
  <2>2. Quiet(Fresh("end", "stop", None))
    BY QuietCalls DEF Ops
  <2>3. log' = log /\ cache' = cache /\ charge' = charge
    BY <1>5 DEF Terminate
  <2>4. QED
    BY <1>0, <2>1, <2>2, <2>3, QuietGoingOn
<1>6. QED
  BY <1>2, <1>3, <1>4, <1>5 DEF Request

(* So does every other step, but for a sweep that gives a minute back.     *)
LEMMA PauseStays ==
  ASSUME TablesOK, ThreadsOK, [Next]_vars, QuietlyPaused
  PROVE  \/ StillPaused \/ Resumed
         \/ \E m \in Minutes : charge[m] = "held" /\ charge'[m] = "waived"
<1>0. log = "paused" /\ cache # "capturing"
  BY DEF QuietlyPaused
<1>1. ASSUME NEW c \in Callers, CallerStep(c)  PROVE StillPaused
  <2>1. thread[c].op # "start" /\ c \in Threads
    BY CallersDoNotMeter DEF QuietlyPaused
  <2>2. Step(c)
    BY <1>1, <2>1 DEF CallerStep, StartSession, ReleaseUsage, StartCapture, At
  <2>3. QED
    BY <2>1, <2>2, StepsAreQuiet
<1>2. ASSUME NEW w \in Workers, MeterStep(w)  PROVE StillPaused
  <2>0. w \in Threads
    BY DEF Threads
  <2>1. CASE Step(w)
    BY <2>0, <2>1, StepsAreQuiet
  <2>2. CASE MeterChecks(w)
    <3>1. \E pc \in {"look", "exit"} : Goes(w, Fresh("meter", pc, None))
      BY <2>2, FreshCalls DEF MeterChecks, Ops, Pcs
    <3>2. \A pc \in {"look", "exit"} : Quiet(Fresh("meter", pc, None))
      BY QuietCalls DEF Ops
    <3>3. log' = log /\ cache' = cache /\ charge' = charge
      BY <2>2 DEF MeterChecks
    <3>4. QED
      BY <1>0, <2>0, <3>1, <3>2, <3>3, QuietGoingOn
  <2>3. CASE MeterExits(w)
    BY <1>0, <2>0, <2>3, QuietCalls, QuietGoingOn DEF MeterExits, Returns
  <2>4. QED
    BY <1>2, <2>1, <2>2, <2>3 DEF MeterStep
<1>3. CASE Minute \/ UNCHANGED vars
  BY <1>3 DEF Minute, vars, StillPaused, QuietlyPaused
<1>4. CASE Sweep
  <2>1. PICK m \in Minutes : U!Waive({m})
    BY <1>4 DEF Sweep
  <2>2. charge[m] = "held" /\ charge'[m] = "waived"
    BY <2>1 DEF U!Waive
  <2>3. QED
    BY <2>2
<1>5. CASE Restart
  <2>1. \A p \in Threads : thread'[p] = Idle
    BY <1>5 DEF Restart, Threads
  <2>2. QED
    BY <1>0, <1>5, <2>1, QuietCalls, ConstantsAssumption
    DEF Restart, StillPaused, QuietlyPaused, Quiet, Threads
<1>6. QED
  BY <1>1, <1>2, <1>3, <1>4, <1>5, RequestsAreQuiet DEF Next

(* A pause that has taken hold lasts until somebody resumes: no metering   *)
(* thread, attaching desktop, late writer of the cache or restart ends it, *)
(* and no minute is reserved meanwhile.                                    *)
THEOREM PausesLast == Spec => PauseLasts
<1>1. MetersInv /\ [Next]_vars =>
        [QuietlyPaused =>
           \/ QuietlyPaused' /\ charge' = charge
           \/ \E c \in Callers : ~Alive(c) /\ thread'[c].op \in {"resume", "start"}
           \/ \E m \in Minutes : charge[m] = "held" /\ charge'[m] = "waived"]_vars
  BY PauseStays DEF MetersInv, StillPaused, Resumed
<1>2. QED
  BY <1>1, MetersHold, PTL DEF Spec, PauseLasts

-----------------------------------------------------------------------------
(* Nobody sleeps through the end                                           *)

\* A metering thread in its loop that has not been told to stop.
Unstopped(w) == w \notin stopped /\ thread[w].pc \notin {"idle", "top", "exit"}

\* While such a thread is on after the end, a call that will stop it is too.
StopIsComing ==
  status = "ended" => \A w \in Workers : Unstopped(w) => \E c \in Callers : At(c, "end", "stop")

(* Where a metering thread can come from: it was in its loop before, or    *)
(* its session is live.                                                    *)
LEMMA WorkersComeFrom ==
  ASSUME TablesOK, ThreadsOK, NEW w \in Workers, MeterStep(w), status # "live",
         thread'[w].pc \notin {"idle", "top", "exit"}
  PROVE  thread[w].pc \notin {"idle", "top", "exit"} /\ stopped' = stopped
<1>0. w \in Threads /\ thread \in [Threads -> Calls] /\ Going(w, thread[w])
  BY ThreadIsGoing DEF Threads, ThreadsOK, MeterStep, Step, MeterChecks, Wakes, MeterExits, At,
     CaptureControlState, FillCache, SaveCaptureEvent, WriteCache, SettleMinute, ReserveMinute,
     SettleUsage, EnsureMetering, StopMetering
<1>1. ~MeterExits(w)
  BY <1>0, IdleIsSound DEF MeterExits, Returns, Goes
<1>2. ~MeterChecks(w)
  <2>1. MeterChecks(w) => Goes(w, Fresh("meter", "exit", None))
    BY FreshCalls DEF MeterChecks, Ops, Pcs
  <2>2. Goes(w, Fresh("meter", "exit", None)) => thread'[w].pc = "exit"
    BY <1>0, FreshStarts DEF Goes
  <2>3. QED
    BY <2>1, <2>2
<1>3. thread[w].op = "meter" /\ thread[w].pc \in Places["meter"]
  BY <1>0 DEF Going
<1>4. QED
  BY <1>1, <1>2, <1>3 DEF MeterStep, Step, Places, CaptureControlState, FillCache,
     SaveCaptureEvent, WriteCache, SettleMinute, ReserveMinute, SettleUsage, EnsureMetering,
     StopMetering

(* A call that has ended the session stays until it has stopped the meter. *)
LEMMA StopKeepsComing ==
  MetersInv /\ StopIsComing /\ [Next]_vars => StopIsComing'
<1> SUFFICES ASSUME TablesOK, ThreadsOK, NoOrphanMeter, StopIsComing, [Next]_vars,
                    status' = "ended", NEW w \in Workers, Unstopped(w)'
             PROVE  \E c \in Callers : At(c, "end", "stop")'
  BY DEF MetersInv, StopIsComing
<1>0. w \in Threads /\ thread \in [Threads -> Calls] /\ NoOrphanMeter'
  BY NextIsSound DEF Threads, ThreadsOK, MetersInv
<1>1. ASSUME NEW c \in Callers, Terminate(c)  PROVE At(c, "end", "stop")'
  <2>1. Goes(c, Fresh("end", "stop", None))
    BY <1>1, FreshCalls DEF Terminate, Ops, Pcs
  <2>2. QED
    BY <1>0, <2>1, CallersDoNotMeter, FreshStarts DEF Goes, At
<1>2. ASSUME NEW p \in Threads, StopMetering(p)  PROVE FALSE
  <2>1. meter' = None
    BY <1>2 DEF StopMetering
  <2>2. thread'[w] # Idle /\ w \notin stopped'
    BY IdleIsSound DEF Unstopped
  <2>3. QED
    BY <1>0, <2>1, <2>2, ConstantsAssumption DEF NoOrphanMeter, Alive
<1>3. CASE Restart
  BY <1>3, IdleIsSound DEF Restart, Unstopped
<1>4. ASSUME NEW c \in Callers, At(c, "end", "stop"),
             ~Restart, \A p \in Threads : ~StopMetering(p)
      PROVE  At(c, "end", "stop")'
  <2>1. ASSUME NEW p \in Threads,
               (p \in Callers /\ (Request(p) \/ CallerStep(p))) \/ (p \in Workers /\ MeterStep(p))
        PROVE  thread'[c] = thread[c]
    <3>1. CASE p = c
      <4>1. CASE Request(c)
        BY <1>4, <4>1, IdleIsSound DEF Request, Start, ControlCapture, CreatePublisher,
           Terminate, Free, Alive, At
      <4>2. CASE CallerStep(c)
        BY <1>4, <4>2, CallersDoNotMeter DEF CallerStep, Step, At, CaptureControlState,
           FillCache, SaveCaptureEvent, WriteCache, SettleMinute, ReserveMinute, SettleUsage,
           EnsureMetering, StartSession, ReleaseUsage, StartCapture
      <4>3. QED
        BY <2>1, <3>1, <4>1, <4>2, CallersDoNotMeter
    <3>2. CASE p # c
      BY <2>1, <3>2, OtherCallsStay
    <3>3. QED
      BY <3>1, <3>2
  <2>2. thread'[c] = thread[c]
    BY <1>4, <2>1, CallersDoNotMeter DEF Next, Threads, Minute, Sweep, vars
  <2>3. QED
    BY <1>4, <2>2 DEF At
<1>5. CASE status = "ended" /\ Unstopped(w)
  <2>1. PICK c \in Callers : At(c, "end", "stop")
    BY <1>5 DEF StopIsComing
  <2>2. QED
    BY <1>2, <1>3, <1>4, <2>1
<1>6. CASE status # "ended"
  <2>1. \E c \in Callers : Terminate(c)
    <3>1. ASSUME NEW p, Step(p)  PROVE status' = status
      BY <3>1 DEF Step, CaptureControlState, FillCache, SaveCaptureEvent, WriteCache,
         SettleMinute, ReserveMinute, SettleUsage, EnsureMetering, StopMetering
    <3>2. ASSUME NEW p \in Workers, MeterStep(p)  PROVE status' = status
      BY <3>1, <3>2 DEF MeterStep, MeterChecks, MeterExits
    <3>3. ASSUME NEW c \in Callers, Request(c) \/ CallerStep(c)
          PROVE  Terminate(c) \/ status' = status \/ status' = "live"
      BY <3>1, <3>3 DEF Request, CallerStep, Start, ControlCapture, CreatePublisher,
         StartSession, ReleaseUsage, StartCapture
    <3>4. QED
      BY <1>6, <3>2, <3>3 DEF Next, Minute, Sweep, Restart, vars
  <2>2. QED
    BY <1>1, <2>1
<1>7. CASE status = "ended" /\ ~Unstopped(w)
  <2>0. thread'[w].pc \notin {"idle", "top", "exit"} /\ w \notin stopped'
    BY DEF Unstopped
  <2>1. ASSUME NEW p \in Threads, EnsureMetering(p)  PROVE FALSE
    <3>1. CASE Returns(p) /\ stopped' = stopped
      BY <1>0, <1>7, <2>0, <3>1, IdleIsSound DEF Returns, Goes, Unstopped
    <3>2. CASE ~(Returns(p) /\ stopped' = stopped)
      <4>1. PICK v \in Workers :
              /\ stopped' = stopped \ {v} /\ ~Alive(v)
              /\ thread' = [thread EXCEPT ![p] = Idle,
                                          ![v] = [Idle EXCEPT !.op = "meter", !.pc = "top"]]
        BY <2>1, <3>2 DEF EnsureMetering
      <4>2. [Idle EXCEPT !.op = "meter", !.pc = "top"] = Fresh("meter", "top", None)
        BY FreshCalls DEF Ops, Pcs
      <4>3. v = w => thread'[w] = Fresh("meter", "top", None)
        BY <1>0, <4>1, <4>2
      <4>4. v # w => thread'[w] = thread[w] \/ thread'[w] = Idle
        BY <1>0, <4>1
      <4>5. v # w => w \notin stopped
        BY <2>0, <4>1
      <4>6. QED
        BY <1>7, <2>0, <4>3, <4>4, <4>5, FreshStarts, IdleIsSound DEF Unstopped
    <3>3. QED
      BY <3>1, <3>2
  <2>2. ~MeterStep(w)
    BY <1>7, <2>0, WorkersComeFrom DEF Unstopped
  <2>3. ASSUME NEW p \in Threads, p # w, ~EnsureMetering(p), ~StopMetering(p),
               (p \in Callers /\ (Request(p) \/ CallerStep(p))) \/ (p \in Workers /\ MeterStep(p))
        PROVE  thread'[w] = thread[w] /\ stopped' = stopped
    <3>1. CASE p \in Workers /\ MeterExits(p)
      BY <1>0, <2>3, <3>1 DEF MeterExits, Returns, Goes
    <3>2. CASE ~(p \in Workers /\ MeterExits(p))
      <4>1. Proceeds(p) /\ stopped' = stopped
        BY <2>3, <3>2, StepsProceed, RequestsProceed, StartingProceeds, ChecksProceed
        DEF CallerStep, MeterStep
      <4>2. QED
        BY <1>0, <2>3, <4>1 DEF Proceeds, Goes
    <3>3. QED
      BY <3>1, <3>2
  <2>4. thread'[w] = thread[w] /\ stopped' = stopped
    <3>1. CASE Minute \/ Sweep \/ UNCHANGED vars
      BY <3>1 DEF Minute, Sweep, vars
    <3>2. CASE \E c \in Callers : Request(c) \/ CallerStep(c)
      BY <1>2, <2>1, <2>3, <3>2, CallersDoNotMeter
    <3>3. CASE \E v \in Workers : MeterStep(v)
      BY <1>2, <2>1, <2>2, <2>3, <3>3 DEF Threads
    <3>4. CASE Restart
      BY <2>0, <3>4, IdleIsSound DEF Restart
    <3>5. QED
      BY <3>1, <3>2, <3>3, <3>4 DEF Next
  <2>5. QED
    BY <1>7, <2>0, <2>4 DEF Unstopped
<1>8. QED
  BY <1>5, <1>6, <1>7

(* Once the call that ended the session has returned, whoever waits for    *)
(* the next minute has been told to stop: _reset_realtime_session misses   *)
(* no meter, not one that a resume or an attaching desktop started late.   *)
THEOREM NobodySleepsThroughTheEnd == Spec => []NoSleeperAfterEnd
<1>1. Init => StopIsComing
  BY DEF Init, StopIsComing
<1>2. StopIsComing => NoSleeperAfterEnd
  BY IdleIsSound DEF StopIsComing, Unstopped, NoSleeperAfterEnd, At, Alive
<1>3. QED
  BY <1>1, <1>2, MetersHold, StopKeepsComing, PTL DEF Spec

=============================================================================
