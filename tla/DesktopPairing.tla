--------------------------- MODULE DesktopPairing ---------------------------
(***************************************************************************)
(* Which interview a desktop companion serves.  The companion registers    *)
(* its six-digit code; a web page binds the code to a session; another     *)
(* bind, a takeover, an administrator or the idle reaper unbinds it; and   *)
(* the companion polls for the session it is bound to.                     *)
(*                                                                         *)
(* There is one code here, and the machines that registered it one after   *)
(* the other are its generations.  Rows live in Redis and each call of the *)
(* repository is a step of its own.  Whether a session captures, and its   *)
(* publishers, are left to Metering and FrameStream.                       *)
(***************************************************************************)
EXTENDS Integers, FiniteSets

CONSTANTS
  Sessions,
  Users,
  Callers,        \* threads that serve web pages, administrators and the reaper
  Desks,          \* threads that serve the companion's polls
  Serves,         \* bound: the calls each caller serves
  Pins,           \* sessions the companion may be pinned to, or Nil
  MaxGeneration,  \* bound on how many machines register the code
  Nil

ASSUME PairingAssumption ==
  /\ Nil \notin Sessions
  /\ Callers \cap Desks = {}
  /\ Serves \in [Callers -> SUBSET {"bind", "end", "register"}]
  /\ Pins \subseteq Sessions \cup {Nil}
  /\ MaxGeneration \in Nat \ {0}
  /\ Nil \notin [generation : 1 .. MaxGeneration, bound : BOOLEAN]

VARIABLES
  owner,       \* interview_sessions.owner_user_id
  status,      \* interview_sessions.status
  generation,  \* the code's device record: how many machines registered it ...
  fresh,       \* ... and whether its last heartbeat is recent enough
  binding,     \* the binding row of each session
  latest,      \* latest_binding_code: the session whose binding was saved last
  retired,     \* _retired_session_ids: their audio is dropped
  cache,       \* _control_query_cache, by pin
  thread       \* the call each thread is in

pairingVars == <<owner, status, generation, fresh, binding, latest, retired, cache, thread>>

rows == <<owner, status, generation, fresh, binding, latest, retired>>

-----------------------------------------------------------------------------
Idle == [op |-> "none", pc |-> "idle", session |-> Nil, generation |-> 0,
         stale |-> {}, lost |-> {}, current |-> FALSE, answer |-> Nil]

ThreadGoes(p, next) == thread' = [thread EXCEPT ![p] = next]

GoesOn(p, pc) == ThreadGoes(p, [thread[p] EXCEPT !.pc = pc])

Returns(p) == ThreadGoes(p, Idle)

ThreadAt(p, op, pc) == thread[p].op = op /\ thread[p].pc = pc

Alive(p) == thread[p] # Idle

Free(c, op) == ~Alive(c) /\ op \in Serves[c]

Bound(s) == binding[s] # Nil /\ binding[s].bound

Open(s) == status[s] \in {"preparing", "live"}

\* _binding_is_active
Active(s) == Bound(s) /\ binding[s].generation = generation /\ fresh /\ Open(s)

LiveElsewhere(s) == {x \in Sessions \ {s} : owner[x] = owner[s] /\ status[x] = "live"}

PairingInit ==
  /\ owner \in [Sessions -> Users]
  /\ status = [s \in Sessions |-> "preparing"]
  /\ generation = 1 /\ fresh = TRUE
  /\ binding = [s \in Sessions |-> Nil] /\ latest = Nil
  /\ retired = {} /\ cache = [pin \in Pins |-> Nil]
  /\ thread = [p \in Callers \cup Desks |-> Idle]

-----------------------------------------------------------------------------
(* bind_desktop_device                                                     *)

\* Mutant: the session stays among those whose audio is dropped.
BindRetired(c, s) ==
  /\ Free(c, "bind") /\ LiveElsewhere(s) = {}
  /\ ThreadGoes(c, [Idle EXCEPT !.op = "bind", !.pc = "check", !.session = s])
  /\ UNCHANGED <<rows, cache>>

\* Refused while another session of the user is live.
BindDesktopDevice(c, s) ==
  /\ Free(c, "bind") /\ LiveElsewhere(s) = {}
  /\ retired' = retired \ {s}
  /\ ThreadGoes(c, [Idle EXCEPT !.op = "bind", !.pc = "check", !.session = s])
  /\ UNCHANGED <<owner, status, generation, fresh, binding, latest, cache>>

OnThisMachine(s) == Bound(s) /\ binding[s].generation = generation

\* Refused when the companion is away or serves another live session; done
\* when it is bound to this one already.
CheckDevice(c) ==
  LET s == thread[c].session IN
  /\ ThreadAt(c, "bind", "check")
  /\ \/ /\ ~fresh \/ (\E x \in Sessions \ {s} : Active(x) /\ status[x] = "live") \/ Active(s)
        /\ Returns(c)
     \/ /\ fresh /\ (\A x \in Sessions \ {s} : ~(Active(x) /\ status[x] = "live")) /\ ~Active(s)
        /\ ThreadGoes(c, [thread[c] EXCEPT !.generation = generation, !.pc = "list"])
  /\ UNCHANGED <<rows, cache>>

Row(s) == [session |-> s, generation |-> binding[s].generation]

\* Mutant: only the user's own bindings go.
ListPreviousOfUser(c) ==
  LET s == thread[c].session
      previous == {x \in Sessions : Bound(x) /\ owner[x] = owner[s]} IN
  /\ ThreadAt(c, "bind", "list")
  /\ ThreadGoes(c, [thread[c] EXCEPT !.stale = {Row(x) : x \in previous \ {s}}, !.lost = previous \ {s},
                               !.current = s \in previous, !.pc = "stale"])
  /\ UNCHANGED <<rows, cache>>

\* The bindings of the user and of the machine that have to go.
ListPrevious(c) ==
  LET s == thread[c].session
      previous == {x \in Sessions : Bound(x) /\ (owner[x] = owner[s]
                                    \/ binding[x].generation = thread[c].generation)} IN
  /\ ThreadAt(c, "bind", "list")
  /\ ThreadGoes(c, [thread[c] EXCEPT !.stale = {Row(x) : x \in previous \ {s}}, !.lost = previous \ {s},
                               !.current = s \in previous, !.pc = "stale"])
  /\ UNCHANGED <<rows, cache>>

\* save_session_desktop_binding: the row, and the index by code.
Save(s, g, bound) ==
  /\ binding' = [binding EXCEPT ![s] = [generation |-> g, bound |-> bound]]
  /\ latest' = s

\* A binding goes stale as it was read: whatever was saved since is undone.
SaveStale(c) ==
  \E row \in thread[c].stale :
    /\ Save(row.session, row.generation, FALSE)
    /\ ThreadGoes(c, [thread[c] EXCEPT !.stale = @ \ {row}])
    /\ UNCHANGED <<owner, status, generation, fresh, retired, cache>>

\* _reset_realtime_session, for the sessions lost and for the one bound anew.
ResetRealtimeSession(c) ==
  /\ thread[c].pc = "stale" /\ thread[c].stale = {}
  /\ retired' = (retired \cup thread[c].lost)
                  \ (IF thread[c].current THEN {thread[c].session} ELSE {})
  /\ ThreadGoes(c, [thread[c] EXCEPT !.lost = {}, !.current = FALSE,
                               !.pc = IF thread[c].op = "bind" THEN "save" ELSE "invalidate"])
  /\ UNCHANGED <<owner, status, generation, fresh, binding, latest, cache>>

SaveSessionDesktopBinding(c) ==
  /\ ThreadAt(c, "bind", "save")
  /\ Save(thread[c].session, thread[c].generation, TRUE)
  /\ GoesOn(c, "invalidate")
  /\ UNCHANGED <<owner, status, generation, fresh, retired, cache>>

\* _invalidate_control_query_cache: the answers kept are dropped, and those
\* being computed will not be kept (the generation of the cache).
InvalidateControlQueryCache(c) ==
  /\ thread[c].pc = "invalidate"
  /\ cache' = [pin \in Pins |-> Nil]
  /\ thread' = [p \in Callers \cup Desks |->
                  IF p = c THEN Idle
                  ELSE IF p \in Desks THEN [thread[p] EXCEPT !.current = FALSE] ELSE thread[p]]
  /\ UNCHANGED rows

-----------------------------------------------------------------------------
(* terminate_session_for_admin, also called by the idle reaper; and        *)
(* supersede_active_interviews, when another session s of the user takes   *)
(* over: the row, the binding, the reset, the cache.                       *)

Ends(c, x) ==
  /\ status' = [status EXCEPT ![x] = "ended"]
  /\ ThreadGoes(c, [Idle EXCEPT !.op = "end", !.pc = "find", !.session = x, !.lost = {x}])
  /\ UNCHANGED <<owner, generation, fresh, binding, latest, retired, cache>>

TerminateSession(c, x) == Free(c, "end") /\ Ends(c, x)

SupersedeActiveInterviews(c, s) ==
  /\ Free(c, "bind")
  /\ \E x \in LiveElsewhere(s) : Ends(c, x)

FindBinding(c) ==
  LET x == thread[c].session IN
  /\ ThreadAt(c, "end", "find")
  /\ ThreadGoes(c, [thread[c] EXCEPT !.stale = IF Bound(x) THEN {Row(x)} ELSE {}, !.pc = "stale"])
  /\ UNCHANGED <<rows, cache>>

-----------------------------------------------------------------------------
(* The companion: register_desktop_device by another machine, its          *)
(* heartbeats, and get_desktop_pairing_status.                             *)

RegisterDesktopDevice(c) ==
  /\ Free(c, "register") /\ generation < MaxGeneration
  /\ generation' = generation + 1 /\ fresh' = TRUE
  /\ ThreadGoes(c, [Idle EXCEPT !.op = "register", !.pc = "invalidate"])
  /\ UNCHANGED <<owner, status, binding, latest, retired, cache>>

Heartbeat ==
  /\ ~fresh /\ fresh' = TRUE
  /\ UNCHANGED <<owner, status, generation, binding, latest, retired, cache, thread>>

Lapse ==
  /\ fresh /\ fresh' = FALSE
  /\ UNCHANGED <<owner, status, generation, binding, latest, retired, cache, thread>>

\* The companion asks, pinned to the session it serves, and no answer is kept
\* or it is older than a second.  The device is read: its generation, or 0
\* when it is away.
GetDesktopPairingStatus(d, pin) ==
  /\ ~Alive(d)
  /\ ThreadGoes(d, [Idle EXCEPT !.op = "poll", !.pc = "binding", !.session = pin, !.current = TRUE,
                          !.generation = IF fresh THEN generation ELSE 0])
  /\ UNCHANGED <<rows, cache>>

\* The pinned binding while it is active, or else the one saved last; and its
\* session: the companion is told of it and its status, or that it has none.
PollReadsBinding(d) ==
  LET pin == thread[d].session
      Serving(s) == s # Nil /\ Bound(s) /\ binding[s].generation = thread[d].generation /\ Open(s)
      s == IF Serving(pin) THEN pin ELSE latest IN
  /\ ThreadAt(d, "poll", "binding")
  /\ ThreadGoes(d, [thread[d] EXCEPT !.pc = "keep", !.generation = 0,
                !.answer = IF Serving(s) THEN [to |-> s, status |-> status[s]]
                                         ELSE [to |-> Nil, status |-> "none"]])
  /\ UNCHANGED <<rows, cache>>

\* Mutant: an answer is kept whatever happened meanwhile.
KeepAnswerAlways(d) ==
  /\ ThreadAt(d, "poll", "keep")
  /\ cache' = [cache EXCEPT ![thread[d].session] = thread[d].answer]
  /\ Returns(d)
  /\ UNCHANGED rows

KeepAnswer(d) ==
  /\ ThreadAt(d, "poll", "keep")
  /\ cache' = IF thread[d].current THEN [cache EXCEPT ![thread[d].session] = thread[d].answer]
                                   ELSE cache
  /\ Returns(d)
  /\ UNCHANGED rows

-----------------------------------------------------------------------------
\* start_live_session, once it is paid for; its last act is to invalidate.
StartLiveSession(s, c) ==
  /\ Free(c, "bind") /\ status[s] = "preparing" /\ LiveElsewhere(s) = {}
  /\ status' = [status EXCEPT ![s] = "live"]
  /\ ThreadGoes(c, [Idle EXCEPT !.op = "start", !.pc = "invalidate"])
  /\ UNCHANGED <<owner, generation, fresh, binding, latest, retired, cache>>

CallerStep(c) ==
  \/ CheckDevice(c) \/ ListPrevious(c) \/ SaveStale(c) \/ ResetRealtimeSession(c)
  \/ SaveSessionDesktopBinding(c) \/ InvalidateControlQueryCache(c) \/ FindBinding(c)

Request(c) ==
  \/ \E s \in Sessions : \/ BindDesktopDevice(c, s) \/ StartLiveSession(s, c)
                         \/ TerminateSession(c, s) \/ SupersedeActiveInterviews(c, s)
  \/ RegisterDesktopDevice(c)

DeskStep(d) ==
  \/ \E pin \in Pins : GetDesktopPairingStatus(d, pin)
  \/ PollReadsBinding(d) \/ KeepAnswer(d)

PairingNext ==
  \/ \E c \in Callers : Request(c) \/ CallerStep(c)
  \/ \E d \in Desks : DeskStep(d)
  \/ Heartbeat \/ Lapse

PairingSpec == PairingInit /\ [][PairingNext]_pairingVars

-----------------------------------------------------------------------------
Answers == [to : Sessions, status : {"preparing", "live"}] \cup {[to |-> Nil, status |-> "none"]}

PairingTypeOK ==
  /\ owner \in [Sessions -> Users]
  /\ status \in [Sessions -> {"preparing", "live", "ended"}]
  /\ generation \in 1 .. MaxGeneration /\ fresh \in BOOLEAN
  /\ \A s \in Sessions : binding[s] = Nil \/ binding[s] \in [generation : 1 .. MaxGeneration, bound : BOOLEAN]
  /\ latest # Nil => latest \in Sessions /\ binding[latest] # Nil
  /\ retired \subseteq Sessions
  /\ \A pin \in Pins : cache[pin] \in Answers \cup {Nil}

Quiet == \A c \in Callers : ~Alive(c)

(* One companion serves one interview: whoever binds, takes over, ends or  *)
(* registers, once the calls have returned at most one session has it, and *)
(* the audio of that session is not dropped.                               *)
OneActiveBinding ==
  Quiet => \A s, x \in Sessions : Active(s) /\ Active(x) => s = x

BoundIsHeard == Quiet => \A s \in Sessions : Active(s) => s \notin retired

(* No kept answer outlives the call that made it wrong: once the calls     *)
(* have returned, a companion that is told of a session, and its status,   *)
(* is still bound to it by its machine and the status is the one it has.   *)
KeptAnswerIsCurrent ==
  Quiet => \A pin \in Pins : cache[pin] # Nil /\ cache[pin].to # Nil =>
     /\ OnThisMachine(cache[pin].to)
     /\ status[cache[pin].to] = cache[pin].status

(* A binding that is active is the one a companion finds by its code.  The *)
(* code breaks this: a binding that goes stale late is saved last.         *)
ActiveBindingIsFound ==
  Quiet => \A s \in Sessions : Active(s) => latest = s
=============================================================================
