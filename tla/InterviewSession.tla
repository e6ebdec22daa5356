-------------------------- MODULE InterviewSession --------------------------
(***************************************************************************)
(* The interview sessions of one user.  A session is one row, read and     *)
(* written whole: every call of the session service reads the row          *)
(* (get_session) and most write the copy back later with their change, in  *)
(* another transaction and without a lock or a version.  Starting,         *)
(* deleting and changing the settings are conditional UPDATEs instead.     *)
(*                                                                         *)
(* Every transaction is one action, so a thread's copy can be out of date  *)
(* when it is written: endpoints, the recognizer's cold executor, answer   *)
(* and metering threads and the idle reaper all work on the same rows.     *)
(***************************************************************************)
EXTENDS Integers, FiniteSets

CONSTANTS
  Sessions,   \* session ids
  Languages,  \* what may be changed only before the start: languages, programming
  Entries,    \* ids of conversation context entries
  Usages,     \* ids of token usage records
  Threads,    \* threads calling the service
  Ops,        \* the calls they make
  None

ASSUME ConstantsAssumption ==
  /\ None \notin Sessions \cup Languages
  /\ Ops \subseteq {"view", "list", "confirm", "language", "start", "end", "delete",
                    "restart", "append", "note", "usage"}

VARIABLES
  row,      \* interview_sessions
  entries,  \* interview_session_context_entries: [id, session, ordering]
  records,  \* interview_session_usage_records: [id, session]
  thread,   \* the call each thread is in, with its copy of the row
  erased    \* history: the sessions that have been deleted at some time

vars == <<row, entries, records, thread, erased>>

-----------------------------------------------------------------------------
Absent == [status |-> "absent", deleted |-> FALSE, language |-> None,
           confirmed |-> FALSE, totals |-> {}]

Idle == [op |-> "none", pc |-> "idle", session |-> None, copy |-> Absent, known |-> {}]

\* What SELECT ... WHERE deleted_at_ms IS NULL finds.
Visible(s) == row[s].status # "absent" /\ ~row[s].deleted

Live(s) == Visible(s) /\ row[s].status = "live"

\* The partial unique index: one live session that is not deleted.
IndexAllows(s, new) ==
  new.status = "live" /\ ~new.deleted => \A other \in Sessions \ {s} : ~Live(other)

EntriesOf(s) == {e \in entries : e.session = s}

RecordsOf(s) == {u.id : u \in {r \in records : r.session = s}}

Goes(t, next) == thread' = [thread EXCEPT ![t] = next]

Returns(t) == Goes(t, Idle)

\* save_session: every column is overwritten and deleted_at_ms is cleared.  A
\* row that would be a second live one is refused, and the call fails.
Save(t, copy, next) ==
  \/ /\ IndexAllows(thread[t].session, copy)
     /\ row' = [row EXCEPT ![thread[t].session] = copy]
     /\ Goes(t, next)
  \/ /\ ~IndexAllows(thread[t].session, copy)
     /\ Returns(t)
     /\ UNCHANGED row

At(t, op, pc) == thread[t].op = op /\ thread[t].pc = pc

-----------------------------------------------------------------------------
Init ==
  /\ row = [s \in Sessions |-> Absent]
  /\ entries = {} /\ records = {}
  /\ thread = [t \in Threads |-> Idle]
  /\ erased = {}

NewRow(language) == [Absent EXCEPT !.status = "preparing", !.language = language]

Create(s, l) ==
  /\ row[s] = Absent
  /\ row' = [row EXCEPT ![s] = NewRow(l)]
  /\ UNCHANGED <<entries, records, thread, erased>>

(***************************************************************************)
(* get_session, with which every call begins.  When a document bound to    *)
(* the session has changed, the copy is brought up to date and the whole   *)
(* row is saved, twice (once by _refresh_bound_document_activity, which is *)
(* all that list_sessions does, for each session it lists).                *)
(***************************************************************************)
\* Where a call goes on with the row it has read, or first saves the refreshed copy.
Refreshed(s, pc, saving) == {pc} \cup IF row[s].confirmed THEN {saving} ELSE {}

Get(t, s, op) ==
  /\ thread[t] = Idle /\ Visible(s)
  /\ \E pc \in Refreshed(s, "got", IF op = "list" THEN "refreshAgain" ELSE "refresh") :
       Goes(t, [op |-> op, pc |-> pc, session |-> s, copy |-> row[s], known |-> {}])
  /\ UNCHANGED <<row, entries, records, erased>>

Refresh(t) ==
  /\ thread[t].pc = "refresh"
  /\ Save(t, thread[t].copy, [thread[t] EXCEPT !.pc = "refreshAgain"])
  /\ UNCHANGED <<entries, records, erased>>

RefreshAgain(t) ==
  /\ thread[t].pc = "refreshAgain"
  /\ Save(t, thread[t].copy, [thread[t] EXCEPT !.pc = "got"])
  /\ UNCHANGED <<entries, records, erased>>

\* The early returns and the errors of a call, and calls that only read.
Return(t) ==
  /\ thread[t].pc = "got"
  /\ \/ thread[t].op \in {"view", "list"}
     \/ thread[t].op \in {"confirm", "reconfirm", "start", "end", "append", "note"}
          /\ thread[t].copy.status = "ended"
     \/ thread[t].op = "language" /\ thread[t].copy.status # "preparing"
  /\ Returns(t)
  /\ UNCHANGED <<row, entries, records, erased>>

\* The thread's process dies, or its call fails: its copy is gone.
Die(t) ==
  /\ thread[t] # Idle
  /\ Returns(t)
  /\ UNCHANGED <<row, entries, records, erased>>

(***************************************************************************)
(* Preparation: confirm_materials saves the copy it was given;             *)
(* update_interview_language and update_interview_programming are          *)
(* conditional UPDATEs.                                                    *)
(***************************************************************************)
ConfirmMaterials(t) ==
  LET updated == [thread[t].copy EXCEPT !.confirmed = TRUE] IN
  /\ thread[t].op \in {"confirm", "reconfirm"} /\ thread[t].pc = "got"
  /\ thread[t].copy.status # "ended"
  /\ Save(t, updated, IF thread[t].op = "confirm" THEN Idle
                      ELSE [thread[t] EXCEPT !.op = "seed", !.copy = updated])
  /\ UNCHANGED <<entries, records, erased>>

\* Mutant: the UPDATE has no condition on the status.
UpdateSettingsAlways(t, l) ==
  /\ At(t, "language", "got") /\ thread[t].copy.status = "preparing"
  /\ row' = [row EXCEPT ![thread[t].session].language = l]
  /\ Returns(t)
  /\ UNCHANGED <<entries, records, erased>>

UpdateSettings(t, l) ==
  LET s == thread[t].session IN
  /\ At(t, "language", "got") /\ thread[t].copy.status = "preparing"
  /\ row' = IF Visible(s) /\ row[s].status = "preparing"
              THEN [row EXCEPT ![s].language = l] ELSE row
  /\ Returns(t)
  /\ UNCHANGED <<entries, records, erased>>

(***************************************************************************)
(* start_session: the user's live sessions are listed (and refreshed), and *)
(* another one is a conflict; then one conditional UPDATE, which the       *)
(* unique index may still refuse.                                          *)
(***************************************************************************)
CheckConflicts(t) ==
  /\ At(t, "start", "got") /\ thread[t].copy.status # "ended"
  /\ \/ /\ \A s \in Sessions : ~Live(s)
        /\ Goes(t, [thread[t] EXCEPT !.pc = "listed"])
     \/ \E s \in Sessions, op \in {"start", "list"} :
          /\ Live(s) /\ (op = "start") = (s = thread[t].session)
          /\ \E pc \in Refreshed(s, IF op = "start" THEN "listed" ELSE "got",
                                    IF op = "start" THEN "refreshListed" ELSE "refreshAgain") :
               Goes(t, [op |-> op, pc |-> pc, session |-> s, copy |-> row[s], known |-> {}])
  /\ UNCHANGED <<row, entries, records, erased>>

RefreshListed(t) ==
  /\ thread[t].pc = "refreshListed"
  /\ Save(t, thread[t].copy, [thread[t] EXCEPT !.pc = "listed"])
  /\ UNCHANGED <<entries, records, erased>>

\* Mutant: a session that ended while its start was on the way goes live.
StartAnyway(t) ==
  LET s == thread[t].session IN
  /\ At(t, "start", "listed")
  /\ row' = IF Visible(s) /\ IndexAllows(s, [row[s] EXCEPT !.status = "live"])
              THEN [row EXCEPT ![s].status = "live"] ELSE row
  /\ Returns(t)
  /\ UNCHANGED <<entries, records, erased>>

\* Mutant: the list of conflicts is all there is against two live sessions.
StartUnindexed(t) ==
  LET s == thread[t].session IN
  /\ At(t, "start", "listed")
  /\ row' = IF Visible(s) /\ row[s].status # "ended"
              THEN [row EXCEPT ![s].status = "live"] ELSE row
  /\ Returns(t)
  /\ UNCHANGED <<entries, records, erased>>

StartIfNotEnded(t) ==
  LET s == thread[t].session
      started == [row[s] EXCEPT !.status = "live"] IN
  /\ At(t, "start", "listed")
  /\ row' = IF Visible(s) /\ row[s].status # "ended" /\ IndexAllows(s, started)
              THEN [row EXCEPT ![s] = started] ELSE row
  /\ Returns(t)
  /\ UNCHANGED <<entries, records, erased>>

\* end_session, for the user, a takeover by another session, an administrator
\* and the idle reaper.
EndSession(t) ==
  /\ At(t, "end", "got") /\ thread[t].copy.status # "ended"
  /\ Save(t, [thread[t].copy EXCEPT !.status = "ended"], Idle)
  /\ UNCHANGED <<entries, records, erased>>

\* Migration 0016, which every process runs when it first opens the repository:
\* a live session that has long been idle is ended there and then.
EndIdleAtStartup(s) ==
  /\ Live(s)
  /\ row' = [row EXCEPT ![s].status = "ended"]
  /\ UNCHANGED <<entries, records, thread, erased>>

\* One transaction: the row is marked, what belongs to the session is removed.
DeleteSession(t) ==
  LET s == thread[t].session IN
  /\ At(t, "delete", "got")
  /\ \/ /\ ~row[s].deleted
        /\ row' = [row EXCEPT ![s] = [@ EXCEPT !.deleted = TRUE, !.status = "ended"]]
        /\ entries' = entries \ EntriesOf(s)
        /\ records' = {u \in records : u.session # s}
        /\ erased' = erased \cup {s}
     \/ row[s].deleted /\ UNCHANGED <<row, entries, records, erased>>
  /\ Returns(t)

(***************************************************************************)
(* restart_session: a new session with the old one's settings; its         *)
(* materials are confirmed by a call of their own, if the old one's were;  *)
(* then the new row is saved once more with the old configuration.         *)
(***************************************************************************)
Restart(t, n) ==
  LET new == NewRow(thread[t].copy.language) IN
  /\ At(t, "restart", "got") /\ row[n] = Absent
  /\ row' = [row EXCEPT ![n] = new]
  /\ Goes(t, IF thread[t].copy.confirmed
               THEN [Idle EXCEPT !.op = "reconfirm", !.pc = "again", !.session = n]
               ELSE [Idle EXCEPT !.op = "seed", !.pc = "got", !.session = n, !.copy = new])
  /\ UNCHANGED <<entries, records, erased>>

GetAgain(t) ==
  LET s == thread[t].session IN
  /\ At(t, "reconfirm", "again") /\ Visible(s)
  /\ \E pc \in Refreshed(s, "got", "refresh") :
       Goes(t, [thread[t] EXCEPT !.pc = pc, !.copy = row[s]])
  /\ UNCHANGED <<row, entries, records, erased>>

SeedConfig(t) ==
  /\ At(t, "seed", "got")
  /\ Save(t, thread[t].copy, Idle)
  /\ UNCHANGED <<entries, records, erased>>

(***************************************************************************)
(* append_context: the entries are counted, the next one is inserted, the  *)
(* copy is saved for its activity time.  A caller that has already touched *)
(* the activity hands over its copy and saves nothing: op "note".          *)
(***************************************************************************)
ListEntries(t) ==
  /\ thread[t].op \in {"append", "note"} /\ thread[t].pc = "got"
  /\ thread[t].copy.status # "ended"
  /\ Goes(t, [thread[t] EXCEPT !.pc = "counted", !.known = EntriesOf(thread[t].session)])
  /\ UNCHANGED <<row, entries, records, erased>>

\* Mutant: only the window of one entry that prompts are built from is counted.
OrderingInWindow(t) == IF thread[t].known = {} THEN 1 ELSE 2

NextOrdering(t) == Cardinality(thread[t].known) + 1

AppendEntry(t, e) ==
  /\ thread[t].pc = "counted" /\ e \notin {x.id : x \in entries}
  /\ entries' = entries \cup
       {[id |-> e, session |-> thread[t].session, ordering |-> NextOrdering(t)]}
  /\ Goes(t, IF thread[t].op = "append" THEN [thread[t] EXCEPT !.pc = "save", !.known = {}]
             ELSE Idle)
  /\ UNCHANGED <<row, records, erased>>

\* record_usage: the record is inserted, the totals are summed up over all
\* records, the copy is saved with them.  An ended session takes records too.
RecordUsage(t, u) ==
  /\ At(t, "usage", "got") /\ u \notin {x.id : x \in records}
  /\ records' = records \cup {[id |-> u, session |-> thread[t].session]}
  /\ Goes(t, [thread[t] EXCEPT !.pc = "recorded"])
  /\ UNCHANGED <<row, entries, erased>>

SumUsage(t) ==
  /\ At(t, "usage", "recorded")
  /\ Goes(t, [thread[t] EXCEPT !.pc = "save",
                               !.copy.totals = RecordsOf(thread[t].session)])
  /\ UNCHANGED <<row, entries, records, erased>>

SaveCopy(t) ==
  /\ thread[t].pc = "save"
  /\ Save(t, thread[t].copy, Idle)
  /\ UNCHANGED <<entries, records, erased>>

-----------------------------------------------------------------------------
Step(t) ==
  \/ Refresh(t) \/ RefreshAgain(t) \/ Return(t)
  \/ ConfirmMaterials(t) \/ \E l \in Languages : UpdateSettings(t, l)
  \/ CheckConflicts(t) \/ RefreshListed(t) \/ StartIfNotEnded(t)
  \/ EndSession(t) \/ DeleteSession(t)
  \/ (\E n \in Sessions : Restart(t, n)) \/ GetAgain(t) \/ SeedConfig(t)
  \/ ListEntries(t) \/ \E e \in Entries : AppendEntry(t, e)
  \/ (\E u \in Usages : RecordUsage(t, u)) \/ SumUsage(t) \/ SaveCopy(t)

Next ==
  \/ \E s \in Sessions : (\E l \in Languages : Create(s, l)) \/ EndIdleAtStartup(s)
  \/ \E t \in Threads :
       \/ \E s \in Sessions, op \in Ops : Get(t, s, op)
       \/ Step(t)
       \/ Die(t)

Spec == Init /\ [][Next]_vars

-----------------------------------------------------------------------------
Rows == [status : {"preparing", "live", "ended"}, deleted : BOOLEAN,
         language : Languages, confirmed : BOOLEAN, totals : SUBSET Usages]
        \cup {Absent}

EntryRows == [id : Entries, session : Sessions, ordering : Nat \ {0}]

EntryTables == {table \in SUBSET EntryRows : IsFiniteSet(table)}

Calls ==
  [op : Ops \cup {"list", "reconfirm", "seed"},
   pc : {"refresh", "refreshAgain", "refreshListed", "got", "listed", "again",
         "counted", "recorded", "save"},
   session : Sessions, copy : Rows, known : EntryTables] \cup {Idle}

(* Every variable has the shape of its table or call.  A row that is       *)
(* deleted is ended, and a thread works on a session that exists, with a   *)
(* copy that was not deleted.                                              *)
TypeOK ==
  /\ row \in [Sessions -> Rows]
  /\ entries \in EntryTables
  /\ records \subseteq [id : Usages, session : Sessions]
  /\ thread \in [Threads -> Calls]
  /\ erased \subseteq Sessions
  /\ \A s \in Sessions : row[s].deleted => row[s].status = "ended"
  /\ \A t \in Threads :
       thread[t] # Idle =>
         /\ row[thread[t].session] # Absent
         /\ thread[t].pc # "again" => thread[t].copy # Absent /\ ~thread[t].copy.deleted

(* A user has at most one live session, whatever starts, takeovers and     *)
(* saves of old copies meet.                                               *)
OneLive == \A s, r \in Sessions : Live(s) /\ Live(r) => s = r

\* Thread t will write its copy over session s, unless it fails.
Holds(t, s) ==
  /\ thread[t].session = s
  /\ \/ thread[t].pc \in {"refresh", "refreshAgain", "refreshListed", "save"}
     \/ /\ thread[t].op \in {"confirm", "reconfirm", "seed", "end", "append", "usage"}
        /\ thread[t].pc # "again"

\* The status it will write.
Writes(t) == IF At(t, "end", "got") THEN "ended" ELSE thread[t].copy.status

\* A session that has ended, and of which no thread holds an older copy.
QuietlyEnded(s) ==
  /\ row[s].status = "ended"
  /\ \A t \in Threads : Holds(t, s) => Writes(t) = "ended"

(* Once a session has ended and the copies read before that are written or *)
(* dropped, it is ended for good: no call brings it back, not even a start *)
(* that found it live or preparing before it ended, and no new thread can  *)
(* come to hold an older copy.                                             *)
QuietEndIsFinal ==
  [][\A s \in Sessions : QuietlyEnded(s) => QuietlyEnded(s)']_vars

Stage(status) == CASE status = "preparing" -> 1 [] status = "live" -> 2 [] OTHER -> 3

\* No thread holds a copy that is behind the session or has other settings.
Agreed(s) ==
  /\ Visible(s)
  /\ \A t \in Threads : Holds(t, s) =>
       Stage(Writes(t)) >= Stage(row[s].status) /\ thread[t].copy.language = row[s].language

(* Only a copy that is behind can undo anything: otherwise a session goes  *)
(* from preparing to live to ended and never back, and its settings are    *)
(* locked from its start on, also against a change that was on the way.    *)
LifeGoesForward ==
  [][\A s \in Sessions : Agreed(s) =>
       /\ Stage(row'[s].status) >= Stage(row[s].status)
       /\ row[s].status # "preparing" => row'[s].language = row[s].language]_vars

(* The transcript is never against the order of events: an entry about to  *)
(* be appended is numbered after every entry that was there when its call  *)
(* counted them.  (Of a deleted session, nothing is promised: the count    *)
(* starts again below an append that was on the way.)                      *)
ContextInOrder ==
  \A t \in Threads :
    thread[t].pc = "counted" /\ thread[t].session \notin erased =>
      \A e \in thread[t].known : e.ordering < NextOrdering(t)

-----------------------------------------------------------------------------
(* What the specifications of the repository ask for without conditions.   *)

(* An ended session is ended and is not treated as live again.             *)
EndedIsFinal ==
  [][\A s \in Sessions : row[s].status = "ended" => row'[s].status = "ended"]_vars

(* A deleted session is gone with its conversation: it does not come back, *)
(* and nothing more is kept for it.                                        *)
DeletedIsGone ==
  [][\A s \in Sessions : row[s].deleted =>
       row'[s].deleted /\ EntriesOf(s)' \subseteq EntriesOf(s)]_vars

(* The totals of a session never lose a record that they have counted.     *)
TotalsOnlyGrow ==
  [][\A s \in Sessions : Visible(s) => row[s].totals \subseteq row'[s].totals]_vars
=============================================================================
