----------------------- MODULE InterviewSessionProofs -----------------------
(***************************************************************************)
(* Theorems about InterviewSession, for any sessions, threads and calls.   *)
(***************************************************************************)
EXTENDS InterviewSession, FiniteSetTheorems, TLAPS

-----------------------------------------------------------------------------
(* Types                                                                   *)

ThreadIsSound(t) ==
  thread[t] # Idle =>
    /\ row[thread[t].session] # Absent
    /\ thread[t].pc # "again" => thread[t].copy # Absent /\ ~thread[t].copy.deleted

(* A row that a call may write: it exists and is not deleted.              *)
Fresh == {r \in Rows : r # Absent /\ ~r.deleted}

(* What a copy becomes in a call is again a row that may be written.       *)
LEMMA CopiesStayRows ==
  ASSUME NEW c \in Fresh
  PROVE  /\ [c EXCEPT !.confirmed = TRUE] \in Fresh
         /\ [c EXCEPT !.status = "ended"] \in Fresh
         /\ [c EXCEPT !.status = "live"] \in Fresh
         /\ \A l \in Languages : [c EXCEPT !.language = l] \in Fresh
         /\ \A u \in SUBSET Usages : [c EXCEPT !.totals = u] \in Fresh
  BY DEF Fresh, Rows, Absent

(* A session begins with a row that may be written.                        *)
LEMMA NewRowsAreFresh ==
  ASSUME NEW l \in Languages
  PROVE  NewRow(l) \in Fresh
  BY DEF Fresh, Rows, Absent, NewRow

(* A thread at work has a row of its own to write.                         *)
LEMMA CopyIsFresh ==
  ASSUME TypeOK, NEW t \in Threads, thread[t] # Idle, thread[t].pc # "again"
  PROVE  thread[t].copy \in Fresh /\ thread[t].session \in Sessions
  BY DEF TypeOK, Calls, Fresh, Idle

RowsOK ==
  /\ row \in [Sessions -> Rows]
  /\ \A s \in Sessions : row[s].deleted => row[s].status = "ended"

TablesOK ==
  /\ entries \in EntryTables
  /\ records \subseteq [id : Usages, session : Sessions]
  /\ erased \subseteq Sessions

ThreadsOK == thread \in [Threads -> Calls] /\ \A t \in Threads : ThreadIsSound(t)

\* No row goes away.
RowsStay == \A s \in Sessions : row[s] # Absent => row'[s] # Absent

(* TypeOK is a fact about rows, one about tables and one about threads.    *)
LEMMA TypeHasParts == TypeOK <=> RowsOK /\ TablesOK /\ ThreadsOK
  BY DEF TypeOK, RowsOK, TablesOK, ThreadsOK, ThreadIsSound

(* The same of the state after a step.                                     *)
LEMMA TypeHasPartsNext == RowsOK' /\ TablesOK' /\ ThreadsOK' => TypeOK'
  BY DEF TypeOK, RowsOK, TablesOK, ThreadsOK, ThreadIsSound

\* A call that may be made next: over, or at work on a session that exists.
Sound(next) ==
  /\ next \in Calls
  /\ next # Idle => /\ row'[next.session] # Absent
                    /\ next.pc # "again" => next.copy \in Fresh

(* Threads stay sound when no row goes away and one of them goes on to a   *)
(* sound call.                                                             *)
LEMMA ThreadsStayOK ==
  ASSUME ThreadsOK, RowsStay, NEW t \in Threads, NEW next, Sound(next), Goes(t, next)
  PROVE  ThreadsOK'
<1>1. thread' \in [Threads -> Calls]
  BY DEF ThreadsOK, Goes, Sound
<1>2. ASSUME NEW r \in Threads  PROVE ThreadIsSound(r)'
  <2>1. CASE r = t
    <3>1. thread'[r] = next
      BY <2>1 DEF Goes, ThreadsOK
    <3>2. QED
      BY <3>1 DEF Sound, ThreadIsSound, Fresh
  <2>2. CASE r # t
    <3>1. thread'[r] = thread[r] /\ thread[r] \in Calls
      BY <2>2 DEF Goes, ThreadsOK
    <3>2. thread[r] # Idle => thread[r].session \in Sessions
      BY <3>1 DEF Calls
    <3>3. QED
      BY <3>1, <3>2 DEF ThreadsOK, ThreadIsSound, RowsStay
  <2>3. QED
    BY <2>1, <2>2
<1>3. QED
  BY <1>1, <1>2 DEF ThreadsOK

\* A thread that gives up is sound whatever happens to the rows.
LEMMA IdleIsSound == Sound(Idle)
  BY DEF Sound, Calls

(* Writing a row that may be written keeps the rows as they should be.     *)
LEMMA RowsStayOK ==
  ASSUME RowsOK, NEW s \in Sessions, NEW new \in Fresh, row' = [row EXCEPT ![s] = new]
  PROVE  RowsOK' /\ RowsStay
  BY DEF RowsOK, RowsStay, Fresh

\* What save_session does to rows and threads.
LEMMA SaveKeepsTypes ==
  ASSUME TypeOK, NEW t \in Threads, thread[t] # Idle, thread[t].pc # "again",
         NEW copy \in Fresh, NEW next \in Calls, Save(t, copy, next),
         next # Idle => /\ next.session = thread[t].session
                        /\ next.copy \in Fresh
  PROVE  RowsOK' /\ ThreadsOK'
<1>1. RowsOK /\ ThreadsOK
  BY TypeHasParts
<1>2. thread[t].session \in Sessions /\ row[thread[t].session] # Absent
  BY CopyIsFresh DEF TypeOK
<1>3. CASE row' = [row EXCEPT ![thread[t].session] = copy] /\ Goes(t, next)
  <2>1. RowsOK' /\ RowsStay
    BY <1>1, <1>2, <1>3, RowsStayOK
  <2>2. Sound(next)
    BY <1>2, <2>1 DEF Sound, RowsStay
  <2>3. QED
    BY <1>1, <1>3, <2>1, <2>2, ThreadsStayOK
<1>4. CASE row' = row /\ Goes(t, Idle)
  <2>1. RowsOK' /\ RowsStay
    BY <1>1, <1>4 DEF RowsOK, RowsStay
  <2>2. QED
    BY <1>1, <1>4, <2>1, IdleIsSound, ThreadsStayOK
<1>5. QED
  BY <1>3, <1>4 DEF Save, Returns

\* A step of one thread that leaves the rows alone.
LEMMA GoingOnKeepsTypes ==
  ASSUME TypeOK, row' = row, NEW t \in Threads, NEW next \in Calls, Goes(t, next),
         next # Idle => /\ row[next.session] # Absent
                        /\ next.pc # "again" => next.copy \in Fresh
  PROVE  RowsOK' /\ ThreadsOK'
<1>1. RowsOK /\ ThreadsOK
  BY TypeHasParts
<1>2. RowsOK' /\ RowsStay /\ Sound(next)
  BY <1>1 DEF RowsOK, RowsStay, Sound
<1>3. QED
  BY <1>1, <1>2, ThreadsStayOK

\* A step that writes one row and ends the call.
LEMMA UpdateKeepsTypes ==
  ASSUME TypeOK, NEW t \in Threads, Returns(t), NEW s \in Sessions, NEW new \in Fresh,
         row' = row \/ row' = [row EXCEPT ![s] = new]
  PROVE  RowsOK' /\ ThreadsOK'
<1>1. RowsOK /\ ThreadsOK
  BY TypeHasParts
<1>2. RowsOK' /\ RowsStay
  <2>1. CASE row' = row
    BY <1>1, <2>1 DEF RowsOK, RowsStay
  <2>2. CASE row' = [row EXCEPT ![s] = new]
    BY <1>1, <2>2, RowsStayOK
  <2>3. QED
    BY <2>1, <2>2
<1>3. QED
  BY <1>1, <1>2, IdleIsSound, ThreadsStayOK DEF Returns

(* A row that the reads find may be written.                               *)
LEMMA VisibleIsFresh ==
  ASSUME RowsOK, NEW s \in Sessions, Visible(s)
  PROVE  row[s] \in Fresh
  BY DEF RowsOK, Visible, Fresh, Rows, Absent

Working ==
  [op : Ops \cup {"list", "reconfirm", "seed"},
   pc : {"refresh", "refreshAgain", "refreshListed", "got", "listed", "again",
         "counted", "recorded", "save"},
   session : Sessions, copy : Rows, known : EntryTables]

(* A thread that is not idle works on a session that exists, with a copy   *)
(* that may be written once it has read one.                               *)
LEMMA AtWork ==
  ASSUME TypeOK, NEW t \in Threads, thread[t].pc # "idle"
  PROVE  /\ thread[t] # Idle /\ thread[t] \in Working
         /\ row[thread[t].session] # Absent
         /\ thread[t].pc # "again" => thread[t].copy \in Fresh
<1>1. thread[t] # Idle
  BY DEF Idle
<1>2. thread[t] \in Working
  BY <1>1 DEF TypeOK, Calls, Working
<1>3. thread[t].pc # "again" => thread[t].copy \in Fresh
  BY <1>1, CopyIsFresh
<1>4. QED
  BY <1>1, <1>2, <1>3 DEF TypeOK

(* No entries are a table of entries.                                      *)
LEMMA EmptyIsATable == {} \in EntryTables
  BY FS_EmptySet DEF EntryTables

\* A call that goes on at another place of its code, with another copy.
LEMMA WorkGoesOn ==
  ASSUME NEW w \in Working, NEW copy \in Rows,
         NEW pc \in {"refreshAgain", "got", "listed", "counted", "recorded", "save"}
  PROVE  /\ [w EXCEPT !.pc = pc] \in Working
         /\ [w EXCEPT !.op = "seed", !.copy = copy] \in Working
         /\ [w EXCEPT !.pc = pc, !.known = {}] \in Working
         /\ \A known \in EntryTables : [w EXCEPT !.pc = pc, !.known = known] \in Working
  BY EmptyIsATable DEF Working

(* A call is over or at work.                                              *)
LEMMA CallsAreWorking == Working \subseteq Calls /\ Idle \in Calls
  BY DEF Working, Calls

(* A call that goes on with the row it has just read is sound.             *)
LEMMA ReadingKeepsTypes ==
  ASSUME TypeOK, NEW t \in Threads, NEW s \in Sessions, Visible(s), row' = row,
         NEW op \in Ops \cup {"list", "reconfirm", "seed"},
         NEW pc \in {"refresh", "refreshAgain", "refreshListed", "got", "listed"},
         Goes(t, [op |-> op, pc |-> pc, session |-> s, copy |-> row[s], known |-> {}])
  PROVE  RowsOK' /\ ThreadsOK'
<1> DEFINE next == [op |-> op, pc |-> pc, session |-> s, copy |-> row[s], known |-> {}]
<1>1. row[s] \in Fresh
  BY TypeHasParts, VisibleIsFresh
<1>2. next \in Working
  BY <1>1, EmptyIsATable DEF Working, Fresh
<1>3. row[next.session] # Absent /\ next.copy \in Fresh /\ Goes(t, next)
  BY <1>1 DEF Fresh
<1> HIDE DEF next
<1>4. QED
  BY <1>2, <1>3, GoingOnKeepsTypes, CallsAreWorking

(* The calls that save their copy keep rows and threads as they should be. *)
LEMMA SavingKeepsTypes ==
  ASSUME TypeOK, NEW t \in Threads,
         Refresh(t) \/ RefreshAgain(t) \/ RefreshListed(t) \/ SeedConfig(t) \/ SaveCopy(t)
           \/ ConfirmMaterials(t) \/ EndSession(t)
  PROVE  RowsOK' /\ ThreadsOK'
<1> DEFINE w == thread[t]
<1>1. /\ w.pc \in {"refresh", "refreshAgain", "refreshListed", "save", "got"}
      /\ w # Idle /\ w.pc # "again" /\ w \in Working /\ w.copy \in Fresh
  BY AtWork DEF Refresh, RefreshAgain, RefreshListed, SeedConfig, SaveCopy, ConfirmMaterials,
                EndSession, At
<1>2. ASSUME NEW pc \in {"refreshAgain", "got", "listed"}, Save(t, w.copy, [w EXCEPT !.pc = pc])
      PROVE  RowsOK' /\ ThreadsOK'
  <2>1. [w EXCEPT !.pc = pc] \in Calls
    BY <1>1, WorkGoesOn, CallsAreWorking DEF Fresh
  <2>2. [w EXCEPT !.pc = pc].session = w.session /\ [w EXCEPT !.pc = pc].copy = w.copy
    BY <1>1 DEF Working
  <2>3. QED
    BY <1>1, <1>2, <2>1, <2>2, SaveKeepsTypes
<1>3. ASSUME NEW copy \in Fresh, Save(t, copy, Idle)  PROVE RowsOK' /\ ThreadsOK'
  BY <1>1, <1>3, SaveKeepsTypes, CallsAreWorking
<1>4. CASE Refresh(t) \/ RefreshAgain(t) \/ RefreshListed(t)
  BY <1>2, <1>4 DEF Refresh, RefreshAgain, RefreshListed
<1>5. CASE SeedConfig(t) \/ SaveCopy(t)
  BY <1>1, <1>3, <1>5 DEF SeedConfig, SaveCopy
<1>6. CASE EndSession(t)
  BY <1>1, <1>3, <1>6, CopiesStayRows DEF EndSession
<1>7. CASE ConfirmMaterials(t)
  <2> DEFINE updated == [w.copy EXCEPT !.confirmed = TRUE]
             next == IF w.op = "confirm" THEN Idle
                     ELSE [w EXCEPT !.op = "seed", !.copy = updated]
  <2>1. updated \in Fresh
    BY <1>1, CopiesStayRows
  <2> HIDE DEF updated
  <2>2. next \in Calls
    BY <1>1, <2>1, WorkGoesOn, CallsAreWorking DEF Fresh
  <2>3. next # Idle => next.session = w.session /\ next.copy = updated
    BY <1>1 DEF Working
  <2>4. Save(t, updated, next)
    BY <1>7 DEF ConfirmMaterials, updated
  <2> HIDE DEF next
  <2>5. QED
    BY <1>1, <2>1, <2>2, <2>3, <2>4, SaveKeepsTypes
<1>8. QED
  BY <1>4, <1>5, <1>6, <1>7

(* So do the conditional UPDATEs.                                          *)
LEMMA UpdatingKeepsTypes ==
  ASSUME TypeOK, NEW t \in Threads,
         (\E l \in Languages : UpdateSettings(t, l)) \/ StartIfNotEnded(t)
  PROVE  RowsOK' /\ ThreadsOK'
<1> DEFINE s == thread[t].session
<1>1. s \in Sessions
  BY AtWork DEF UpdateSettings, StartIfNotEnded, At, Working
<1>2. CASE ~Visible(s)
  <2>1. row' = row /\ Returns(t)
    BY <1>2 DEF UpdateSettings, StartIfNotEnded
  <2>2. QED
    BY <2>1, GoingOnKeepsTypes, CallsAreWorking DEF Returns
<1>3. CASE Visible(s)
  <2>1. row[s] \in Fresh
    BY <1>1, <1>3, TypeHasParts, VisibleIsFresh
  <2>2. ASSUME NEW l \in Languages, UpdateSettings(t, l)
        PROVE  RowsOK' /\ ThreadsOK'
    <3>1. [row[s] EXCEPT !.language = l] \in Fresh
      BY <2>1, CopiesStayRows
    <3>2. row' = row \/ row' = [row EXCEPT ![s] = [row[s] EXCEPT !.language = l]]
      BY <2>2 DEF UpdateSettings
    <3>3. QED
      BY <1>1, <2>2, <3>1, <3>2, UpdateKeepsTypes DEF UpdateSettings
  <2>3. ASSUME StartIfNotEnded(t)
        PROVE  RowsOK' /\ ThreadsOK'
    <3>1. [row[s] EXCEPT !.status = "live"] \in Fresh
      BY <2>1, CopiesStayRows
    <3>2. row' = row \/ row' = [row EXCEPT ![s] = [row[s] EXCEPT !.status = "live"]]
      BY <2>3 DEF StartIfNotEnded
    <3>3. QED
      BY <1>1, <2>3, <3>1, <3>2, UpdateKeepsTypes DEF StartIfNotEnded
  <2>4. QED
    BY <2>2, <2>3
<1>4. QED
  BY <1>2, <1>3

(* A session can be created where there is none, and no row goes away.     *)
LEMMA CreatingKeepsTypes ==
  ASSUME TypeOK, NEW n \in Sessions, row[n] = Absent, NEW l \in Languages,
         row' = [row EXCEPT ![n] = NewRow(l)]
  PROVE  RowsOK' /\ RowsStay /\ row'[n] # Absent
  BY TypeHasParts, NewRowsAreFresh, RowsStayOK DEF RowsOK, Fresh

(* Deleting a session leaves its row, ended, and no entry or record of it. *)
LEMMA DeletingKeepsTypes ==
  ASSUME TypeOK, NEW t \in Threads, DeleteSession(t)
  PROVE  TypeOK'
<1> DEFINE s == thread[t].session
<1>1. s \in Sessions /\ row[s] # Absent
  BY AtWork DEF DeleteSession, At, Working
<1>2. RowsOK /\ TablesOK /\ ThreadsOK
  BY TypeHasParts
<1>3. TablesOK'
  <2>1. entries' \in EntryTables
    BY <1>2, FS_Subset DEF DeleteSession, TablesOK, EntryTables
  <2>2. QED
    BY <1>1, <1>2, <2>1 DEF DeleteSession, TablesOK
<1>4. RowsOK' /\ RowsStay
  <2>1. CASE row' = row
    BY <1>2, <2>1 DEF RowsOK, RowsStay
  <2>2. CASE row' = [row EXCEPT ![s] = [row[s] EXCEPT !.deleted = TRUE, !.status = "ended"]]
    <3> DEFINE new == [row[s] EXCEPT !.deleted = TRUE, !.status = "ended"]
    <3>1. row[s] \in Rows \ {Absent}
      BY <1>1, <1>2 DEF RowsOK
    <3>2. new \in Rows /\ new # Absent /\ new.status = "ended"
      BY <3>1 DEF Rows, Absent
    <3> HIDE DEF new
    <3>3. row' = [row EXCEPT ![s] = new]
      BY <2>2 DEF new
    <3>4. QED
      BY <1>2, <3>2, <3>3 DEF RowsOK, RowsStay
  <2>3. QED
    BY <2>1, <2>2 DEF DeleteSession
<1>5. ThreadsOK'
  BY <1>2, <1>4, IdleIsSound, ThreadsStayOK DEF DeleteSession, Returns
<1>6. QED
  BY <1>3, <1>4, <1>5, TypeHasPartsNext

(* A restart leaves a new row and a call that is to prepare it.            *)
LEMMA RestartingKeepsTypes ==
  ASSUME TypeOK, NEW t \in Threads, NEW n \in Sessions, Restart(t, n)
  PROVE  RowsOK' /\ ThreadsOK'
<1>1. thread[t].copy \in Fresh
  BY AtWork DEF Restart, At
<1>2. thread[t].copy.language \in Languages
  BY <1>1 DEF Fresh, Rows
<1> DEFINE new == NewRow(thread[t].copy.language)
<1>3. new \in Fresh
  BY <1>2, NewRowsAreFresh
<1>4. RowsOK' /\ RowsStay /\ row'[n] # Absent
  BY <1>2, CreatingKeepsTypes DEF Restart
<1> HIDE DEF new
<1> DEFINE again == [Idle EXCEPT !.op = "reconfirm", !.pc = "again", !.session = n]
           seed == [Idle EXCEPT !.op = "seed", !.pc = "got", !.session = n, !.copy = new]
<1>5. again \in Working /\ again.session = n /\ again.pc = "again"
  BY EmptyIsATable DEF Idle, Working, Rows
<1>6. seed \in Working /\ seed.session = n /\ seed.copy = new
  BY <1>3, EmptyIsATable DEF Idle, Working, Fresh
<1>7. Goes(t, again) \/ Goes(t, seed)
  BY DEF Restart, new
<1> HIDE DEF again, seed
<1>8. Sound(again) /\ Sound(seed)
  BY <1>3, <1>4, <1>5, <1>6, CallsAreWorking DEF Sound
<1>9. QED
  BY <1>4, <1>7, <1>8, ThreadsStayOK, TypeHasParts

(* So do the conflict check of a start and the second read of a restart.   *)
LEMMA ChoosingKeepsTypes ==
  ASSUME TypeOK, NEW t \in Threads, CheckConflicts(t) \/ GetAgain(t)
  PROVE  RowsOK' /\ ThreadsOK'
<1> DEFINE w == thread[t]
<1>1. w \in Working /\ row[w.session] # Absent /\ (w.pc # "again" => w.copy \in Fresh)
  BY AtWork DEF CheckConflicts, GetAgain, At
<1>2. CASE GetAgain(t)
  <2>1. PICK pc \in {"got", "refresh"} : Goes(t, [w EXCEPT !.pc = pc, !.copy = row[w.session]])
    BY <1>2 DEF GetAgain, Refreshed
  <2>2. row[w.session] \in Fresh
    BY <1>1, <1>2, TypeHasParts, VisibleIsFresh DEF GetAgain, Working
  <2> DEFINE next == [w EXCEPT !.pc = pc, !.copy = row[w.session]]
  <2>3. next \in Working /\ next.session = w.session /\ next.copy = row[w.session]
    BY <1>1, <2>2 DEF Working, Fresh
  <2> HIDE DEF next
  <2>4. QED
    BY <1>1, <1>2, <2>1, <2>2, <2>3, GoingOnKeepsTypes, CallsAreWorking DEF GetAgain, next
<1>3. CASE CheckConflicts(t)
  <2>1. CASE Goes(t, [w EXCEPT !.pc = "listed"])
    <3>1. [w EXCEPT !.pc = "listed"] \in Working /\ [w EXCEPT !.pc = "listed"].copy = w.copy
          /\ [w EXCEPT !.pc = "listed"].session = w.session
      BY <1>1 DEF Working
    <3>2. w.pc # "again"
      BY <1>3 DEF CheckConflicts, At
    <3>3. QED
      BY <1>1, <1>3, <2>1, <3>1, <3>2, GoingOnKeepsTypes, CallsAreWorking DEF CheckConflicts
  <2>2. ASSUME NEW s \in Sessions, NEW op \in {"start", "list"}, Live(s),
               NEW pc \in Refreshed(s, IF op = "start" THEN "listed" ELSE "got",
                                   IF op = "start" THEN "refreshListed" ELSE "refreshAgain"),
               Goes(t, [op |-> op, pc |-> pc, session |-> s, copy |-> row[s], known |-> {}]),
               op = "start" <=> s = w.session
        PROVE  RowsOK' /\ ThreadsOK'
    <3>1. pc \in {"refresh", "refreshAgain", "refreshListed", "got", "listed"}
      BY <2>2 DEF Refreshed
    <3>2. op \in Ops \cup {"list", "reconfirm", "seed"}
      <4>1. w.op = "start" /\ w.op \in Ops \cup {"list", "reconfirm", "seed"}
        BY <1>1, <1>3 DEF CheckConflicts, At, Working
      <4>2. QED
        BY <4>1
    <3>3. Visible(s) /\ row' = row
      BY <1>3, <2>2 DEF Live, CheckConflicts
    <3>4. QED
      BY <2>2, <3>1, <3>2, <3>3, ReadingKeepsTypes
  <2>3. QED
    BY <1>3, <2>1, <2>2 DEF CheckConflicts
<1>4. QED
  BY <1>2, <1>3

(* Entries and records are added to sessions that exist, with orderings    *)
(* above zero.                                                             *)
LEMMA RecordingKeepsTypes ==
  ASSUME TypeOK, NEW t \in Threads,
         \/ ListEntries(t) \/ (\E e \in Entries : AppendEntry(t, e))
         \/ (\E u \in Usages : RecordUsage(t, u)) \/ SumUsage(t)
  PROVE  TypeOK'
<1> DEFINE w == thread[t]
<1>1. w \in Working /\ row[w.session] # Absent /\ w.copy \in Fresh /\ w.pc # "again"
  BY AtWork DEF ListEntries, AppendEntry, RecordUsage, SumUsage, At
<1>2. RowsOK /\ TablesOK /\ ThreadsOK
  BY TypeHasParts
<1>3. ASSUME NEW next \in Working, Goes(t, next), row' = row,
             next.session = w.session, next.copy \in Fresh
      PROVE  RowsOK' /\ ThreadsOK'
  BY <1>1, <1>3, GoingOnKeepsTypes, CallsAreWorking
<1>4. CASE ListEntries(t)
  <2> DEFINE next == [w EXCEPT !.pc = "counted", !.known = EntriesOf(w.session)]
  <2>1. EntriesOf(w.session) \in EntryTables
    BY <1>2, FS_Subset DEF EntriesOf, TablesOK, EntryTables
  <2>2. next \in Working /\ next.session = w.session /\ next.copy = w.copy
    BY <1>1, <2>1 DEF Working
  <2>3. Goes(t, next) /\ row' = row
    BY <1>4 DEF ListEntries
  <2> HIDE DEF next
  <2>4. RowsOK' /\ ThreadsOK'
    BY <1>1, <1>3, <2>2, <2>3
  <2>5. TablesOK'
    BY <1>2, <1>4 DEF ListEntries, TablesOK
  <2>6. QED
    BY <2>4, <2>5, TypeHasPartsNext
<1>5. ASSUME NEW e \in Entries, AppendEntry(t, e)  PROVE TypeOK'
  <2> DEFINE next == [w EXCEPT !.pc = "save", !.known = {}]
  <2>1. next \in Working /\ next.session = w.session /\ next.copy = w.copy
    BY <1>1, EmptyIsATable DEF Working
  <2>2. (Goes(t, next) \/ Goes(t, Idle)) /\ row' = row
    BY <1>5 DEF AppendEntry
  <2> HIDE DEF next
  <2>3. RowsOK' /\ ThreadsOK'
    BY <1>1, <1>3, <2>1, <2>2, GoingOnKeepsTypes, CallsAreWorking
  <2>4. NextOrdering(t) \in Nat \ {0}
    <3>1. IsFiniteSet(w.known)
      BY <1>1 DEF Working, EntryTables
    <3>2. QED
      BY <3>1, FS_CardinalityType DEF NextOrdering
  <2>5. TablesOK'
    <3>1. w.session \in Sessions
      BY <1>1 DEF Working
    <3>2. [id |-> e, session |-> w.session, ordering |-> NextOrdering(t)] \in EntryRows
      BY <2>4, <3>1 DEF EntryRows
    <3>3. entries' \in EntryTables
      BY <1>2, <1>5, <3>2, FS_AddElement DEF AppendEntry, TablesOK, EntryTables
    <3>4. QED
      BY <1>2, <1>5, <3>3 DEF AppendEntry, TablesOK
  <2>6. QED
    BY <2>3, <2>5, TypeHasPartsNext
<1>6. ASSUME NEW u \in Usages, RecordUsage(t, u)  PROVE TypeOK'
  <2> DEFINE next == [w EXCEPT !.pc = "recorded"]
  <2>1. next \in Working /\ next.session = w.session /\ next.copy = w.copy
    BY <1>1 DEF Working
  <2>2. Goes(t, next) /\ row' = row
    BY <1>6 DEF RecordUsage
  <2> HIDE DEF next
  <2>3. RowsOK' /\ ThreadsOK'
    BY <1>1, <1>3, <2>1, <2>2
  <2>4. TablesOK'
    BY <1>1, <1>2, <1>6 DEF RecordUsage, TablesOK, Working
  <2>5. QED
    BY <2>3, <2>4, TypeHasPartsNext
<1>7. CASE SumUsage(t)
  <2> DEFINE copy == [w.copy EXCEPT !.totals = RecordsOf(w.session)]
             next == [w EXCEPT !.pc = "save", !.copy = copy]
  <2>1. RecordsOf(w.session) \subseteq Usages
    BY <1>2 DEF RecordsOf, TablesOK
  <2>2. copy \in Fresh
    BY <1>1, <2>1, CopiesStayRows
  <2>3. Goes(t, next) /\ row' = row
    BY <1>1, <1>7 DEF SumUsage, Goes, Working
  <2> HIDE DEF copy
  <2>4. next \in Working /\ next.session = w.session /\ next.copy = copy
    BY <1>1, <2>2 DEF Working, Fresh
  <2> HIDE DEF next
  <2>5. RowsOK' /\ ThreadsOK'
    BY <1>1, <1>3, <2>2, <2>3, <2>4
  <2>6. TablesOK'
    BY <1>2, <1>7 DEF SumUsage, TablesOK
  <2>7. QED
    BY <2>5, <2>6, TypeHasPartsNext
<1>8. QED
  BY <1>4, <1>5, <1>6, <1>7
(* Every step of the specification keeps the shape of the tables and the   *)
(* calls, deleted rows ended, and the threads on sessions that exist.      *)
LEMMA TypesStay ==
  ASSUME TypeOK, [Next]_vars
  PROVE  TypeOK'
<1>1. RowsOK /\ TablesOK /\ ThreadsOK
  BY TypeHasParts
<1>2. ASSUME RowsOK', ThreadsOK', UNCHANGED <<entries, records, erased>>
      PROVE  TypeOK'
  <2>1. TablesOK'
    BY <1>1, <1>2 DEF TablesOK
  <2>2. QED
    BY <1>2, <2>1, TypeHasPartsNext
<1>3. ASSUME NEW s \in Sessions, EndIdleAtStartup(s) \/ \E l \in Languages : Create(s, l)
      PROVE  TypeOK'
  <2>1. RowsOK' /\ RowsStay /\ thread' = thread
    <3>1. CASE EndIdleAtStartup(s)
      <4> DEFINE ended == [row[s] EXCEPT !.status = "ended"]
      <4>1. row[s] \in Fresh
        BY <1>1, <3>1, VisibleIsFresh DEF EndIdleAtStartup, Live
      <4>2. ended \in Fresh /\ row' = [row EXCEPT ![s] = ended]
        BY <3>1, <4>1, CopiesStayRows DEF EndIdleAtStartup
      <4> HIDE DEF ended
      <4>3. QED
        BY <1>1, <3>1, <4>2, RowsStayOK DEF EndIdleAtStartup
    <3>2. CASE \E l \in Languages : Create(s, l)
      BY <3>2, CreatingKeepsTypes DEF Create
    <3>3. QED
      BY <1>3, <3>1, <3>2
  <2>2. ASSUME NEW t \in Threads  PROVE ThreadIsSound(t)'
    <3>1. thread[t] # Idle => thread[t].session \in Sessions
      BY <1>1 DEF ThreadsOK, Calls
    <3>2. QED
      BY <1>1, <2>1, <3>1 DEF ThreadsOK, ThreadIsSound, RowsStay
  <2>3. ThreadsOK'
    BY <1>1, <2>1, <2>2 DEF ThreadsOK
  <2>4. QED
    BY <1>2, <1>3, <2>1, <2>3 DEF Create, EndIdleAtStartup
<1>4. ASSUME NEW t \in Threads, NEW s \in Sessions, NEW op \in Ops, Get(t, s, op)
      PROVE  TypeOK'
  <2>1. PICK pc \in Refreshed(s, "got", IF op = "list" THEN "refreshAgain" ELSE "refresh") :
          Goes(t, [op |-> op, pc |-> pc, session |-> s, copy |-> row[s], known |-> {}])
    BY <1>4 DEF Get
  <2>2. pc \in {"refresh", "refreshAgain", "refreshListed", "got", "listed"}
    BY <2>1 DEF Refreshed
  <2>3. Visible(s) /\ row' = row
    BY <1>4 DEF Get
  <2>4. RowsOK' /\ ThreadsOK'
    BY <2>1, <2>2, <2>3, ReadingKeepsTypes
  <2>5. QED
    BY <1>2, <1>4, <2>4 DEF Get
<1>5. ASSUME NEW t \in Threads, Return(t) \/ Die(t)  PROVE TypeOK'
  <2>1. row' = row /\ Goes(t, Idle) /\ UNCHANGED <<entries, records, erased>>
    BY <1>5 DEF Return, Die, Returns
  <2>2. RowsOK' /\ ThreadsOK'
    BY <2>1, GoingOnKeepsTypes, CallsAreWorking
  <2>3. QED
    BY <1>2, <2>1, <2>2
<1>6. ASSUME NEW t \in Threads, Step(t)  PROVE TypeOK'
  <2>1. CASE Refresh(t) \/ RefreshAgain(t) \/ RefreshListed(t) \/ SeedConfig(t)
               \/ SaveCopy(t) \/ ConfirmMaterials(t) \/ EndSession(t)
    <3>1. UNCHANGED <<entries, records, erased>>
      BY <2>1 DEF Refresh, RefreshAgain, RefreshListed, SeedConfig, SaveCopy,
                  ConfirmMaterials, EndSession
    <3>2. QED
      BY <1>2, <2>1, <3>1, SavingKeepsTypes
  <2>2. CASE (\E l \in Languages : UpdateSettings(t, l)) \/ StartIfNotEnded(t)
    <3>1. UNCHANGED <<entries, records, erased>>
      BY <2>2 DEF UpdateSettings, StartIfNotEnded
    <3>2. QED
      BY <1>2, <2>2, <3>1, UpdatingKeepsTypes
  <2>3. CASE CheckConflicts(t) \/ GetAgain(t)
    <3>1. UNCHANGED <<entries, records, erased>>
      BY <2>3 DEF CheckConflicts, GetAgain
    <3>2. QED
      BY <1>2, <2>3, <3>1, ChoosingKeepsTypes
  <2>4. ASSUME NEW n \in Sessions, Restart(t, n)  PROVE TypeOK'
    <3>1. UNCHANGED <<entries, records, erased>>
      BY <2>4 DEF Restart
    <3>2. QED
      BY <1>2, <2>4, <3>1, RestartingKeepsTypes
  <2>5. CASE \/ ListEntries(t) \/ (\E e \in Entries : AppendEntry(t, e))
             \/ (\E u \in Usages : RecordUsage(t, u)) \/ SumUsage(t)
    BY <2>5, RecordingKeepsTypes
  <2>6. CASE DeleteSession(t)
    BY <2>6, DeletingKeepsTypes
  <2>7. CASE Return(t)
    BY <1>5, <2>7
  <2>8. QED
    BY <1>6, <2>1, <2>2, <2>3, <2>4, <2>5, <2>6, <2>7 DEF Step
<1>7. ASSUME UNCHANGED vars  PROVE TypeOK'
  BY <1>7 DEF vars, TypeOK
<1>8. QED
  BY <1>3, <1>4, <1>5, <1>6, <1>7 DEF Next

(* Every variable has the shape of its table or call at all times; rows    *)
(* that are deleted are ended, and no thread works on a session that does  *)
(* not exist or with a copy that was deleted when it was read.             *)
THEOREM TypeCorrect == Spec => []TypeOK
<1>1. Init => TypeOK
  BY EmptyIsATable DEF Init, TypeOK, Rows, Absent, Calls, EntryTables
<1>2. QED
  BY <1>1, TypesStay, PTL DEF Spec
-----------------------------------------------------------------------------
(* The life of a session                                                   *)

(* What can become of row s in one step: it is created, its settings are   *)
(* changed, it is started, a copy is written over it, or it is ended where *)
(* it is, which deleting it does too.                                      *)
Move(s, new) ==
  \/ row[s] = Absent /\ new.status = "preparing"
  \/ Visible(s) /\ row[s].status = "preparing" /\ new.status = "preparing"
  \/ /\ Visible(s) /\ row[s].status # "ended"
     /\ new.status = "live" /\ new.language = row[s].language /\ IndexAllows(s, new)
  \/ \E t \in Threads :
       /\ Holds(t, s) /\ new.status = Writes(t)
       /\ new.language = thread[t].copy.language /\ IndexAllows(s, new)
  \/ new.status = "ended" /\ new.language = row[s].language

OneMove ==
  \/ row' = row
  \/ \E s \in Sessions : row' = [row EXCEPT ![s] = row'[s]] /\ Move(s, row'[s])

(* A row that is set is the row that the step leaves there.                *)
LEMMA SetIsMove ==
  ASSUME TypeOK, NEW s \in Sessions, NEW new, row' = [row EXCEPT ![s] = new], Move(s, new)
  PROVE  OneMove
<1>1. row'[s] = new
  BY DEF TypeOK
<1>2. QED
  BY <1>1 DEF OneMove

(* A call that saves its copy holds it.                                    *)
LEMMA SavingIsAMove ==
  ASSUME TypeOK, NEW t \in Threads, thread[t].pc # "idle", NEW copy, NEW next,
         Save(t, copy, next), Holds(t, thread[t].session),
         copy.status = Writes(t), copy.language = thread[t].copy.language
  PROVE  OneMove
<1>1. thread[t].session \in Sessions
  BY AtWork DEF Working
<1>2. CASE row' = row
  BY <1>2 DEF OneMove
<1>3. CASE /\ IndexAllows(thread[t].session, copy)
           /\ row' = [row EXCEPT ![thread[t].session] = copy]
  BY <1>1, <1>3, SetIsMove DEF Move
<1>4. QED
  BY <1>2, <1>3 DEF Save

(* One step changes one row at most, and only in these ways.               *)
LEMMA RowMoves ==
  ASSUME TypeOK, [Next]_vars
  PROVE  OneMove
<1>1. ASSUME NEW s \in Sessions, NEW l \in Languages, Create(s, l)
      PROVE  OneMove
  BY <1>1, SetIsMove DEF Create, Move, NewRow, Absent
<1>2. ASSUME NEW t \in Threads, Step(t)  PROVE OneMove
  <2> DEFINE w == thread[t]
             s == w.session
  <2>1. CASE Refresh(t) \/ RefreshAgain(t) \/ RefreshListed(t)
    <3>1. PICK next : Save(t, w.copy, next)
      BY <2>1 DEF Refresh, RefreshAgain, RefreshListed
    <3>2. w.pc \in {"refresh", "refreshAgain", "refreshListed"}
      BY <2>1 DEF Refresh, RefreshAgain, RefreshListed
    <3>3. QED
      BY <3>1, <3>2, SavingIsAMove DEF Holds, Writes, At
  <2>2. CASE SaveCopy(t) \/ SeedConfig(t)
    <3>1. Save(t, w.copy, Idle)
      BY <2>2 DEF SaveCopy, SeedConfig
    <3>2. w.pc # "idle" /\ w.pc # "again" /\ Holds(t, s) /\ Writes(t) = w.copy.status
      BY <2>2 DEF SaveCopy, SeedConfig, At, Holds, Writes
    <3>3. QED
      BY <3>1, <3>2, SavingIsAMove
  <2>3. CASE ConfirmMaterials(t)
    <3> DEFINE updated == [w.copy EXCEPT !.confirmed = TRUE]
    <3>1. PICK next : Save(t, updated, next)
      BY <2>3 DEF ConfirmMaterials
    <3>2. w.pc = "got" /\ Holds(t, s) /\ Writes(t) = w.copy.status
      BY <2>3 DEF ConfirmMaterials, At, Holds, Writes
    <3>3. w.copy \in Rows
      BY <3>2, AtWork DEF Working
    <3>4. updated.status = w.copy.status /\ updated.language = w.copy.language
      BY <3>3 DEF Rows, Absent
    <3>5. QED
      BY <3>1, <3>2, <3>4, SavingIsAMove
  <2>4. CASE EndSession(t)
    <3> DEFINE ended == [w.copy EXCEPT !.status = "ended"]
    <3>1. Save(t, ended, Idle)
      BY <2>4 DEF EndSession
    <3>2. w.pc = "got" /\ Holds(t, s) /\ Writes(t) = "ended"
      BY <2>4 DEF EndSession, At, Holds, Writes
    <3>3. w.copy \in Rows
      BY <3>2, AtWork DEF Working
    <3>4. ended.status = "ended" /\ ended.language = w.copy.language
      BY <3>3 DEF Rows, Absent
    <3>5. QED
      BY <3>1, <3>2, <3>4, SavingIsAMove
  <2>5. ASSUME NEW l \in Languages, UpdateSettings(t, l)  PROVE OneMove
    <3>1. s \in Sessions
      BY <2>5, AtWork DEF UpdateSettings, At, Working
    <3>2. row[s] \in Rows
      BY <3>1 DEF TypeOK
    <3>3. [row[s] EXCEPT !.language = l].status = row[s].status
      BY <3>2 DEF Rows, Absent
    <3>4. CASE row' = row
      BY <3>4 DEF OneMove
    <3>5. CASE /\ Visible(s) /\ row[s].status = "preparing"
               /\ row' = [row EXCEPT ![s] = [row[s] EXCEPT !.language = l]]
      BY <3>1, <3>3, <3>5, SetIsMove DEF Move
    <3>6. QED
      BY <2>5, <3>4, <3>5 DEF UpdateSettings
  <2>6. CASE StartIfNotEnded(t)
    <3> DEFINE started == [row[s] EXCEPT !.status = "live"]
    <3>1. s \in Sessions
      BY <2>6, AtWork DEF StartIfNotEnded, At, Working
    <3>2. row[s] \in Rows
      BY <3>1 DEF TypeOK
    <3>3. started.status = "live" /\ started.language = row[s].language
      BY <3>2 DEF Rows, Absent
    <3> HIDE DEF started
    <3>4. CASE row' = row
      BY <3>4 DEF OneMove
    <3>5. CASE /\ Visible(s) /\ row[s].status # "ended" /\ IndexAllows(s, started)
               /\ row' = [row EXCEPT ![s] = started]
      BY <3>1, <3>3, <3>5, SetIsMove DEF Move
    <3>6. QED
      BY <2>6, <3>4, <3>5 DEF StartIfNotEnded, started
  <2>7. CASE DeleteSession(t)
    <3> DEFINE gone == [row[s] EXCEPT !.deleted = TRUE, !.status = "ended"]
    <3>1. s \in Sessions
      BY <2>7, AtWork DEF DeleteSession, At, Working
    <3>2. row[s] \in Rows
      BY <3>1 DEF TypeOK
    <3>3. gone.status = "ended" /\ gone.deleted /\ gone.language = row[s].language
      BY <3>2 DEF Rows, Absent
    <3>4. row' = row \/ row' = [row EXCEPT ![s] = gone]
      BY <2>7 DEF DeleteSession
    <3> HIDE DEF gone
    <3>5. QED
      BY <3>1, <3>3, <3>4, SetIsMove DEF Move, OneMove
  <2>8. ASSUME NEW n \in Sessions, Restart(t, n)  PROVE OneMove
    BY <2>8, SetIsMove DEF Restart, Move, NewRow, Absent
  <2>9. CASE \/ Return(t) \/ CheckConflicts(t) \/ GetAgain(t) \/ ListEntries(t)
             \/ (\E e \in Entries : AppendEntry(t, e))
             \/ (\E u \in Usages : RecordUsage(t, u)) \/ SumUsage(t)
    BY <2>9 DEF OneMove, Return, CheckConflicts, GetAgain, ListEntries, AppendEntry,
                RecordUsage, SumUsage
  <2>10. QED
    BY <1>2, <2>1, <2>2, <2>3, <2>4, <2>5, <2>6, <2>7, <2>8, <2>9 DEF Step
<1>3. ASSUME NEW t \in Threads, Die(t) \/ \E s \in Sessions, op \in Ops : Get(t, s, op)
      PROVE  OneMove
  BY <1>3 DEF Die, Get, OneMove
<1>4. ASSUME NEW s \in Sessions, EndIdleAtStartup(s)  PROVE OneMove
  <2>1. row[s] \in Rows
    BY DEF TypeOK
  <2> DEFINE ended == [row[s] EXCEPT !.status = "ended"]
  <2>2. ended.status = "ended" /\ ended.language = row[s].language
    BY <2>1 DEF Rows, Absent
  <2>3. row' = [row EXCEPT ![s] = ended]
    BY <1>4 DEF EndIdleAtStartup
  <2> HIDE DEF ended
  <2>4. QED
    BY <2>2, <2>3, SetIsMove DEF Move
<1>5. CASE UNCHANGED vars
  BY <1>5 DEF vars, OneMove
<1>6. QED
  BY <1>1, <1>2, <1>3, <1>4, <1>5 DEF Next

(* A user never has two live sessions, however starts, takeovers and saves *)
(* of old copies meet: a row is made live only when the index allows it.   *)
THEOREM AtMostOneLive == Spec => []OneLive
<1>1. Init => OneLive
  BY DEF Init, OneLive, Live, Absent
<1>2. ASSUME TypeOK, OneLive, [Next]_vars  PROVE OneLive'
  <2>1. CASE row' = row
    BY <1>2, <2>1 DEF OneLive, Live, Visible
  <2>2. ASSUME NEW s \in Sessions, row' = [row EXCEPT ![s] = row'[s]], Move(s, row'[s])
        PROVE  OneLive'
    <3>1. \A r \in Sessions \ {s} : row'[r] = row[r]
      BY <1>2, <2>2 DEF TypeOK
    <3>2. Live(s)' => (\A r \in Sessions \ {s} : ~Live(r)) \/ Live(s)
      BY <2>2 DEF Live, Visible, Move, IndexAllows
    <3>3. QED
      BY <1>2, <3>1, <3>2 DEF OneLive, Live, Visible
  <2>3. QED
    BY <1>2, <2>1, <2>2, RowMoves DEF OneMove
<1>3. QED
  BY <1>1, <1>2, TypeCorrect, PTL DEF Spec
(* Settings are locked, and a session goes forward, unless a thread holds  *)
(* a copy that is behind: the other calls are conditional on the row.      *)
THEOREM SettingsLockAtStart == Spec => LifeGoesForward
<1> DEFINE Forward ==
      \A s \in Sessions : Agreed(s) =>
        /\ Stage(row'[s].status) >= Stage(row[s].status)
        /\ row[s].status # "preparing" => row'[s].language = row[s].language
<1>1. ASSUME NEW status  PROVE Stage(status) \in 1..3
  BY DEF Stage
<1>2. ASSUME TypeOK, [Next]_vars  PROVE Forward
  <2>1. CASE row' = row
    BY <1>1, <2>1
  <2>2. ASSUME NEW r \in Sessions, row' = [row EXCEPT ![r] = row'[r]], Move(r, row'[r]),
               NEW s \in Sessions, Agreed(s)
        PROVE  /\ Stage(row'[s].status) >= Stage(row[s].status)
               /\ row[s].status # "preparing" => row'[s].language = row[s].language
    <3>1. CASE s # r
      <4>1. row'[s] = row[s]
        BY <1>2, <2>2, <3>1 DEF TypeOK
      <4>2. QED
        BY <1>1, <4>1
    <3>2. CASE s = r
      <4>1. CASE row[s] = Absent
        BY <2>2, <4>1 DEF Agreed, Visible, Absent
      <4>2. CASE Visible(s) /\ row[s].status = "preparing" /\ row'[s].status = "preparing"
        BY <1>1, <4>2
      <4>3. CASE /\ Visible(s) /\ row[s].status # "ended"
                 /\ row'[s].status = "live" /\ row'[s].language = row[s].language
        <5>1. row[s].status \in {"preparing", "live"}
          BY <1>2, <4>3 DEF TypeOK, Rows, Visible, Absent
        <5>2. QED
          BY <4>3, <5>1 DEF Stage
      <4>4. CASE \E t \in Threads : /\ Holds(t, s) /\ row'[s].status = Writes(t)
                                    /\ row'[s].language = thread[t].copy.language
        BY <2>2, <4>4 DEF Agreed
      <4>5. CASE row'[s].status = "ended" /\ row'[s].language = row[s].language
        BY <1>1, <4>5 DEF Stage
      <4>6. QED
        BY <2>2, <3>2, <4>1, <4>2, <4>3, <4>4, <4>5 DEF Move
    <3>3. QED
      BY <3>1, <3>2
  <2>3. QED
    BY <1>2, <2>1, <2>2, RowMoves DEF OneMove
<1>3. QED
  BY <1>2, TypeCorrect, PTL DEF Spec, LifeGoesForward

-----------------------------------------------------------------------------
(* Copies                                                                  *)

(* Where the copies that a thread may write come from: it holds the copy   *)
(* already, or it has just read the row, or the session is new.            *)
HeldBefore(t, s) ==
  \/ Holds(t, s) /\ Writes(t)' \in {Writes(t), "ended"}
  \/ Writes(t)' \in {row[s].status, "ended"}
  \/ row[s] = Absent

(* Every copy that a thread may write after a step comes from there.       *)
LEMMA NewCopiesAreFresh ==
  ASSUME TypeOK, [Next]_vars, NEW t \in Threads, NEW s \in Sessions, Holds(t, s)'
  PROVE  HeldBefore(t, s)
<1> DEFINE w == thread[t]
<1>1. CASE thread' = thread
  BY <1>1 DEF HeldBefore, Holds, Writes, At
<1>2. ASSUME NEW next, thread'[t] = next
      PROVE  /\ next # Idle /\ next.session = s
             /\ Writes(t)' = IF next.op = "end" /\ next.pc = "got" THEN "ended"
                             ELSE next.copy.status
             /\ \/ next.pc \in {"refresh", "refreshAgain", "refreshListed", "save"}
                \/ /\ next.op \in {"confirm", "reconfirm", "seed", "end", "append", "usage"}
                   /\ next.pc # "again"
  <2>1. Idle.op = "none" /\ Idle.pc = "idle"
    BY DEF Idle
  <2>2. QED
    BY <1>2, <2>1 DEF Holds, Writes, At
<1>3. ASSUME NEW u \in Threads, NEW next, Goes(u, next), u # t
      PROVE  HeldBefore(t, s)
  <2>1. thread'[t] = thread[t]
    BY <1>3 DEF TypeOK, Goes
  <2>2. QED
    BY <2>1 DEF HeldBefore, Holds, Writes, At
<1>4. ASSUME NEW u \in Threads, Returns(u)  PROVE HeldBefore(t, s)
  <2>1. CASE u = t
    BY <1>2, <1>4, <2>1 DEF Returns, Goes, TypeOK
  <2>2. QED
    BY <1>3, <1>4, <2>1 DEF Returns
<1>5. ASSUME NEW op, NEW pc, NEW r \in Sessions, NEW u \in Threads,
             Goes(u, [op |-> op, pc |-> pc, session |-> r, copy |-> row[r], known |-> {}])
      PROVE  HeldBefore(t, s)
  <2>1. CASE u = t
    BY <1>2, <1>5, <2>1 DEF Goes, TypeOK, HeldBefore
  <2>2. QED
    BY <1>3, <1>5, <2>1
<1>6. ASSUME NEW u \in Threads, NEW pc, w.pc \in {"refresh", "refreshAgain", "refreshListed"},
             Goes(u, [w EXCEPT !.pc = pc])
      PROVE  u = t => HeldBefore(t, s)
  <2>1. w \in Working
    BY <1>6, AtWork
  <2> DEFINE next == [w EXCEPT !.pc = pc]
  <2>2. next.session = w.session /\ next.copy = w.copy
    BY <2>1 DEF Working
  <2>3. u = t => thread'[t] = next
    BY <1>6 DEF Goes, TypeOK
  <2> HIDE DEF next
  <2>4. QED
    BY <1>2, <1>6, <2>2, <2>3 DEF HeldBefore, Holds, Writes, At
<1>7. ASSUME NEW u \in Threads, Step(u)  PROVE HeldBefore(t, s)
  <2>1. CASE Refresh(u) \/ RefreshAgain(u) \/ RefreshListed(u)
    <3>1. CASE Returns(u)
      BY <1>4, <3>1
    <3>2. ASSUME NEW pc, Goes(u, [thread[u] EXCEPT !.pc = pc])  PROVE HeldBefore(t, s)
      BY <1>3, <1>6, <2>1, <3>2 DEF Refresh, RefreshAgain, RefreshListed
    <3>3. QED
      BY <2>1, <3>1, <3>2 DEF Refresh, RefreshAgain, RefreshListed, Save
  <2>2. CASE SaveCopy(u) \/ SeedConfig(u) \/ EndSession(u)
    BY <1>4, <2>2 DEF SaveCopy, SeedConfig, EndSession, Save, Returns
  <2>3. CASE ConfirmMaterials(u)
    <3> DEFINE updated == [thread[u].copy EXCEPT !.confirmed = TRUE]
               next == [thread[u] EXCEPT !.op = "seed", !.copy = updated]
    <3>1. Returns(u) \/ (thread[u].op = "reconfirm" /\ Goes(u, next))
      BY <2>3 DEF ConfirmMaterials, Save, Returns
    <3>2. thread[u] \in Working /\ thread[u].pc = "got"
      BY <2>3, AtWork DEF ConfirmMaterials
    <3>3. next.session = thread[u].session /\ next.pc = "got" /\ next.op = "seed"
          /\ next.copy.status = thread[u].copy.status
      <4>1. updated.status = thread[u].copy.status
        BY <3>2 DEF Working, Rows, Absent
      <4> HIDE DEF updated
      <4>2. QED
        BY <3>2, <4>1 DEF Working
    <3>4. Goes(u, next) /\ u = t => thread'[t] = next
      BY DEF Goes, TypeOK
    <3> HIDE DEF next
    <3>5. QED
      BY <1>2, <1>3, <1>4, <3>1, <3>2, <3>3, <3>4 DEF HeldBefore, Holds, Writes, At
  <2>4. CASE Return(u) \/ StartIfNotEnded(u) \/ DeleteSession(u)
               \/ \E l \in Languages : UpdateSettings(u, l)
    BY <1>4, <2>4 DEF Return, StartIfNotEnded, DeleteSession, UpdateSettings
  <2>5. CASE CheckConflicts(u)
    <3>1. CASE Goes(u, [thread[u] EXCEPT !.pc = "listed"])
      <4>1. thread[u].op = "start" /\ thread[u] \in Working
        BY <2>5, AtWork DEF CheckConflicts, At
      <4>2. u = t => thread'[t] = [thread[u] EXCEPT !.pc = "listed"]
        BY <3>1 DEF Goes, TypeOK
      <4>3. [thread[u] EXCEPT !.pc = "listed"].op = "start"
            /\ [thread[u] EXCEPT !.pc = "listed"].pc = "listed"
        BY <4>1 DEF Working
      <4>4. QED
        BY <1>2, <1>3, <3>1, <4>2, <4>3
    <3>2. QED
      BY <1>5, <2>5, <3>1 DEF CheckConflicts
  <2>6. CASE GetAgain(u)
    <3>1. PICK pc \in {"got", "refresh"} :
            Goes(u, [thread[u] EXCEPT !.pc = pc, !.copy = row[thread[u].session]])
      BY <2>6 DEF GetAgain, Refreshed
    <3> DEFINE next == [thread[u] EXCEPT !.pc = pc, !.copy = row[thread[u].session]]
    <3>2. thread[u] \in Working
      BY <2>6, AtWork DEF GetAgain, At
    <3>3. next.session = thread[u].session /\ next.copy = row[thread[u].session]
      BY <3>2 DEF Working
    <3>4. u = t => thread'[t] = next
      BY <3>1 DEF Goes, TypeOK
    <3> HIDE DEF next
    <3>5. QED
      BY <1>2, <1>3, <3>1, <3>3, <3>4 DEF HeldBefore
  <2>7. ASSUME NEW n \in Sessions, Restart(u, n)  PROVE HeldBefore(t, s)
    <3> DEFINE again == [Idle EXCEPT !.op = "reconfirm", !.pc = "again", !.session = n]
               seed == [Idle EXCEPT !.op = "seed", !.pc = "got", !.session = n,
                                    !.copy = NewRow(thread[u].copy.language)]
    <3>1. Goes(u, again) \/ Goes(u, seed)
      BY <2>7 DEF Restart
    <3>2. again.session = n /\ seed.session = n
      BY DEF Idle
    <3>3. u = t => thread'[t] \in {again, seed}
      BY <3>1 DEF Goes, TypeOK
    <3> HIDE DEF again, seed
    <3>4. QED
      BY <1>2, <1>3, <2>7, <3>1, <3>2, <3>3 DEF HeldBefore, Restart
  <2>8. CASE ListEntries(u) \/ \E e \in Entries : AppendEntry(u, e)
    <3>1. CASE Returns(u)
      BY <1>4, <3>1
    <3>2. ASSUME NEW pc \in {"counted", "save"}, NEW known,
                 Goes(u, [thread[u] EXCEPT !.pc = pc, !.known = known]),
                 pc = "save" => thread[u].op = "append"
          PROVE  HeldBefore(t, s)
      <4> DEFINE next == [thread[u] EXCEPT !.pc = pc, !.known = known]
      <4>1. thread[u] \in Working /\ thread[u].pc \in {"got", "counted"}
        BY <2>8, AtWork DEF ListEntries, AppendEntry
      <4>2. /\ next.session = thread[u].session /\ next.copy = thread[u].copy
            /\ next.op = thread[u].op /\ next.pc = pc
        BY <4>1 DEF Working
      <4>3. u = t => thread'[t] = next
        BY <3>2 DEF Goes, TypeOK
      <4>4. thread[u].op # "end" \/ thread[u].pc = "counted"
        BY <2>8 DEF ListEntries, AppendEntry
      <4> HIDE DEF next
      <4>5. QED
        BY <1>2, <1>3, <3>2, <4>1, <4>2, <4>3, <4>4 DEF HeldBefore, Holds, Writes, At
    <3>3. CASE ListEntries(u)
      BY <3>2, <3>3 DEF ListEntries
    <3>4. ASSUME NEW e \in Entries, AppendEntry(u, e)  PROVE HeldBefore(t, s)
      BY <3>1, <3>2, <3>4 DEF AppendEntry, Returns
    <3>5. QED
      BY <2>8, <3>3, <3>4
  <2>9. CASE SumUsage(u) \/ \E x \in Usages : RecordUsage(u, x)
    <3> DEFINE copy == [thread[u].copy EXCEPT !.totals = RecordsOf(thread[u].session)]
               recorded == [thread[u] EXCEPT !.pc = "recorded"]
               summed == [thread[u] EXCEPT !.pc = "save", !.copy = copy]
    <3>1. thread[u] \in Working /\ thread[u].op = "usage"
          /\ thread[u].pc \in {"got", "recorded"}
      BY <2>9, AtWork DEF SumUsage, RecordUsage, At
    <3>2. copy.status = thread[u].copy.status
      BY <3>1 DEF Working, Rows, Absent
    <3>3. Goes(u, recorded) \/ Goes(u, summed)
      BY <2>9, <3>1 DEF SumUsage, RecordUsage, Goes, Working
    <3> HIDE DEF copy
    <3>4. /\ recorded.session = thread[u].session /\ recorded.copy = thread[u].copy
          /\ recorded.op = "usage"
          /\ summed.session = thread[u].session /\ summed.copy = copy
          /\ summed.op = "usage"
      BY <3>1 DEF Working
    <3>5. u = t => thread'[t] \in {recorded, summed}
      BY <3>3 DEF Goes, TypeOK
    <3> HIDE DEF recorded, summed
    <3>6. QED
      BY <1>2, <1>3, <3>1, <3>2, <3>3, <3>4, <3>5 DEF HeldBefore, Holds, Writes, At
  <2>10. QED
    BY <1>7, <2>1, <2>2, <2>3, <2>4, <2>5, <2>6, <2>7, <2>8, <2>9 DEF Step
<1>8. ASSUME NEW u \in Threads, NEW r \in Sessions, NEW op \in Ops, Get(u, r, op)
      PROVE  HeldBefore(t, s)
  BY <1>5, <1>8 DEF Get
<1>9. ASSUME NEW r \in Sessions, EndIdleAtStartup(r) \/ \E l \in Languages : Create(r, l)
      PROVE  HeldBefore(t, s)
  BY <1>1, <1>9 DEF Create, EndIdleAtStartup
<1>10. ASSUME NEW u \in Threads, Die(u)  PROVE HeldBefore(t, s)
  BY <1>4, <1>10 DEF Die
<1>11. CASE UNCHANGED vars
  BY <1>1, <1>11 DEF vars
<1>12. QED
  BY <1>7, <1>8, <1>9, <1>10, <1>11 DEF Next

(* A session that has ended stays so once the older copies are gone, and   *)
(* no thread comes to hold an older copy of it.                            *)
THEOREM EndedForGood == Spec => QuietEndIsFinal
<1> DEFINE Final == \A s \in Sessions : QuietlyEnded(s) => QuietlyEnded(s)'
<1>1. ASSUME TypeOK, [Next]_vars, NEW s \in Sessions, QuietlyEnded(s)
      PROVE  QuietlyEnded(s)'
  <2>1. row[s] # Absent /\ row[s].status = "ended"
    BY <1>1 DEF QuietlyEnded, Absent
  <2>2. row'[s].status = "ended"
    <3>1. CASE row' = row
      BY <2>1, <3>1
    <3>2. ASSUME NEW r \in Sessions, row' = [row EXCEPT ![r] = row'[r]], Move(r, row'[r])
          PROVE  row'[s].status = "ended"
      <4>1. CASE r # s
        BY <1>1, <2>1, <3>2, <4>1 DEF TypeOK
      <4>2. CASE r = s
        BY <1>1, <2>1, <3>2, <4>2 DEF Move, QuietlyEnded
      <4>3. QED
        BY <4>1, <4>2
    <3>3. QED
      BY <1>1, <3>1, <3>2, RowMoves DEF OneMove
  <2>3. ASSUME NEW t \in Threads, Holds(t, s)'  PROVE Writes(t)' = "ended"
    <3>1. HeldBefore(t, s)
      BY <1>1, <2>3, NewCopiesAreFresh
    <3>2. Holds(t, s) => Writes(t) = "ended"
      BY <1>1 DEF QuietlyEnded
    <3>3. QED
      BY <2>1, <3>1, <3>2 DEF HeldBefore
  <2>4. QED
    BY <2>2, <2>3 DEF QuietlyEnded
<1>2. ASSUME TypeOK, [Next]_vars  PROVE Final
  BY <1>1, <1>2
<1>3. QED
  BY <1>2, TypeCorrect, PTL DEF Spec, QuietEndIsFinal
-----------------------------------------------------------------------------
(* The transcript                                                          *)

(* The orderings of a session's entries are no higher than their number,   *)
(* and neither are those of the entries that a thread has counted; both    *)
(* only as long as the session has not been deleted.                       *)
Numbered(s) ==
  s \notin erased => \A e \in EntriesOf(s) : e.ordering <= Cardinality(EntriesOf(s))

Counted(t) ==
  thread[t].pc = "counted" /\ thread[t].session \notin erased =>
    /\ thread[t].known \subseteq EntriesOf(thread[t].session)
    /\ \A e \in thread[t].known : e.ordering <= Cardinality(thread[t].known)

InOrder == (\A s \in Sessions : Numbered(s)) /\ (\A t \in Threads : Counted(t))

(* The entries of a session are finitely many, and so are those that a     *)
(* thread has counted.                                                     *)
LEMMA CountsAreNatural ==
  ASSUME TypeOK
  PROVE  /\ \A s \in Sessions : IsFiniteSet(EntriesOf(s)) /\ Cardinality(EntriesOf(s)) \in Nat
         /\ \A t \in Threads : IsFiniteSet(thread[t].known)
                                  /\ Cardinality(thread[t].known) \in Nat
<1>1. ASSUME NEW s \in Sessions  PROVE IsFiniteSet(EntriesOf(s))
  BY FS_Subset DEF TypeOK, EntryTables, EntriesOf
<1>2. ASSUME NEW t \in Threads  PROVE IsFiniteSet(thread[t].known)
  <2>1. CASE thread[t] = Idle
    BY <2>1, FS_EmptySet DEF Idle
  <2>2. CASE thread[t] # Idle
    BY <2>2 DEF TypeOK, Calls, EntryTables
  <2>3. QED
    BY <2>1, <2>2
<1>3. QED
  BY <1>1, <1>2, FS_CardinalityType

(* A step that leaves the entries alone keeps the order, if whoever counts *)
(* the entries in it counts those that are there.                          *)
LEMMA CountingKeepsOrder ==
  ASSUME TypeOK, InOrder, UNCHANGED <<entries, erased>>,
         \A t \in Threads : \/ thread'[t] = thread[t]
                             \/ thread'[t].pc # "counted"
                             \/ /\ thread'[t].session \in Sessions
                                /\ thread'[t].known = EntriesOf(thread'[t].session)
  PROVE  InOrder'
<1>1. \A s \in Sessions : EntriesOf(s)' = EntriesOf(s)
  BY DEF EntriesOf
<1>2. \A s \in Sessions : Numbered(s)'
  BY <1>1 DEF InOrder, Numbered
<1>3. ASSUME NEW t \in Threads  PROVE Counted(t)'
  <2>1. CASE thread'[t] = thread[t]
    BY <2>1 DEF InOrder, Counted, EntriesOf
  <2>2. CASE thread'[t].pc # "counted"
    BY <2>2 DEF Counted
  <2>3. CASE /\ thread'[t].session \in Sessions
             /\ thread'[t].known = EntriesOf(thread'[t].session)
    <3>1. PICK s \in Sessions : s = thread'[t].session
      BY <2>3
    <3>2. thread'[t].known = EntriesOf(s)
      BY <2>3, <3>1
    <3>3. s \notin erased => \A e \in EntriesOf(s) : e.ordering <= Cardinality(EntriesOf(s))
      BY DEF InOrder, Numbered
    <3>4. QED
      BY <1>1, <3>1, <3>2, <3>3 DEF Counted
  <2>4. QED
    BY <2>1, <2>2, <2>3
<1>4. QED
  BY <1>2, <1>3 DEF InOrder

(* An entry is added above all that are there.                             *)
LEMMA AppendingKeepsOrder ==
  ASSUME TypeOK, InOrder, NEW t \in Threads, NEW e \in Entries, AppendEntry(t, e)
  PROVE  InOrder'
<1> DEFINE r == thread[t].session
           new == [id |-> e, session |-> r, ordering |-> NextOrdering(t)]
<1>1. r \in Sessions /\ erased' = erased
  BY AtWork DEF AppendEntry, Working
<1>2. new \notin entries
  BY DEF AppendEntry
<1>3. ASSUME NEW s \in Sessions
      PROVE  EntriesOf(s)' = IF s = r THEN EntriesOf(s) \cup {new} ELSE EntriesOf(s)
  BY DEF AppendEntry, EntriesOf
<1>4. ASSUME NEW s \in Sessions  PROVE Numbered(s)'
  <2>1. CASE s # r
    BY <1>1, <1>3, <2>1 DEF InOrder, Numbered
  <2>2. CASE s = r
    <3>1. Cardinality(EntriesOf(r) \cup {new}) = Cardinality(EntriesOf(r)) + 1
      BY <1>1, <1>2, CountsAreNatural, FS_AddElement DEF EntriesOf
    <3>2. r \notin erased => Cardinality(thread[t].known) <= Cardinality(EntriesOf(r))
      BY <1>1, CountsAreNatural, FS_Subset DEF InOrder, Counted, AppendEntry
    <3>3. \A x \in EntriesOf(r) : x.ordering \in Nat
      BY DEF EntriesOf, TypeOK, EntryTables, EntryRows
    <3>4. r \notin erased => \A x \in EntriesOf(r) : x.ordering <= Cardinality(EntriesOf(r))
      BY <1>1 DEF InOrder, Numbered
    <3>5. new.ordering = Cardinality(thread[t].known) + 1
      BY DEF NextOrdering
    <3> HIDE DEF new
    <3>6. Cardinality(EntriesOf(r)) \in Nat /\ Cardinality(thread[t].known) \in Nat
      BY <1>1, CountsAreNatural
    <3>7. r \notin erased =>
            \A x \in EntriesOf(r) \cup {new} : x.ordering <= Cardinality(EntriesOf(r)) + 1
      BY <3>2, <3>3, <3>4, <3>5, <3>6
    <3>8. EntriesOf(s)' = EntriesOf(r) \cup {new}
      BY <1>3, <2>2
    <3>9. QED
      BY <1>1, <2>2, <3>1, <3>7, <3>8 DEF Numbered
  <2>3. QED
    BY <2>1, <2>2
<1>5. ASSUME NEW u \in Threads  PROVE Counted(u)'
  <2>1. CASE u # t
    <3>1. thread'[u] = thread[u]
      BY <2>1 DEF AppendEntry, Goes, Returns, TypeOK
    <3>2. thread[u].pc = "counted" => thread[u].session \in Sessions
      BY AtWork DEF Working
    <3>3. entries \subseteq entries'
      BY DEF AppendEntry
    <3>4. QED
      BY <1>1, <3>1, <3>3 DEF InOrder, Counted, EntriesOf
  <2>2. CASE u = t
    <3>1. thread[t] \in Working
      BY AtWork DEF AppendEntry
    <3>2. [thread[t] EXCEPT !.pc = "save", !.known = {}].pc = "save" /\ Idle.pc = "idle"
      BY <3>1 DEF Working, Idle
    <3>3. thread'[t].pc # "counted"
      BY <3>2 DEF AppendEntry, Goes, Returns, TypeOK
    <3>4. QED
      BY <2>2, <3>3 DEF Counted
  <2>3. QED
    BY <2>1, <2>2
<1>6. QED
  BY <1>4, <1>5 DEF InOrder

(* Deleting a session takes it out of the promise and leaves the others.   *)
LEMMA DeletingKeepsOrder ==
  ASSUME TypeOK, InOrder, NEW t \in Threads, DeleteSession(t)
  PROVE  InOrder'
<1> DEFINE r == thread[t].session
<1>1. \A u \in Threads : thread'[u] = thread[u] \/ thread'[u] = Idle
  BY DEF DeleteSession, Returns, Goes, TypeOK
<1>2. CASE UNCHANGED <<entries, erased>>
  BY <1>1, <1>2, CountingKeepsOrder DEF Idle
<1>3. CASE entries' = entries \ EntriesOf(r) /\ erased' = erased \cup {r}
  <2>1. ASSUME NEW s, s \notin erased'  PROVE EntriesOf(s)' = EntriesOf(s) /\ s \notin erased
    BY <1>3, <2>1 DEF EntriesOf
  <2>2. ASSUME NEW s \in Sessions  PROVE Numbered(s)'
    BY <2>1 DEF InOrder, Numbered
  <2>3. ASSUME NEW u \in Threads  PROVE Counted(u)'
    <3>1. CASE thread'[u] = Idle
      BY <3>1 DEF Counted, Idle
    <3>2. CASE thread'[u] = thread[u]
      <4>1. thread[u].session \notin erased' =>
              /\ EntriesOf(thread[u].session) \subseteq entries'
              /\ thread[u].session \notin erased
        BY <1>3 DEF EntriesOf
      <4>2. QED
        BY <3>2, <4>1 DEF InOrder, Counted, EntriesOf
    <3>3. QED
      BY <1>1, <3>1, <3>2
  <2>4. QED
    BY <2>2, <2>3 DEF InOrder
<1>4. QED
  BY <1>2, <1>3 DEF DeleteSession

(* Every other step leaves the entries alone, and a thread that comes to   *)
(* have counted them has counted those that are there.                     *)
LEMMA OrderStays ==
  ASSUME TypeOK, InOrder, [Next]_vars
  PROVE  InOrder'
<1>1. ASSUME NEW u \in Threads, NEW next, Goes(u, next), UNCHANGED <<entries, erased>>,
             next.pc # "counted" \/ next = thread[u]
      PROVE  InOrder'
  <2>1. \A t \in Threads : thread'[t] = thread[t] \/ thread'[t].pc # "counted"
    BY <1>1 DEF Goes, TypeOK
  <2>2. QED
    BY <1>1, <2>1, CountingKeepsOrder
<1>2. ASSUME NEW u \in Threads, Returns(u), UNCHANGED <<entries, erased>>  PROVE InOrder'
  BY <1>1, <1>2 DEF Returns, Idle
<1>3. ASSUME thread' = thread, UNCHANGED <<entries, erased>>  PROVE InOrder'
  BY <1>3, CountingKeepsOrder
<1>4. ASSUME NEW u \in Threads, NEW copy,
             NEW pc \in {"refresh", "refreshAgain", "refreshListed", "got", "listed",
                         "recorded", "save"},
             thread[u].pc # "idle",
             \/ Goes(u, [thread[u] EXCEPT !.pc = pc])
             \/ Goes(u, [thread[u] EXCEPT !.pc = pc, !.copy = copy])
             \/ Goes(u, [thread[u] EXCEPT !.op = "seed", !.copy = copy])
                  /\ thread[u].pc # "counted",
             UNCHANGED <<entries, erased>>
      PROVE  InOrder'
  <2>1. thread[u] \in Working
    BY <1>4, AtWork
  <2>2. /\ [thread[u] EXCEPT !.pc = pc].pc = pc
        /\ [thread[u] EXCEPT !.pc = pc, !.copy = copy].pc = pc
        /\ [thread[u] EXCEPT !.op = "seed", !.copy = copy].pc = thread[u].pc
    BY <2>1 DEF Working
  <2>3. pc # "counted"
    OBVIOUS
  <2>4. QED
    BY <1>1, <1>4, <2>2, <2>3
<1>5. ASSUME NEW u \in Threads, NEW op, NEW r, NEW copy, NEW known,
             NEW pc \in {"refresh", "refreshAgain", "refreshListed", "got", "listed", "again"},
             Goes(u, [op |-> op, pc |-> pc, session |-> r, copy |-> copy, known |-> known]),
             UNCHANGED <<entries, erased>>
      PROVE  InOrder'
  BY <1>1, <1>5
<1>6. ASSUME NEW u \in Threads, Step(u)  PROVE InOrder'
  <2>1. CASE Refresh(u) \/ RefreshAgain(u) \/ RefreshListed(u) \/ SaveCopy(u)
               \/ SeedConfig(u) \/ EndSession(u) \/ ConfirmMaterials(u)
    <3>1. UNCHANGED <<entries, erased>> /\ thread[u].pc \notin {"idle", "counted"}
      BY <2>1 DEF Refresh, RefreshAgain, RefreshListed, SaveCopy, SeedConfig, EndSession,
                  ConfirmMaterials, At
    <3>2. \/ Returns(u)
          \/ \E pc \in {"refreshAgain", "got", "listed"} :
               Goes(u, [thread[u] EXCEPT !.pc = pc])
          \/ \E copy : Goes(u, [thread[u] EXCEPT !.op = "seed", !.copy = copy])
      BY <2>1 DEF Refresh, RefreshAgain, RefreshListed, SaveCopy, SeedConfig, EndSession,
                  ConfirmMaterials, Save, Returns
    <3>3. QED
      BY <1>2, <1>4, <3>1, <3>2
  <2>2. CASE Return(u) \/ StartIfNotEnded(u) \/ \E l \in Languages : UpdateSettings(u, l)
    BY <1>2, <2>2 DEF Return, StartIfNotEnded, UpdateSettings
  <2>3. CASE CheckConflicts(u)
    <3>1. UNCHANGED <<entries, erased>> /\ thread[u].pc # "idle"
      BY <2>3 DEF CheckConflicts, At
    <3>2. CASE Goes(u, [thread[u] EXCEPT !.pc = "listed"])
      BY <1>4, <3>1, <3>2
    <3>3. ASSUME NEW s \in Sessions, NEW op \in {"start", "list"},
                 NEW pc \in Refreshed(s, IF op = "start" THEN "listed" ELSE "got",
                                   IF op = "start" THEN "refreshListed" ELSE "refreshAgain"),
                 Goes(u, [op |-> op, pc |-> pc, session |-> s, copy |-> row[s], known |-> {}])
          PROVE  InOrder'
      BY <1>5, <3>1, <3>3 DEF Refreshed
    <3>4. QED
      BY <2>3, <3>2, <3>3 DEF CheckConflicts
  <2>4. CASE GetAgain(u)
    <3>1. PICK pc \in {"got", "refresh"} :
            Goes(u, [thread[u] EXCEPT !.pc = pc, !.copy = row[thread[u].session]])
      BY <2>4 DEF GetAgain, Refreshed
    <3>2. QED
      BY <1>4, <2>4, <3>1 DEF GetAgain, At
  <2>5. ASSUME NEW n \in Sessions, Restart(u, n)  PROVE InOrder'
    <3> DEFINE again == [Idle EXCEPT !.op = "reconfirm", !.pc = "again", !.session = n]
               seed == [Idle EXCEPT !.op = "seed", !.pc = "got", !.session = n,
                                    !.copy = NewRow(thread[u].copy.language)]
    <3>1. (Goes(u, again) \/ Goes(u, seed)) /\ UNCHANGED <<entries, erased>>
      BY <2>5 DEF Restart
    <3>2. again.pc = "again" /\ seed.pc = "got"
      BY DEF Idle
    <3> HIDE DEF again, seed
    <3>3. QED
      BY <1>1, <3>1, <3>2
  <2>6. CASE ListEntries(u)
    <3> DEFINE next == [thread[u] EXCEPT !.pc = "counted",
                                         !.known = EntriesOf(thread[u].session)]
    <3>1. thread[u] \in Working
      BY <2>6, AtWork DEF ListEntries
    <3>2. next.session = thread[u].session /\ next.known = EntriesOf(thread[u].session)
      BY <3>1 DEF Working
    <3>3. Goes(u, next) /\ UNCHANGED <<entries, erased>>
      BY <2>6 DEF ListEntries
    <3> HIDE DEF next
    <3>4. thread[u].session \in Sessions
      BY <3>1 DEF Working
    <3>5. \A t \in Threads : \/ thread'[t] = thread[t]
                              \/ /\ thread'[t].session \in Sessions
                                 /\ thread'[t].known = EntriesOf(thread'[t].session)
      BY <3>2, <3>3, <3>4 DEF Goes, TypeOK
    <3>6. QED
      BY <3>3, <3>5, CountingKeepsOrder
  <2>7. CASE SumUsage(u) \/ \E x \in Usages : RecordUsage(u, x)
    <3>1. UNCHANGED <<entries, erased>> /\ thread[u] \in Working /\ thread[u].pc # "idle"
      BY <2>7, AtWork DEF SumUsage, RecordUsage, At
    <3>2. \/ Goes(u, [thread[u] EXCEPT !.pc = "recorded"])
          \/ \E copy : Goes(u, [thread[u] EXCEPT !.pc = "save", !.copy = copy])
      BY <2>7, <3>1 DEF SumUsage, RecordUsage, Goes, Working
    <3>3. QED
      BY <1>4, <3>1, <3>2
  <2>8. QED
    BY <1>6, <2>1, <2>2, <2>3, <2>4, <2>5, <2>6, <2>7, AppendingKeepsOrder, DeletingKeepsOrder
    DEF Step
<1>7. ASSUME NEW u \in Threads, NEW r \in Sessions, NEW op \in Ops, Get(u, r, op)
      PROVE  InOrder'
  BY <1>5, <1>7 DEF Get, Refreshed
<1>8. ASSUME NEW u \in Threads, Die(u)  PROVE InOrder'
  BY <1>2, <1>8 DEF Die
<1>9. ASSUME NEW r \in Sessions, EndIdleAtStartup(r) \/ \E l \in Languages : Create(r, l)
      PROVE  InOrder'
  BY <1>3, <1>9 DEF Create, EndIdleAtStartup
<1>10. CASE UNCHANGED vars
  BY <1>3, <1>10 DEF vars
<1>11. QED
  BY <1>6, <1>7, <1>8, <1>9, <1>10 DEF Next

(* The transcript is never against the order of events, as long as the     *)
(* session has not been deleted: however many appends are on the way, each *)
(* is numbered after every entry it found.                                 *)
THEOREM TranscriptInOrder == Spec => []ContextInOrder
<1>1. Init => InOrder
  BY DEF Init, InOrder, Numbered, Counted, EntriesOf, Idle
<1>2. ASSUME TypeOK, InOrder  PROVE ContextInOrder
  <2>1. ASSUME NEW t \in Threads, thread[t].pc = "counted", thread[t].session \notin erased,
               NEW e \in thread[t].known
        PROVE  e.ordering < NextOrdering(t)
    <3>1. e.ordering <= Cardinality(thread[t].known)
      BY <1>2, <2>1 DEF InOrder, Counted
    <3>2. Cardinality(thread[t].known) \in Nat
      BY <1>2, CountsAreNatural
    <3>3. e.ordering \in Nat
      BY <1>2, <2>1, AtWork DEF Working, EntryTables, EntryRows
    <3>4. QED
      BY <3>1, <3>2, <3>3 DEF NextOrdering
  <2>2. QED
    BY <2>1 DEF ContextInOrder
<1>3. Spec => [](TypeOK /\ InOrder)
  BY <1>1, TypeCorrect, OrderStays, PTL DEF Spec
<1>4. QED
  BY <1>2, <1>3, PTL
=============================================================================
