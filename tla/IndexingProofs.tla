--------------------------- MODULE IndexingProofs ---------------------------
(***************************************************************************)
(* Theorems about Indexing, for any number of automatic retries, retries   *)
(* of the owner and restarts.                                              *)
(***************************************************************************)
EXTENDS Indexing, TLAPS

Holds == [quote : Nat, status : {"reserved", "settled", "released"}]

Places == {"idle", "begin", "parse", "embed", "check", "settle", "complete", "ready",
           "requeue", "failed", "release"}

Handlers == {"none", "upload saves", "upload submits", "retry reserves", "retry resets",
             "retry queues", "delete saves", "delete releases", "edit saves"}

\* The handlers that have read the document's row.
Readers == {"retry reserves", "retry resets", "retry queues", "delete saves",
            "delete releases", "edit saves"}

Settled == \E i \in DOMAIN hold : hold[i].status = "settled"

Shapes ==
  /\ doc \in Documents /\ hold \in Seq(Holds)
  /\ charged \in BOOLEAN /\ indexed \in BOOLEAN
  /\ task \in Tasks \cup {None} /\ queue \in Nat
  /\ worker \in [at : Places, retries : Nat]
  /\ call \in [at : Handlers, doc : Documents \cup {None}, retries : Nat]
  /\ call.at \in Readers => call.doc \in Documents

\* What has begun has a hold, and what is queued or runs has a task.
WorkHasHold ==
  /\ task # None => hold # <<>>
  /\ call.at \in {"upload saves", "upload submits"} => hold # <<>>
  /\ worker.at # "idle" \/ queue > 0 => task # None
  /\ call.at \in {"retry reserves", "retry resets", "retry queues"} => task # None
  /\ worker.at = "idle" => worker = NoWork

\* A document that waits for its upload has no task, and nobody is about to
\* make it so again.
WaitsWithoutTask ==
  /\ doc.status = "uploaded" => task = None
  /\ call.at \in Readers /\ call.doc.status = "uploaded" => task = None
  /\ call.at = "upload submits" => doc.status # "uploaded"

\* What is ready, or was when a handler read it, or is about to be, is paid
\* for and has an index.
PaidWork ==
  /\ charged <=> Settled
  /\ doc.status = "ready" => charged
  /\ call.at \in Readers /\ call.doc.status = "ready" => charged
  /\ worker.at \in {"complete", "ready"} => charged
  /\ worker.at \in {"check", "settle", "complete", "ready"} => indexed
  /\ charged => indexed

IndexingInv == Shapes /\ WorkHasHold /\ WaitsWithoutTask /\ PaidWork
-----------------------------------------------------------------------------
(* Lemmas of the holds and of the records                                  *)

(* Where nothing moves, what is settled stays so.                          *)
LEMMA SettledStays == hold' = hold => Settled' <=> Settled
  BY DEF Settled

(* A hold that is made, or found, settles nothing.                         *)
LEMMA ReservingHolds ==
  ASSUME hold \in Seq(Holds), NEW quote \in Nat, Reserve(quote)
  PROVE  hold' \in Seq(Holds) /\ hold' # <<>> /\ (Settled' <=> Settled)
<1>1. CASE hold' = hold /\ HoldOf(quote) # {}
  BY <1>1, SettledStays DEF HoldOf
<1>2. CASE hold' = Append(hold, [quote |-> quote, status |-> "reserved"])
  <2>1. [quote |-> quote, status |-> "reserved"] \in Holds
    BY DEF Holds
  <2>2. hold' \in Seq(Holds) /\ hold' # <<>>
    BY <1>2, <2>1
  <2>3. DOMAIN hold' = 1 .. Len(hold) + 1 /\ DOMAIN hold = 1 .. Len(hold) /\ Len(hold) \in Nat
    BY <1>2
  <2>4. \A i \in DOMAIN hold : hold'[i] = hold[i]
    BY <1>2, <2>1
  <2>5. hold'[Len(hold) + 1].status = "reserved"
    BY <1>2, <2>1
  <2>6. \A i \in DOMAIN hold' : i \in DOMAIN hold \/ i = Len(hold) + 1
    BY <2>3
  <2>7. \A i \in DOMAIN hold : i \in DOMAIN hold'
    BY <2>3
  <2>8. Settled' <=> Settled
    BY <2>4, <2>5, <2>6, <2>7 DEF Settled
  <2>9. QED
    BY <2>2, <2>8
<1>3. QED
  BY <1>1, <1>2 DEF Reserve

(* The latest hold ends; the others stay as they are.                      *)
LEMMA LatestEnds ==
  ASSUME hold \in Seq(Holds), NEW status \in {"settled", "released"}, LatestHeld,
         LatestBecomes(status)
  PROVE  /\ hold' \in Seq(Holds) /\ hold' # <<>>
         /\ Settled' <=> Settled \/ status = "settled"
<1>1. hold # <<>> /\ Len(hold) \in DOMAIN hold /\ hold[Len(hold)] \in Holds
      /\ hold[Len(hold)].status = "reserved"
  BY DEF LatestHeld, Last
<1> DEFINE last == [hold[Len(hold)] EXCEPT !.status = status]
<1>2. last \in Holds /\ last.status = status
  BY <1>1 DEF Holds
<1>3. hold' = [hold EXCEPT ![Len(hold)] = last]
  BY DEF LatestBecomes
<1> HIDE DEF last
<1>4. hold' \in Seq(Holds) /\ hold' # <<>> /\ DOMAIN hold' = DOMAIN hold
      /\ hold'[Len(hold)] = last
      /\ \A i \in DOMAIN hold \ {Len(hold)} : hold'[i] = hold[i]
  BY <1>1, <1>2, <1>3
<1>5. Settled' <=> Settled \/ status = "settled"
  <2>1. CASE status = "settled"
    BY <1>1, <1>2, <1>4, <2>1 DEF Settled
  <2>2. CASE status = "released"
    BY <1>1, <1>2, <1>4, <2>2 DEF Settled
  <2>3. QED
    BY <2>1, <2>2 DEF Settled
<1>6. QED
  BY <1>4, <1>5

(* A release settles nothing.                                              *)
LEMMA ReleasingHolds ==
  ASSUME hold \in Seq(Holds), Release
  PROVE  hold' \in Seq(Holds) /\ (hold # <<>> => hold' # <<>>) /\ (Settled' <=> Settled)
<1>1. CASE LatestHeld
  <2>1. LatestBecomes("released")
    BY <1>1 DEF Release
  <2>2. hold' \in Seq(Holds) /\ hold' # <<>> /\ (Settled' <=> Settled \/ "released" = "settled")
    BY <1>1, <2>1, LatestEnds
  <2>3. QED
    BY <2>2
<1>2. CASE ~LatestHeld
  BY <1>2, SettledStays DEF Release
<1>3. QED
  BY <1>1, <1>2

(* The handler goes on.                                                    *)
LEMMA HandlerGoesOn ==
  ASSUME Shapes, NEW at \in Handlers, Calls(at)
  PROVE  /\ call' \in [at : Handlers, doc : Documents \cup {None}, retries : Nat]
         /\ call'.at = at /\ call'.doc = call.doc /\ call'.retries = call.retries
  BY DEF Shapes, Calls

(* The worker goes on.                                                     *)
LEMMA WorkerGoesOn ==
  ASSUME Shapes, NEW at \in Places \ {"idle"}, Works(at)
  PROVE  /\ worker' \in [at : Places, retries : Nat]
         /\ worker'.at = at /\ worker'.retries = worker.retries
  BY DEF Shapes, Works

(* There is no handler, or no work.                                        *)
LEMMA Nothing ==
  /\ NoCall \in [at : Handlers, doc : Documents \cup {None}, retries : Nat]
  /\ NoCall.at = "none" /\ NoWork.at = "idle"
  /\ NoWork \in [at : Places, retries : Nat]
  BY DEF NoCall, NoWork, Handlers, Places

-----------------------------------------------------------------------------
(* The steps                                                               *)

(* Completing an upload.                                                   *)
LEMMA UploadKeeps ==
  ASSUME IndexingInv, UploadReserves \/ UploadSaves \/ UploadSubmits \/ UploadFails
  PROVE  IndexingInv'
<1>0. Shapes /\ hold \in Seq(Holds)
  BY DEF IndexingInv, Shapes
<1>1. CASE UploadReserves
  <2>1. CASE Reserve(0) /\ Calls("upload saves")
    <3>1. hold' \in Seq(Holds) /\ hold' # <<>> /\ (Settled' <=> Settled)
      BY <1>0, <2>1, ReservingHolds
    <3>2. /\ call' \in [at : Handlers, doc : Documents \cup {None}, retries : Nat]
          /\ call'.at = "upload saves"
      BY <1>0, <2>1, HandlerGoesOn DEF Handlers
    <3>3. QED
      BY <1>1, <3>1, <3>2
      DEF IndexingInv, Shapes, WorkHasHold, WaitsWithoutTask, PaidWork, billing, bounds,
          UploadReserves, Readers
  <2>2. CASE UNCHANGED <<hold, call>>
    <3>1. Settled' <=> Settled
      BY <2>2, SettledStays
    <3>2. QED
      BY <1>1, <2>2, <3>1
      DEF IndexingInv, Shapes, WorkHasHold, WaitsWithoutTask, PaidWork, billing, bounds,
          UploadReserves, Readers
  <2>3. QED
    BY <1>1, <2>1, <2>2 DEF UploadReserves
<1>2. CASE UploadSaves
  <2>1. /\ call' \in [at : Handlers, doc : Documents \cup {None}, retries : Nat]
        /\ call'.at = "upload submits" /\ call'.doc = call.doc /\ call'.retries = call.retries
    BY <1>0, <1>2, HandlerGoesOn DEF UploadSaves, Handlers
  <2>2. Settled' <=> Settled
    BY <1>2, SettledStays DEF UploadSaves, billing
  <2>3. /\ doc' \in Documents /\ doc'.status = "processing_requested"
    BY <1>2 DEF UploadSaves, Documents
  <2>4. QED
    BY <1>2, <2>1, <2>2, <2>3
    DEF IndexingInv, Shapes, WorkHasHold, WaitsWithoutTask, PaidWork, billing, bounds,
        UploadSaves, Readers
<1>3. CASE UploadSubmits
  <2>1. /\ call' = NoCall /\ call.at = "upload submits"
        /\ UNCHANGED <<doc, hold, charged, indexed, worker>>
    BY <1>3 DEF UploadSubmits, billing
  <2>a. task' \in Tasks /\ queue' = queue + 1
    BY <1>3 DEF UploadSubmits, Tasks
  <2>b. queue' \in Nat
    BY <1>0, <2>a DEF Shapes
  <2>2. Settled' <=> Settled
    BY <1>3, SettledStays DEF UploadSubmits, billing
  <2>3. task' # None
    BY <2>a, ConstantsAssumption
  <2>4. Shapes'
    BY <1>3, <2>1, <2>2, <2>3, <2>a, <2>b, Nothing
    DEF IndexingInv, Shapes, Readers, billing, bounds
  <2>5. WorkHasHold'
    BY <1>3, <2>1, <2>2, <2>3, <2>a, <2>b, Nothing
    DEF IndexingInv, WorkHasHold, Shapes, Readers, billing, bounds
  <2>6. WaitsWithoutTask'
    BY <1>3, <2>1, <2>2, <2>3, <2>a, <2>b, Nothing
    DEF IndexingInv, WaitsWithoutTask, Shapes, Readers, billing, bounds
  <2>7. PaidWork'
    BY <1>3, <2>1, <2>2, <2>3, <2>a, <2>b, Nothing
    DEF IndexingInv, PaidWork, Shapes, Readers, billing, bounds
  <2>8. QED
    BY <2>4, <2>5, <2>6, <2>7 DEF IndexingInv
<1>4. CASE UploadFails
  <2>1. call' = NoCall
    BY <1>4 DEF UploadFails
  <2>2. hold' \in Seq(Holds) /\ (hold # <<>> => hold' # <<>>) /\ (Settled' <=> Settled)
    BY <1>0, <1>4, ReleasingHolds DEF UploadFails
  <2>3. QED
    BY <1>4, <2>1, <2>2, Nothing
    DEF IndexingInv, Shapes, WorkHasHold, WaitsWithoutTask, PaidWork, billing, bounds,
        UploadFails, Readers
<1>5. QED
  BY <1>1, <1>2, <1>3, <1>4

(* A retry of the owner.                                                   *)
LEMMA RetryKeeps ==
  ASSUME IndexingInv, RetryReads \/ RetryReserves \/ RetryResets \/ RetryQueues
  PROVE  IndexingInv'
<1>0. Shapes /\ hold \in Seq(Holds)
  BY DEF IndexingInv, Shapes
<1>1. CASE RetryReads
  <2>0. task \in Tasks /\ doc \in Documents /\ task.retries \in Nat
    BY <1>0, <1>1 DEF RetryReads, Shapes, Tasks
  <2>1. /\ call' \in [at : Handlers, doc : Documents \cup {None}, retries : Nat]
        /\ call'.at = "retry reserves" /\ call'.doc = doc
    BY <1>1, <2>0 DEF RetryReads, Handlers
  <2>2. Settled' <=> Settled
    BY <1>1, SettledStays DEF RetryReads, billing
  <2>3. QED
    BY <1>1, <2>1, <2>2
    DEF IndexingInv, Shapes, WorkHasHold, WaitsWithoutTask, PaidWork, billing, bounds,
        RetryReads, Readers
<1>2. CASE RetryReserves
  <2>1. CASE Reserve(call.retries + 1) /\ Calls("retry resets")
    <3>1. hold' \in Seq(Holds) /\ hold' # <<>> /\ (Settled' <=> Settled)
      <4>1. call.retries + 1 \in Nat
        BY <1>0 DEF Shapes
      <4>2. QED
        BY <1>0, <2>1, <4>1, ReservingHolds
    <3>2. /\ call' \in [at : Handlers, doc : Documents \cup {None}, retries : Nat]
          /\ call'.at = "retry resets" /\ call'.doc = call.doc
      BY <1>0, <2>1, HandlerGoesOn DEF Handlers
    <3>3. QED
      BY <1>2, <3>1, <3>2
      DEF IndexingInv, Shapes, WorkHasHold, WaitsWithoutTask, PaidWork, billing, bounds,
          RetryReserves, Readers
  <2>2. CASE hold' = hold /\ call' = NoCall
    <3>1. Settled' <=> Settled
      BY <2>2, SettledStays
    <3>2. QED
      BY <1>2, <2>2, <3>1, Nothing
      DEF IndexingInv, Shapes, WorkHasHold, WaitsWithoutTask, PaidWork, billing, bounds,
          RetryReserves, Readers
  <2>3. QED
    BY <1>2, <2>1, <2>2 DEF RetryReserves
<1>3. CASE RetryResets
  <2>1. /\ call' \in [at : Handlers, doc : Documents \cup {None}, retries : Nat]
        /\ call'.at = "retry queues" /\ call'.doc = call.doc /\ call'.retries = call.retries
    BY <1>0, <1>3, HandlerGoesOn DEF RetryResets, Handlers
  <2>2. Settled' <=> Settled
    BY <1>3, SettledStays DEF RetryResets, billing
  <2>3. task' \in Tasks /\ task' # None
    <3>1. [stage |-> "QUEUED", retries |-> call.retries] \in Tasks
      BY <1>0 DEF Tasks, Shapes
    <3>2. QED
      BY <1>3, <3>1, ConstantsAssumption DEF RetryResets
  <2>4. call.at = "retry resets" /\ task # None /\ call.doc \in Documents
    BY <1>3 DEF RetryResets, IndexingInv, WorkHasHold, Shapes, Readers
  <2>5. Shapes'
    BY <1>3, <2>1, <2>2, <2>3, <2>4
    DEF IndexingInv, Shapes, RetryResets, Readers, billing, bounds
  <2>6. WorkHasHold'
    BY <1>3, <2>1, <2>2, <2>3, <2>4
    DEF IndexingInv, WorkHasHold, Shapes, RetryResets, Readers, billing, bounds
  <2>7. WaitsWithoutTask'
    BY <1>3, <2>1, <2>2, <2>3, <2>4
    DEF IndexingInv, WaitsWithoutTask, Shapes, RetryResets, Readers, billing, bounds
  <2>8. PaidWork'
    BY <1>3, <2>1, <2>2, <2>3, <2>4
    DEF IndexingInv, PaidWork, Shapes, RetryResets, Readers, billing, bounds
  <2>9. QED
    BY <2>5, <2>6, <2>7, <2>8 DEF IndexingInv
<1>4. CASE RetryQueues
  <2>0. call.doc \in Documents /\ call' = NoCall
    BY <1>0, <1>4 DEF RetryQueues, Shapes, Readers
  <2>1. doc' \in Documents /\ doc'.status = "processing_requested"
    BY <1>4, <2>0 DEF RetryQueues, Documents
  <2>2. Settled' <=> Settled
    BY <1>4, SettledStays DEF RetryQueues, billing
  <2>a. queue' = queue + 1
    BY <1>4 DEF RetryQueues
  <2>b. call.at = "retry queues" /\ UNCHANGED <<hold, charged, indexed, task, worker>>
    BY <1>4 DEF RetryQueues, billing
  <2>3. queue' \in Nat
    BY <1>0, <2>a DEF Shapes
  <2>4. Shapes'
    BY <1>4, <2>1, <2>2, <2>3, <2>b, <2>0, Nothing
    DEF IndexingInv, Shapes, Readers, billing, bounds
  <2>5. WorkHasHold'
    BY <1>4, <2>1, <2>2, <2>3, <2>b, <2>0, Nothing
    DEF IndexingInv, WorkHasHold, Shapes, Readers, billing, bounds
  <2>6. WaitsWithoutTask'
    BY <1>4, <2>1, <2>2, <2>3, <2>b, <2>0, Nothing
    DEF IndexingInv, WaitsWithoutTask, Shapes, Readers, billing, bounds
  <2>7. PaidWork'
    BY <1>4, <2>1, <2>2, <2>3, <2>b, <2>0, Nothing
    DEF IndexingInv, PaidWork, Shapes, Readers, billing, bounds
  <2>8. QED
    BY <2>4, <2>5, <2>6, <2>7 DEF IndexingInv
<1>5. QED
  BY <1>1, <1>2, <1>3, <1>4

(* A deletion.                                                             *)
LEMMA DeleteKeeps ==
  ASSUME IndexingInv, DeleteReads \/ DeleteSaves \/ DeleteReleases
  PROVE  IndexingInv'
<1>0. Shapes /\ hold \in Seq(Holds)
  BY DEF IndexingInv, Shapes
<1>1. CASE DeleteReads
  <2>0. doc \in Documents
    BY <1>0 DEF Shapes
  <2>1. /\ call' \in [at : Handlers, doc : Documents \cup {None}, retries : Nat]
        /\ call'.at = "delete saves" /\ call'.doc = doc
    BY <1>1, <2>0 DEF DeleteReads, Handlers
  <2>2. Settled' <=> Settled
    BY <1>1, SettledStays DEF DeleteReads, billing
  <2>3. QED
    BY <1>1, <2>1, <2>2
    DEF IndexingInv, Shapes, WorkHasHold, WaitsWithoutTask, PaidWork, billing, bounds,
        DeleteReads, Readers
<1>2. CASE DeleteSaves
  <2>1. /\ call' \in [at : Handlers, doc : Documents \cup {None}, retries : Nat]
        /\ call'.at = "delete releases" /\ call'.doc = call.doc /\ call'.retries = call.retries
    BY <1>0, <1>2, HandlerGoesOn DEF DeleteSaves, Handlers
  <2>2. Settled' <=> Settled
    BY <1>2, SettledStays DEF DeleteSaves, billing
  <2>3. doc' \in Documents /\ doc'.status = "deleted" /\ call.doc \in Documents
    <3>1. call.doc \in Documents
      BY <1>0, <1>2 DEF DeleteSaves, Shapes, Readers
    <3>2. QED
      BY <1>2, <3>1 DEF DeleteSaves, Documents
  <2>4. call.at = "delete saves"
    BY <1>2 DEF DeleteSaves
  <2>5. Shapes'
    BY <1>2, <2>1, <2>2, <2>3, <2>4
    DEF IndexingInv, Shapes, DeleteSaves, Readers, billing, bounds
  <2>6. WorkHasHold'
    BY <1>2, <2>1, <2>2, <2>3, <2>4
    DEF IndexingInv, WorkHasHold, Shapes, DeleteSaves, Readers, billing, bounds
  <2>7. WaitsWithoutTask'
    BY <1>2, <2>1, <2>2, <2>3, <2>4
    DEF IndexingInv, WaitsWithoutTask, Shapes, DeleteSaves, Readers, billing, bounds
  <2>8. PaidWork'
    BY <1>2, <2>1, <2>2, <2>3, <2>4
    DEF IndexingInv, PaidWork, Shapes, DeleteSaves, Readers, billing, bounds
  <2>9. QED
    BY <2>5, <2>6, <2>7, <2>8 DEF IndexingInv
<1>3. CASE DeleteReleases
  <2>1. call' = NoCall
    BY <1>3 DEF DeleteReleases
  <2>2. hold' \in Seq(Holds) /\ (hold # <<>> => hold' # <<>>) /\ (Settled' <=> Settled)
    BY <1>0, <1>3, ReleasingHolds, SettledStays DEF DeleteReleases
  <2>3. Shapes'
    BY <1>3, <2>1, <2>2, Nothing
    DEF IndexingInv, Shapes, DeleteReleases, Readers, billing, bounds
  <2>4. WorkHasHold'
    BY <1>3, <2>1, <2>2, Nothing
    DEF IndexingInv, WorkHasHold, Shapes, DeleteReleases, Readers, billing, bounds
  <2>5. WaitsWithoutTask'
    BY <1>3, <2>1, <2>2, Nothing
    DEF IndexingInv, WaitsWithoutTask, Shapes, DeleteReleases, Readers, billing, bounds
  <2>6. PaidWork'
    BY <1>3, <2>1, <2>2, Nothing
    DEF IndexingInv, PaidWork, Shapes, DeleteReleases, Readers, billing, bounds
  <2>7. QED
    BY <2>3, <2>4, <2>5, <2>6 DEF IndexingInv
<1>4. QED
  BY <1>1, <1>2, <1>3

(* A new name, or an index turned on or off.                               *)
LEMMA EditKeeps ==
  ASSUME IndexingInv, EditReads \/ EditSaves
  PROVE  IndexingInv'
<1>0. Shapes /\ hold \in Seq(Holds)
  BY DEF IndexingInv, Shapes
<1>1. CASE EditReads
  <2>0. doc \in Documents
    BY <1>0 DEF Shapes
  <2>1. PICK index \in {doc.index} \cup
                      (IF doc.status = "ready" THEN {"indexed", "disabled"} ELSE {}) :
          call' = [at |-> "edit saves", doc |-> [doc EXCEPT !.index = index], retries |-> 0]
    BY <1>1 DEF EditReads
  <2>2. [doc EXCEPT !.index = index] \in Documents
        /\ [doc EXCEPT !.index = index].status = doc.status
    BY <2>0, <2>1 DEF Documents
  <2>3. /\ call' \in [at : Handlers, doc : Documents \cup {None}, retries : Nat]
        /\ call'.at = "edit saves" /\ call'.doc \in Documents /\ call'.doc.status = doc.status
    BY <2>1, <2>2 DEF Handlers
  <2>4. Settled' <=> Settled
    BY <1>1, SettledStays DEF EditReads, billing
  <2>5. UNCHANGED <<doc, hold, charged, indexed, task, queue, worker>>
    BY <1>1 DEF EditReads, billing
  <2>6. Shapes'
    BY <1>1, <2>1, <2>2, <2>3, <2>4, <2>5
    DEF IndexingInv, Shapes, Readers, billing, bounds
  <2>7. WorkHasHold'
    BY <1>1, <2>1, <2>2, <2>3, <2>4, <2>5
    DEF IndexingInv, WorkHasHold, Shapes, Readers, billing, bounds
  <2>8. WaitsWithoutTask'
    BY <1>1, <2>1, <2>2, <2>3, <2>4, <2>5
    DEF IndexingInv, WaitsWithoutTask, Shapes, Readers, billing, bounds
  <2>9. PaidWork'
    BY <1>1, <2>1, <2>2, <2>3, <2>4, <2>5
    DEF IndexingInv, PaidWork, Shapes, Readers, billing, bounds
  <2>10. QED
    BY <2>6, <2>7, <2>8, <2>9 DEF IndexingInv
<1>2. CASE EditSaves
  <2>0. call' = NoCall
    BY <1>2 DEF EditSaves
  <2>1. doc' = call.doc /\ call.doc \in Documents /\ call.at = "edit saves"
    BY <1>0, <1>2 DEF EditSaves, Shapes, Readers
  <2>2. Settled' <=> Settled
    BY <1>2, SettledStays DEF EditSaves, billing
  <2>3. Shapes'
    BY <1>2, <2>1, <2>2, <2>0, Nothing
    DEF IndexingInv, Shapes, EditSaves, Readers, billing, bounds
  <2>4. WorkHasHold'
    BY <1>2, <2>1, <2>2, <2>0, Nothing
    DEF IndexingInv, WorkHasHold, Shapes, EditSaves, Readers, billing, bounds
  <2>5. WaitsWithoutTask'
    BY <1>2, <2>1, <2>2, <2>0, Nothing
    DEF IndexingInv, WaitsWithoutTask, Shapes, EditSaves, Readers, billing, bounds
  <2>6. PaidWork'
    BY <1>2, <2>1, <2>2, <2>0, Nothing
    DEF IndexingInv, PaidWork, Shapes, EditSaves, Readers, billing, bounds
  <2>7. QED
    BY <2>3, <2>4, <2>5, <2>6 DEF IndexingInv
<1>3. QED
  BY <1>1, <1>2

(* The worker at its task.                                                 *)
LEMMA WorkKeeps ==
  ASSUME IndexingInv, Take \/ Begin \/ Parse \/ Embed \/ Check \/ Settle \/ Complete \/ MakeReady
  PROVE  IndexingInv'
<1>0. Shapes /\ hold \in Seq(Holds)
  BY DEF IndexingInv, Shapes
<1>1. CASE Take
  <2>0. task \in Tasks /\ task.retries \in Nat /\ queue > 0 /\ queue \in Nat
    BY <1>0, <1>1 DEF Take, Shapes, Tasks, IndexingInv, WorkHasHold
  <2>1. worker' \in [at : Places, retries : Nat] /\ worker'.at = "begin"
    BY <1>1, <2>0 DEF Take, Places
  <2>2. queue' \in Nat
    BY <1>1, <2>0 DEF Take
  <2>3. worker.at = "idle" /\ UNCHANGED <<doc, hold, charged, indexed, task, call>>
    BY <1>1 DEF Take, billing
  <2>4. Settled' <=> Settled
    BY <1>1, SettledStays DEF Take, billing
  <2>5. task # None
    BY <2>0, ConstantsAssumption
  <2>6. Shapes'
    BY <2>1, <2>2, <2>3, <2>4, <2>5
    DEF IndexingInv, Shapes, Readers
  <2>7. WorkHasHold'
    BY <2>1, <2>2, <2>3, <2>4, <2>5
    DEF IndexingInv, WorkHasHold, Shapes, Readers
  <2>8. WaitsWithoutTask'
    BY <2>1, <2>2, <2>3, <2>4, <2>5
    DEF IndexingInv, WaitsWithoutTask, Shapes, Readers
  <2>9. PaidWork'
    BY <2>1, <2>2, <2>3, <2>4, <2>5
    DEF IndexingInv, PaidWork, Shapes, Readers
  <2>10. QED
    BY <2>6, <2>7, <2>8, <2>9 DEF IndexingInv
<1>2. CASE Begin
  <2>1. worker' \in [at : Places, retries : Nat] /\ worker'.at = "parse"
    BY <1>0, <1>2, WorkerGoesOn DEF Begin, Places
  <2>2. doc' \in Documents /\ doc'.status = "processing"
    BY <1>2 DEF Begin, Documents
  <2>3. worker.at = "begin" /\ UNCHANGED <<hold, charged, indexed, task, queue, call>>
    BY <1>2 DEF Begin, billing
  <2>4. Settled' <=> Settled
    BY <1>2, SettledStays DEF Begin, billing
  <2>5. Shapes'
    BY <2>1, <2>2, <2>3, <2>4
    DEF IndexingInv, Shapes, Readers
  <2>6. WorkHasHold'
    BY <2>1, <2>2, <2>3, <2>4
    DEF IndexingInv, WorkHasHold, Shapes, Readers
  <2>7. WaitsWithoutTask'
    BY <2>1, <2>2, <2>3, <2>4
    DEF IndexingInv, WaitsWithoutTask, Shapes, Readers
  <2>8. PaidWork'
    BY <2>1, <2>2, <2>3, <2>4
    DEF IndexingInv, PaidWork, Shapes, Readers
  <2>9. QED
    BY <2>5, <2>6, <2>7, <2>8 DEF IndexingInv
<1>3. CASE Parse
  <2>1. worker' \in [at : Places, retries : Nat] /\ worker'.at = "embed"
    BY <1>0, <1>3, WorkerGoesOn DEF Parse, Places
  <2>2. task' \in Tasks /\ task' # None
    <3>1. [stage |-> "RUNNING", retries |-> worker.retries] \in Tasks
      BY <1>0 DEF Tasks, Shapes
    <3>2. QED
      BY <1>3, <3>1, ConstantsAssumption DEF Parse
  <2>3. worker.at = "parse" /\ UNCHANGED <<doc, hold, charged, indexed, queue, call>>
    BY <1>3 DEF Parse, billing
  <2>h. hold # <<>> /\ doc.status # "uploaded"
        /\ (call.at \in Readers => call.doc.status # "uploaded")
    BY <2>3 DEF IndexingInv, WorkHasHold, WaitsWithoutTask
  <2>4. Settled' <=> Settled
    BY <1>3, SettledStays DEF Parse, billing
  <2>5. Shapes'
    BY <2>1, <2>2, <2>3, <2>4, <2>h
    DEF IndexingInv, Shapes, Readers
  <2>6. WorkHasHold'
    BY <2>1, <2>2, <2>3, <2>4, <2>h
    DEF IndexingInv, WorkHasHold, Readers
  <2>7. WaitsWithoutTask'
    BY <2>1, <2>2, <2>3, <2>4, <2>h
    DEF IndexingInv, WaitsWithoutTask, Readers
  <2>8. PaidWork'
    BY <2>1, <2>2, <2>3, <2>4, <2>h
    DEF IndexingInv, PaidWork, Shapes, Readers
  <2>9. QED
    BY <2>5, <2>6, <2>7, <2>8 DEF IndexingInv
<1>4. CASE Embed
  <2>1. worker' \in [at : Places, retries : Nat] /\ worker'.at = "check"
    BY <1>0, <1>4, WorkerGoesOn DEF Embed, Places
  <2>2. task' \in Tasks /\ task' # None
    <3>1. [stage |-> "RUNNING", retries |-> worker.retries] \in Tasks
      BY <1>0 DEF Tasks, Shapes
    <3>2. QED
      BY <1>4, <3>1, ConstantsAssumption DEF Embed
  <2>3. worker.at = "embed" /\ UNCHANGED <<doc, hold, charged, queue, call>>
        /\ indexed' = TRUE
    BY <1>4 DEF Embed, billing
  <2>h. hold # <<>> /\ doc.status # "uploaded"
        /\ (call.at \in Readers => call.doc.status # "uploaded")
    BY <2>3 DEF IndexingInv, WorkHasHold, WaitsWithoutTask
  <2>4. Settled' <=> Settled
    BY <1>4, SettledStays DEF Embed, billing
  <2>5. Shapes'
    BY <2>1, <2>2, <2>3, <2>4, <2>h
    DEF IndexingInv, Shapes, Readers
  <2>6. WorkHasHold'
    BY <2>1, <2>2, <2>3, <2>4, <2>h
    DEF IndexingInv, WorkHasHold, Readers
  <2>7. WaitsWithoutTask'
    BY <2>1, <2>2, <2>3, <2>4, <2>h
    DEF IndexingInv, WaitsWithoutTask, Readers
  <2>8. PaidWork'
    BY <2>1, <2>2, <2>3, <2>4, <2>h
    DEF IndexingInv, PaidWork, Shapes, Readers
  <2>9. QED
    BY <2>5, <2>6, <2>7, <2>8 DEF IndexingInv
<1>5. CASE Check
  <2>1. CASE doc.status = "deleted"
    <3>1. hold' \in Seq(Holds) /\ (hold # <<>> => hold' # <<>>) /\ (Settled' <=> Settled)
      BY <1>0, <1>5, <2>1, ReleasingHolds DEF Check
    <3>2. worker' = NoWork
      BY <1>5, <2>1 DEF Check
    <3>3. worker.at = "check" /\ UNCHANGED <<doc, charged, indexed, task, queue, call>>
      BY <1>5 DEF Check
    <3>4. QED
      BY <1>5, <3>1, <3>2, <3>3, Nothing
      DEF IndexingInv, Shapes, WorkHasHold, WaitsWithoutTask, PaidWork, billing, bounds, Readers
  <2>2. CASE doc.status # "deleted"
    <3>1. worker' \in [at : Places, retries : Nat] /\ worker'.at = "settle"
      BY <1>0, <1>5, <2>2, WorkerGoesOn DEF Check, Places
    <3>2. worker.at = "check" /\ UNCHANGED <<doc, hold, charged, indexed, task, queue, call>>
      BY <1>5, <2>2 DEF Check
    <3>3. Settled' <=> Settled
      BY <3>2, SettledStays
    <3>4. QED
      BY <1>5, <3>1, <3>2, <3>3
      DEF IndexingInv, Shapes, WorkHasHold, WaitsWithoutTask, PaidWork, billing, bounds, Readers
  <2>3. QED
    BY <2>1, <2>2
<1>6. CASE Settle
  <2>1. worker' \in [at : Places, retries : Nat] /\ worker'.at = "complete"
    BY <1>0, <1>6, WorkerGoesOn DEF Settle, Places
  <2>2. hold' \in Seq(Holds) /\ hold' # <<>> /\ charged' = TRUE /\ Settled'
    <3>1. CASE LatestHeld /\ LatestBecomes("settled") /\ charged' = TRUE
      BY <1>0, <3>1, LatestEnds
    <3>2. CASE Last(hold).status = "settled" /\ UNCHANGED billing
      <4>1. hold # <<>> /\ hold' = hold /\ charged' = charged /\ (charged <=> Settled)
            /\ charged \in BOOLEAN
        BY <1>6, <3>2 DEF Settle, billing, IndexingInv, WorkHasHold, PaidWork, Shapes
      <4>2. Len(hold) \in DOMAIN hold
        BY <1>0, <4>1
      <4>3. Settled
        BY <3>2, <4>2 DEF Settled, Last
      <4>4. QED
        BY <1>0, <4>1, <4>3, SettledStays
    <3>3. QED
      BY <1>6, <3>1, <3>2 DEF Settle
  <2>3. worker.at = "settle" /\ UNCHANGED <<doc, indexed, task, queue, call>>
    BY <1>6 DEF Settle, billing
  <2>4. Shapes'
    BY <2>1, <2>2, <2>3
    DEF IndexingInv, Shapes, Readers
  <2>5. WorkHasHold'
    BY <2>1, <2>2, <2>3
    DEF IndexingInv, WorkHasHold, Shapes, Readers
  <2>6. WaitsWithoutTask'
    BY <2>1, <2>2, <2>3
    DEF IndexingInv, WaitsWithoutTask, Shapes, Readers
  <2>7. PaidWork'
    BY <2>1, <2>2, <2>3
    DEF IndexingInv, PaidWork, Shapes, Readers
  <2>8. QED
    BY <2>4, <2>5, <2>6, <2>7 DEF IndexingInv
<1>7. CASE Complete
  <2>1. worker' \in [at : Places, retries : Nat] /\ worker'.at = "ready"
    BY <1>0, <1>7, WorkerGoesOn DEF Complete, Places
  <2>2. task' \in Tasks /\ task' # None
    <3>1. [stage |-> "COMPLETED", retries |-> worker.retries] \in Tasks
      BY <1>0 DEF Tasks, Shapes
    <3>2. QED
      BY <1>7, <3>1, ConstantsAssumption DEF Complete
  <2>3. worker.at = "complete" /\ UNCHANGED <<doc, hold, charged, indexed, queue, call>>
    BY <1>7 DEF Complete, billing
  <2>h. hold # <<>> /\ doc.status # "uploaded"
        /\ (call.at \in Readers => call.doc.status # "uploaded")
    BY <2>3 DEF IndexingInv, WorkHasHold, WaitsWithoutTask
  <2>4. Settled' <=> Settled
    BY <1>7, SettledStays DEF Complete, billing
  <2>5. Shapes'
    BY <2>1, <2>2, <2>3, <2>4, <2>h
    DEF IndexingInv, Shapes, Readers
  <2>6. WorkHasHold'
    BY <2>1, <2>2, <2>3, <2>4, <2>h
    DEF IndexingInv, WorkHasHold, Readers
  <2>7. WaitsWithoutTask'
    BY <2>1, <2>2, <2>3, <2>4, <2>h
    DEF IndexingInv, WaitsWithoutTask, Readers
  <2>8. PaidWork'
    BY <2>1, <2>2, <2>3, <2>4, <2>h
    DEF IndexingInv, PaidWork, Shapes, Readers
  <2>9. QED
    BY <2>5, <2>6, <2>7, <2>8 DEF IndexingInv
<1>8. CASE MakeReady
  <2>1. worker' = NoWork
    BY <1>8 DEF MakeReady
  <2>2. doc' \in Documents /\ doc'.status = "ready"
    BY <1>8 DEF MakeReady, Documents
  <2>3. worker.at = "ready" /\ UNCHANGED <<hold, charged, indexed, task, queue, call>>
    BY <1>8 DEF MakeReady, billing
  <2>4. Settled' <=> Settled
    BY <1>8, SettledStays DEF MakeReady, billing
  <2>5. Shapes'
    BY <2>1, <2>2, <2>3, <2>4, Nothing
    DEF IndexingInv, Shapes, Readers
  <2>6. WorkHasHold'
    BY <2>1, <2>2, <2>3, <2>4, Nothing
    DEF IndexingInv, WorkHasHold, Shapes, Readers
  <2>7. WaitsWithoutTask'
    BY <2>1, <2>2, <2>3, <2>4, Nothing
    DEF IndexingInv, WaitsWithoutTask, Shapes, Readers
  <2>8. PaidWork'
    BY <2>1, <2>2, <2>3, <2>4, Nothing
    DEF IndexingInv, PaidWork, Shapes, Readers
  <2>9. QED
    BY <2>5, <2>6, <2>7, <2>8 DEF IndexingInv
<1>9. QED
  BY <1>1, <1>2, <1>3, <1>4, <1>5, <1>6, <1>7, <1>8

(* The worker after an error.                                              *)
LEMMA FailingKeeps ==
  ASSUME IndexingInv, (\E retryable \in BOOLEAN : Fail(retryable)) \/ Requeue \/ SaveFailed
         \/ ReleaseFailed \/ Restart \/ UNCHANGED vars
  PROVE  IndexingInv'
<1>0. Shapes /\ hold \in Seq(Holds)
  BY DEF IndexingInv, Shapes
<1>1. CASE (\E retryable \in BOOLEAN : Fail(retryable))
  <2>0. PICK retryable \in BOOLEAN : Fail(retryable)
    BY <1>1
  <2>1. worker.retries + 1 \in Nat /\ worker.at # "idle"
    BY <1>0, <2>0 DEF Shapes, Fail
  <2>2. task' \in Tasks /\ task' # None
    <3>1. \A stage \in {"QUEUED", "FAILED"} :
            [stage |-> stage, retries |-> worker.retries + 1] \in Tasks
      BY <2>1 DEF Tasks
    <3>2. QED
      BY <2>0, <3>1, ConstantsAssumption DEF Fail
  <2>3. worker' \in [at : Places, retries : Nat] /\ worker'.at \in {"requeue", "failed"}
    BY <1>0, <2>0, WorkerGoesOn DEF Fail, Places
  <2>4. UNCHANGED <<doc, hold, charged, indexed, queue, call>>
    BY <2>0 DEF Fail, billing
  <2>h. hold # <<>> /\ doc.status # "uploaded"
        /\ (call.at \in Readers => call.doc.status # "uploaded")
    BY <2>1 DEF IndexingInv, WorkHasHold, WaitsWithoutTask
  <2>5. Settled' <=> Settled
    BY <2>4, SettledStays
  <2>6. Shapes'
    BY <2>1, <2>2, <2>3, <2>4, <2>5, <2>h
    DEF IndexingInv, Shapes, Readers
  <2>7. WorkHasHold'
    BY <2>1, <2>2, <2>3, <2>4, <2>5, <2>h
    DEF IndexingInv, WorkHasHold, Readers
  <2>8. WaitsWithoutTask'
    BY <2>1, <2>2, <2>3, <2>4, <2>5, <2>h
    DEF IndexingInv, WaitsWithoutTask, Readers
  <2>9. PaidWork'
    BY <2>1, <2>2, <2>3, <2>4, <2>5, <2>h
    DEF IndexingInv, PaidWork, Shapes, Readers
  <2>10. QED
    BY <2>6, <2>7, <2>8, <2>9 DEF IndexingInv
<1>2. CASE Requeue
  <2>1. worker' = NoWork /\ queue' = queue + 1
    BY <1>2 DEF Requeue
  <2>2. queue' \in Nat
    BY <1>0, <2>1 DEF Shapes
  <2>3. worker.at = "requeue" /\ UNCHANGED <<doc, hold, charged, indexed, task, call>>
    BY <1>2 DEF Requeue, billing
  <2>4. Settled' <=> Settled
    BY <1>2, SettledStays DEF Requeue, billing
  <2>5. Shapes'
    BY <2>1, <2>2, <2>3, <2>4, Nothing
    DEF IndexingInv, Shapes, Readers
  <2>6. WorkHasHold'
    BY <2>1, <2>2, <2>3, <2>4, Nothing
    DEF IndexingInv, WorkHasHold, Shapes, Readers
  <2>7. WaitsWithoutTask'
    BY <2>1, <2>2, <2>3, <2>4, Nothing
    DEF IndexingInv, WaitsWithoutTask, Shapes, Readers
  <2>8. PaidWork'
    BY <2>1, <2>2, <2>3, <2>4, Nothing
    DEF IndexingInv, PaidWork, Shapes, Readers
  <2>9. QED
    BY <2>5, <2>6, <2>7, <2>8 DEF IndexingInv
<1>3. CASE SaveFailed
  <2>1. worker' \in [at : Places, retries : Nat] /\ worker'.at = "release"
    BY <1>0, <1>3, WorkerGoesOn DEF SaveFailed, Places
  <2>2. doc' \in Documents /\ doc'.status = "failed"
    BY <1>3 DEF SaveFailed, Documents
  <2>3. worker.at = "failed" /\ UNCHANGED <<hold, charged, indexed, task, queue, call>>
    BY <1>3 DEF SaveFailed, billing
  <2>4. Settled' <=> Settled
    BY <1>3, SettledStays DEF SaveFailed, billing
  <2>5. Shapes'
    BY <2>1, <2>2, <2>3, <2>4
    DEF IndexingInv, Shapes, Readers
  <2>6. WorkHasHold'
    BY <2>1, <2>2, <2>3, <2>4
    DEF IndexingInv, WorkHasHold, Shapes, Readers
  <2>7. WaitsWithoutTask'
    BY <2>1, <2>2, <2>3, <2>4
    DEF IndexingInv, WaitsWithoutTask, Shapes, Readers
  <2>8. PaidWork'
    BY <2>1, <2>2, <2>3, <2>4
    DEF IndexingInv, PaidWork, Shapes, Readers
  <2>9. QED
    BY <2>5, <2>6, <2>7, <2>8 DEF IndexingInv
<1>4. CASE ReleaseFailed
  <2>1. worker' = NoWork
    BY <1>4 DEF ReleaseFailed
  <2>2. hold' \in Seq(Holds) /\ (hold # <<>> => hold' # <<>>) /\ (Settled' <=> Settled)
    BY <1>0, <1>4, ReleasingHolds DEF ReleaseFailed
  <2>3. worker.at = "release" /\ UNCHANGED <<doc, charged, indexed, task, queue, call>>
    BY <1>4 DEF ReleaseFailed, billing
  <2>4. Shapes'
    BY <2>1, <2>2, <2>3, Nothing
    DEF IndexingInv, Shapes, Readers
  <2>5. WorkHasHold'
    BY <2>1, <2>2, <2>3, Nothing
    DEF IndexingInv, WorkHasHold, Shapes, Readers
  <2>6. WaitsWithoutTask'
    BY <2>1, <2>2, <2>3, Nothing
    DEF IndexingInv, WaitsWithoutTask, Shapes, Readers
  <2>7. PaidWork'
    BY <2>1, <2>2, <2>3, Nothing
    DEF IndexingInv, PaidWork, Shapes, Readers
  <2>8. QED
    BY <2>4, <2>5, <2>6, <2>7 DEF IndexingInv
<1>5. CASE Restart
  <2>1. task' = None /\ queue' = 0 /\ worker' = NoWork /\ call' = NoCall
        /\ UNCHANGED <<doc, hold, charged, indexed>>
    BY <1>5 DEF Restart, billing
  <2>2. Settled' <=> Settled
    BY <2>1, SettledStays
  <2>3. Shapes'
    <3>1. /\ worker' \in [at : Places, retries : Nat]
          /\ call' \in [at : Handlers, doc : Documents \cup {None}, retries : Nat]
          /\ call'.at \notin Readers
      BY <2>1, Nothing DEF Readers
    <3>2. task' \in Tasks \cup {None} /\ queue' \in Nat
      BY <2>1
    <3>3. /\ doc' \in Documents /\ hold' \in Seq(Holds)
          /\ charged' \in BOOLEAN /\ indexed' \in BOOLEAN
      BY <1>0, <2>1 DEF Shapes
    <3>4. QED
      BY <3>1, <3>2, <3>3 DEF Shapes
  <2>4. WorkHasHold'
    BY <2>1, Nothing DEF WorkHasHold
  <2>5. WaitsWithoutTask'
    BY <2>1, <2>2, Nothing
    DEF IndexingInv, WaitsWithoutTask, Shapes, Readers
  <2>6. PaidWork'
    BY <2>1, <2>2, Nothing
    DEF IndexingInv, PaidWork, Shapes, Readers
  <2>7. QED
    BY <2>3, <2>4, <2>5, <2>6 DEF IndexingInv
<1>6. CASE UNCHANGED vars
  <2>1. UNCHANGED <<doc, hold, charged, indexed, task, queue, call, worker>>
    BY <1>6 DEF vars
  <2>2. Settled' <=> Settled
    BY <2>1, SettledStays
  <2>3. Shapes'
    BY <1>6, <2>1, <2>2
    DEF IndexingInv, Shapes, Readers, billing, bounds
  <2>4. WorkHasHold'
    BY <1>6, <2>1, <2>2
    DEF IndexingInv, WorkHasHold, Shapes, Readers, billing, bounds
  <2>5. WaitsWithoutTask'
    BY <1>6, <2>1, <2>2
    DEF IndexingInv, WaitsWithoutTask, Shapes, Readers, billing, bounds
  <2>6. PaidWork'
    BY <1>6, <2>1, <2>2
    DEF IndexingInv, PaidWork, Shapes, Readers, billing, bounds
  <2>7. QED
    BY <2>3, <2>4, <2>5, <2>6 DEF IndexingInv
<1>7. QED
  BY <1>1, <1>2, <1>3, <1>4, <1>5, <1>6

-----------------------------------------------------------------------------
(* At first nothing is held, charged or indexed.                           *)
LEMMA InitIsSound == Init => IndexingInv
<1> SUFFICES ASSUME Init  PROVE IndexingInv
  OBVIOUS
<1>1. Shapes
  <2>1. doc \in Documents
    BY DEF Init, Documents
  <2>2. hold \in Seq(Holds)
    BY DEF Init
  <2>3. call.at \notin Readers /\ queue \in Nat
    BY Nothing DEF Init, Readers
  <2>4. QED
    BY <2>1, <2>2, <2>3, Nothing DEF Init, Shapes
<1>2. ~Settled
  BY DEF Init, Settled
<1>3. WorkHasHold /\ WaitsWithoutTask /\ PaidWork
  BY <1>2, Nothing DEF Init, WorkHasHold, WaitsWithoutTask, PaidWork, Readers
<1>4. QED
  BY <1>1, <1>3 DEF IndexingInv

(* The inductive invariant holds in every reachable state.                 *)
THEOREM IndexingHolds == Spec => []IndexingInv
<1>1. IndexingInv /\ [Next]_vars => IndexingInv'
  BY UploadKeeps, RetryKeeps, DeleteKeeps, EditKeeps, WorkKeeps, FailingKeeps
  DEF Next, Upload, Retry, Delete, Edit, Runs
<1>2. QED
  BY <1>1, InitIsSound, PTL DEF Spec

(* The document's row and its task keep their types, a document that waits *)
(* for its upload has no work, and the ledger is charged exactly when a    *)
(* hold stands as settled.                                                 *)
THEOREM TypeCorrect == Spec => []TypeOK
<1>1. IndexingInv => TypeOK
  <2> SUFFICES ASSUME IndexingInv  PROVE TypeOK
    OBVIOUS
  <2>1. \A i \in DOMAIN hold : hold[i].status \in {"reserved", "settled", "released"}
    <3>1. \A i \in DOMAIN hold : hold[i] \in Holds
      BY DEF IndexingInv, Shapes
    <3>2. QED
      BY <3>1 DEF Holds
  <2>2. charged = (\E i \in DOMAIN hold : hold[i].status = "settled")
    BY DEF IndexingInv, Shapes, PaidWork, Settled
  <2>3. worker # NoWork => worker.at # "idle"
    BY DEF IndexingInv, WorkHasHold
  <2>4. QED
    BY <2>1, <2>2, <2>3 DEF TypeOK, IndexingInv, Shapes, WorkHasHold, WaitsWithoutTask
<1>2. QED
  BY <1>1, IndexingHolds, PTL

(* A document is ready only if it has been paid for, whatever its owner    *)
(* deleted, edited or retried and wherever the process was restarted while *)
(* the worker ran: _run settles before it makes the document ready.        *)
THEOREM ReadyDocumentsArePaid == Spec => []ReadyIsPaid
<1>1. IndexingInv => ReadyIsPaid
  BY DEF IndexingInv, PaidWork, ReadyIsPaid
<1>2. QED
  BY <1>1, IndexingHolds, PTL

(* Points are taken only once the index has been written.                  *)
THEOREM PaidDocumentsHaveIndex == Spec => []PaidHasIndex
<1>1. IndexingInv => PaidHasIndex
  BY DEF IndexingInv, PaidWork, PaidHasIndex
<1>2. QED
  BY <1>1, IndexingHolds, PTL

=============================================================================
