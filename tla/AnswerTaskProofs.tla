--------------------------- MODULE AnswerTaskProofs ---------------------------
(***************************************************************************)
(* Theorems about AnswerTask, for any questions, threads and tasks, and    *)
(* whatever the threads serve.                                             *)
(***************************************************************************)
EXTENDS AnswerTask, FiniteSetTheorems, TLAPS

Answerers == {"auto", "manual", "whole"}

Savers == {"revise", "confirm", "dismiss"}

Answers == {None} \cup Tasks \cup {Claim(t) : t \in Tasks}

Candidates == [state : {"none", "unsure", "sure", "by user"}, old : BOOLEAN, answer : Answers]

Calls == [op : Answerers \cup Savers \cup {"cancel", "none"},
          pc : {"idle", "write", "open", "start", "generate", "piece", "append", "settle",
                "release", "cancel"},
          question : Questions \cup {None}, task : Tasks \cup {None},
          bound : BOOLEAN, seen : Candidates]

\* Where each call can be, and what it knows there.
Placed(r) ==
  /\ r.pc = "idle" => r = Idle
  /\ r.op = "none" => r.pc = "idle"
  /\ r.op \in Savers => r.pc = "write" /\ r.question \in Questions
  /\ r.op = "cancel" => r.pc \in {"cancel", "release"}
  /\ r.op \in Answerers => r.pc \in {"open", "start", "generate", "piece", "append", "settle", "release"}
  /\ r.op \in Answerers \cup {"cancel"} => r.task \in Tasks
  /\ r.op = "auto" => r.question \in Questions
  /\ r.pc = "open" => r.op = "auto"
  /\ r.bound <=> r.op = "auto" /\ r.pc \notin {"open", "start"}

Statuses == {"none", "queued", "streaming"} \cup Finished

Shapes ==
  /\ live \in BOOLEAN /\ auto \in BOOLEAN /\ undone \in BOOLEAN
  /\ active \in Questions \cup {None}
  /\ candidate \in [Questions -> Candidates]
  /\ task \in [Tasks -> [status : Statuses, usage : Usages \cup {None}]]
  /\ known \subseteq Tasks
  /\ charge \in [Usages -> U!States]
  /\ thread \in [Requests -> Calls]
  /\ \A c \in Requests : Placed(thread[c])

\* What was saved has a reservation to its name.
SavedAreReserved ==
  \A t \in Tasks : /\ task[t].status = "none" <=> task[t].usage = None
                   /\ task[t].usage # None => charge[task[t].usage] # "open"

Serving(c) == thread[c].op \in Answerers

\* No two threads write one answer.
TasksApart ==
  \A c, d \in Requests : Serving(c) /\ Serving(d) /\ thread[c].task = thread[d].task => c = d

UsageOf(r) == IF r.op = "auto" THEN {<<"auto", r.question>>} ELSE {"manual"} \X Questions

\* What a thread does is paid for under the id of what it answers.
Named ==
  \A c \in Requests :
    /\ thread[c].pc = "open" => task[thread[c].task] = NoTask
    /\ Serving(c) /\ thread[c].pc # "open" => task[thread[c].task].usage \in UsageOf(thread[c])
    /\ thread[c].op = "cancel" => task[thread[c].task].usage # None

Ended == {"completed", "cancelled"}

Writing(c) == Serving(c) /\ thread[c].pc \in {"open", "start", "generate", "piece"}

\* An answer that was completed and that nobody can make fail any more.
Delivered(t) ==
  /\ task[t].status \in Ended
  /\ \A c \in Requests : Writing(c) => thread[c].task # t

ChargesDelivered ==
  /\ \A c \in Requests :
       thread[c].pc \in {"append", "settle"} => task[thread[c].task].status \in Ended
  /\ \A u \in Usages : charge[u] = "charged" =>
       \E t \in Tasks : task[t].usage = u /\ Delivered(t)

\* Until a save undoes it, a claim holds its question and the session.
ClaimsHold ==
  ~undone => \A c \in Requests : thread[c].op = "auto" =>
    /\ active = thread[c].question
    /\ candidate[thread[c].question].answer =
         IF thread[c].bound THEN thread[c].task ELSE Claim(thread[c].task)

Written(t, q) == task[t].usage = <<"auto", q>> /\ task[t].status \in {"streaming", "completed"}

WrittenAreBound ==
  ~undone => \A t \in Tasks, q \in Questions : Written(t, q) => candidate[q].answer = t

AnswersInv ==
  Shapes /\ SavedAreReserved /\ TasksApart /\ Named /\ ChargesDelivered /\ ClaimsHold
    /\ WrittenAreBound
-----------------------------------------------------------------------------
(* What one assignment does                                                *)

(* A claim is neither a task nor nothing.                                  *)
LEMMA ClaimsAreApart ==
  ASSUME NEW t \in Tasks
  PROVE  /\ Claim(t) \notin Tasks /\ Claim(t) # None
         /\ \A x \in Tasks : Claim(t) = Claim(x) => t = x
BY ConstantsAssumption, SMT DEF Claim

(* The idle record has the type of a call.                                 *)
LEMMA IdleIsCall == Idle \in Calls /\ Placed(Idle)
<1>1. NoCandidate \in Candidates
  BY SMT DEF NoCandidate, Candidates, Answers
<1> QED
  BY <1>1, SMT DEF Idle, Calls, Placed, Savers, Answerers

(* One thread goes to a sound place and the others stay.                   *)
LEMMA OneMoves ==
  ASSUME Shapes, NEW c \in Requests, NEW r \in Calls, Placed(r), Goes(c, r)
  PROVE  /\ thread' \in [Requests -> Calls] /\ \A d \in Requests : Placed(thread'[d])
         /\ thread'[c] = r /\ \A d \in Requests \ {c} : thread'[d] = thread[d]
BY SMT DEF Shapes, Goes

(* A thread that only goes on keeps what it knows.                         *)
LEMMA GoingOn ==
  ASSUME Shapes, NEW c \in Requests,
         NEW p \in {"piece", "append", "settle", "release", "generate"}, GoesOn(c, p),
         thread[c].op \in Answerers \cup {"cancel"}, thread[c].pc \notin {"open", "start"},
         thread[c].op = "cancel" => p = "release"
  PROVE  \E r \in Calls : /\ Goes(c, r) /\ Placed(r) /\ r.pc = p
                          /\ r.op = thread[c].op /\ r.question = thread[c].question
                          /\ r.task = thread[c].task /\ r.bound = thread[c].bound
<1> DEFINE r == [thread[c] EXCEPT !.pc = p]
<1>1. thread[c] \in Calls /\ Placed(thread[c])
  BY DEF Shapes
<1>2. /\ r \in Calls /\ r.pc = p /\ r.op = thread[c].op /\ r.question = thread[c].question
      /\ r.task = thread[c].task /\ r.bound = thread[c].bound
  BY <1>1, SMT DEF Calls
<1>3. Goes(c, r)
  BY DEF GoesOn
<1> HIDE DEF r
<1>4. Placed(r)
  BY <1>1, <1>2, SMT DEF Placed, Answerers, Savers
<1> QED
  BY <1>2, <1>3, <1>4

(* What saving a task's status does: what has ended stays so.              *)
LEMMA SavingStatus ==
  ASSUME Shapes, NEW t \in Tasks, NEW s \in Statuses \ {"none"}, SaveTask(t, s),
         task[t].status # "none"
  PROVE  /\ task' \in [Tasks -> [status : Statuses, usage : Usages \cup {None}]]
         /\ \A x \in Tasks : task'[x].usage = task[x].usage
         /\ \A x \in Tasks \ {t} : task'[x] = task[x]
         /\ task'[t].status # "none"
         /\ s \in Finished => task'[t].status = s
         /\ task[t].status \in Finished => task'[t].status \in Finished
         /\ task'[t].status = task[t].status \/ task'[t].status = s
BY SMT DEF Shapes, SaveTask, Finished, Statuses

(* A question with another answer is a question.                           *)
LEMMA AnotherAnswer ==
  ASSUME NEW k \in Candidates, NEW x \in Answers
  PROVE  [k EXCEPT !.answer = x] \in Candidates /\ [k EXCEPT !.answer = x].answer = x
BY Zenon DEF Candidates

(* What setting a question's answer does.                                  *)
LEMMA SettingAnswer ==
  ASSUME candidate \in [Questions -> Candidates], NEW q \in Questions, NEW x \in Answers,
         candidate' = [candidate EXCEPT ![q].answer = x]
  PROVE  /\ candidate' \in [Questions -> Candidates] /\ candidate'[q].answer = x
         /\ \A p \in Questions \ {q} : candidate'[p].answer = candidate[p].answer
<1> DEFINE k == [candidate[q] EXCEPT !.answer = x]
<1>0. candidate[q] \in Candidates
  OBVIOUS
<1>1. k \in Candidates /\ k.answer = x
  BY <1>0, AnotherAnswer
<1>2. candidate' = [candidate EXCEPT ![q] = k]
  BY Zenon
<1> HIDE DEF k
<1> QED
  BY <1>1, <1>2, SMT

(* What letting a claim go does.                                           *)
LEMMA LettingGo ==
  ASSUME Shapes, NEW c \in Requests, LetGo(c)
  PROVE  /\ active' \in Questions \cup {None} /\ candidate' \in [Questions -> Candidates]
         /\ thread[c].op # "auto" => candidate' = candidate /\ active' = active
         /\ \A q \in Questions : \/ candidate'[q].answer = candidate[q].answer
                                 \/ /\ candidate[q].answer = Claim(thread[c].task)
                                    /\ thread[c].op = "auto"
<1> DEFINE q == thread[c].question
<1>1. CASE thread[c].op # "auto" \/ ~(thread[c].bound \/ candidate[q].answer = Claim(thread[c].task))
  <2>1. candidate' = candidate /\ active' = active
    BY <1>1, SMT DEF LetGo
  <2> QED
    BY <2>1, SMT DEF Shapes
<1>2. CASE thread[c].op = "auto" /\ (thread[c].bound \/ candidate[q].answer = Claim(thread[c].task))
  <2>1. q \in Questions
    BY <1>2, SMT DEF Shapes, Placed
  <2>2. active' = IF active = q THEN None ELSE active
    BY <1>2, SMT DEF LetGo
  <2>3. CASE thread[c].bound
    <3>1. candidate' = candidate
      BY <1>2, <2>3, SMT DEF LetGo
    <3> QED
      BY <1>2, <2>1, <2>2, <3>1, SMT DEF Shapes
  <2>4. CASE ~thread[c].bound
    <3>1. candidate' = [candidate EXCEPT ![q].answer = None]
      BY <1>2, <2>4, SMT DEF LetGo
    <3>2. candidate[q].answer = Claim(thread[c].task)
      BY <1>2, <2>4
    <3>3. candidate \in [Questions -> Candidates]
      BY DEF Shapes
    <3> HIDE DEF q
    <3>4. /\ candidate' \in [Questions -> Candidates]
          /\ \A p \in Questions \ {q} : candidate'[p].answer = candidate[p].answer
      BY <2>1, <3>1, <3>3, SettingAnswer DEF Answers
    <3> QED
      BY <1>2, <2>1, <2>2, <3>2, <3>4, SMT DEF Shapes
  <2> QED
    BY <2>3, <2>4
<1> QED
  BY <1>1, <1>2

-----------------------------------------------------------------------------
(* What one step must see to for each part of the invariant                *)

(* Threads stay apart if the one that moves keeps its task or takes one    *)
(* that is nobody's.                                                       *)
LEMMA StillApart ==
  ASSUME Shapes, TasksApart, NEW c \in Requests, NEW r \in Calls, Placed(r), Goes(c, r),
         r.op \in Answerers =>
           \/ Serving(c) /\ r.task = thread[c].task
           \/ \A d \in Requests : thread[d].task # r.task
  PROVE  TasksApart'
<1>1. thread'[c] = r /\ \A d \in Requests \ {c} : thread'[d] = thread[d]
  BY OneMoves
<1> QED
  BY <1>1, SMT DEF TasksApart, Serving

(* The other threads' tasks keep their names if a task that changes has    *)
(* one already, or is theirs in no way.                                    *)
LEMMA StillNamed ==
  ASSUME Shapes, Named, NEW c \in Requests, NEW r \in Calls, Placed(r), Goes(c, r),
         \A t \in Tasks :
           \/ task'[t] = task[t]
           \/ task[t].usage # None /\ task'[t].usage = task[t].usage
           \/ \A d \in Requests \ {c} : thread[d].task # t,
         r.pc = "open" => task'[r.task] = NoTask,
         r.op \in Answerers /\ r.pc # "open" => task'[r.task].usage \in UsageOf(r),
         r.op = "cancel" => task'[r.task].usage # None
  PROVE  Named'
<1>1. thread'[c] = r /\ \A d \in Requests \ {c} : thread'[d] = thread[d]
  BY OneMoves
<1> SUFFICES ASSUME NEW d \in Requests
             PROVE  /\ thread'[d].pc = "open" => task'[thread'[d].task] = NoTask
                    /\ thread'[d].op \in Answerers /\ thread'[d].pc # "open"
                         => task'[thread'[d].task].usage \in UsageOf(thread'[d])
                    /\ thread'[d].op = "cancel" => task'[thread'[d].task].usage # None
  BY SMT DEF Named, Serving, UsageOf
<1>2. CASE d = c
  BY <1>1, <1>2
<1>3. CASE d # c
  <2>1. thread'[d] = thread[d]
    BY <1>1, <1>3
  <2>2. Placed(thread[d])
    BY DEF Shapes
  <2>3. CASE thread[d].op \in Answerers \cup {"cancel"}
    <3>1. thread[d].task \in Tasks
      BY <2>2, <2>3 DEF Placed
    <3>2. \/ task'[thread[d].task] = task[thread[d].task]
          \/ /\ task[thread[d].task].usage # None
             /\ task'[thread[d].task].usage = task[thread[d].task].usage
      BY <1>3, <3>1
    <3>3. task[thread[d].task] = NoTask => task[thread[d].task].usage = None
      BY DEF NoTask
    <3> QED
      BY <2>1, <3>2, <3>3 DEF Named, Serving
  <2>4. CASE thread[d].op \notin Answerers \cup {"cancel"}
    <3>1. thread[d].pc # "open"
      BY <2>2, <2>4, SMT DEF Placed, Answerers
    <3> QED
      BY <2>1, <2>4, <3>1
  <2> QED
    BY <2>3, <2>4
<1> QED
  BY <1>2, <1>3

(* What is charged stays delivered if nobody begins to write what has      *)
(* ended, and only the thread that writes it can make an answer fail.      *)
LEMMA StillDelivered ==
  ASSUME Shapes, TasksApart, ChargesDelivered,
         NEW c \in Requests, NEW r \in Calls, Placed(r), Goes(c, r),
         \A t \in Tasks : task[t].status \in Ended =>
           /\ task'[t].usage = task[t].usage
           /\ task'[t].status \in Ended \/ (Writing(c) /\ thread[c].task = t),
         r.op \in Answerers /\ r.pc \in {"open", "start", "generate", "piece"} =>
           (Writing(c) /\ r.task = thread[c].task) \/ task[r.task].status \notin Ended,
         r.pc \in {"append", "settle"} => task'[r.task].status \in Ended,
         \A u \in Usages : charge'[u] = "charged" =>
           charge[u] = "charged" \/ \E t \in Tasks : task'[t].usage = u /\ Delivered(t)'
  PROVE  ChargesDelivered'
<1>1. thread'[c] = r /\ \A d \in Requests \ {c} : thread'[d] = thread[d]
  BY OneMoves
<1>2. ASSUME NEW d \in Requests, thread'[d].pc \in {"append", "settle"}
      PROVE  task'[thread'[d].task].status \in Ended
  <2>1. CASE d = c
    BY <1>1, <1>2, <2>1
  <2>2. CASE d # c
    <3>1. thread'[d] = thread[d] /\ thread[d].pc \in {"append", "settle"} /\ Placed(thread[d])
      BY <1>1, <1>2, <2>2 DEF Shapes
    <3>2. Serving(d) /\ thread[d].task \in Tasks
      <4>1. thread[d] \in Calls
        BY DEF Shapes
      <4> QED
        BY <3>1, <4>1, SMT DEF Placed, Serving, Savers, Answerers, Calls
    <3>3. ~(Writing(c) /\ thread[c].task = thread[d].task)
      BY <2>2, <3>2 DEF TasksApart, Writing
    <3>4. task[thread[d].task].status \in Ended
      BY <3>1 DEF ChargesDelivered
    <3> QED
      BY <3>1, <3>2, <3>3, <3>4
  <2> QED
    BY <2>1, <2>2
<1>3. ASSUME NEW t \in Tasks, Delivered(t)
      PROVE  Delivered(t)' /\ task'[t].usage = task[t].usage
  <2>1. task[t].status \in Ended /\ ~(Writing(c) /\ thread[c].task = t)
    BY <1>3 DEF Delivered
  <2>2. task'[t].status \in Ended /\ task'[t].usage = task[t].usage
    BY <2>1
  <2>3. ASSUME NEW d \in Requests, Writing(d)' PROVE thread'[d].task # t
    <3>1. CASE d = c
      BY <1>1, <2>1, <2>3, <3>1 DEF Writing, Serving
    <3>2. CASE d # c
      BY <1>1, <1>3, <2>3, <3>2 DEF Writing, Serving, Delivered
    <3> QED
      BY <3>1, <3>2
  <2> QED
    BY <2>2, <2>3 DEF Delivered
<1>4. ASSUME NEW u \in Usages, charge'[u] = "charged"
      PROVE  \E t \in Tasks : task'[t].usage = u /\ Delivered(t)'
  BY <1>3, <1>4 DEF ChargesDelivered
<1> QED
  BY <1>2, <1>4 DEF ChargesDelivered

(* While no claim was undone there is one thread that answers by itself.   *)
LEMMA OneByItself ==
  ASSUME Shapes, TasksApart, ClaimsHold, ~undone, NEW c \in Requests, NEW d \in Requests,
         thread[c].op = "auto", thread[d].op = "auto"
  PROVE  c = d
<1> DEFINE q == thread[c].question
           x == candidate[q].answer
<1>1. /\ thread[c].question = thread[d].question
      /\ x = IF thread[c].bound THEN thread[c].task ELSE Claim(thread[c].task)
      /\ x = IF thread[d].bound THEN thread[d].task ELSE Claim(thread[d].task)
  BY SMT DEF ClaimsHold
<1>2. thread[c].task \in Tasks /\ thread[d].task \in Tasks
  BY SMT DEF Shapes, Placed, Answerers
<1> HIDE DEF x
<1>3. thread[c].task = thread[d].task
  BY <1>1, <1>2, ClaimsAreApart
<1> QED
  BY <1>3 DEF TasksApart, Serving, Answerers

(* Claims hold if the other threads' questions are left as they are.       *)
LEMMA ClaimsStillHold ==
  ASSUME Shapes, ClaimsHold, NEW c \in Requests, NEW r \in Calls, Placed(r), Goes(c, r),
         ~undone' => ~undone,
         \A d \in Requests \ {c} : ~undone' /\ thread[d].op = "auto" =>
           /\ active' = active
           /\ candidate'[thread[d].question].answer = candidate[thread[d].question].answer,
         ~undone' /\ r.op = "auto" =>
           /\ active' = r.question
           /\ candidate'[r.question].answer = IF r.bound THEN r.task ELSE Claim(r.task)
  PROVE  ClaimsHold'
<1>1. thread'[c] = r /\ \A d \in Requests \ {c} : thread'[d] = thread[d]
  BY OneMoves
<1> SUFFICES ASSUME ~undone', NEW d \in Requests, thread'[d].op = "auto"
             PROVE  /\ active' = thread'[d].question
                    /\ candidate'[thread'[d].question].answer =
                         IF thread'[d].bound THEN thread'[d].task ELSE Claim(thread'[d].task)
  BY SMT DEF ClaimsHold, Claim
<1>2. CASE d = c
  BY <1>1, <1>2
<1>3. CASE d # c
  BY <1>1, <1>3 DEF ClaimsHold
<1> QED
  BY <1>2, <1>3

(* What is written is bound if what begins to be written is, and nothing   *)
(* that is bound is taken away.                                            *)
LEMMA StillBound ==
  ASSUME WrittenAreBound, ~undone' => ~undone,
         \A t \in Tasks, q \in Questions : ~undone' /\ Written(t, q)' =>
           \/ candidate'[q].answer = t
           \/ Written(t, q) /\ (candidate[q].answer = t => candidate'[q].answer = t)
  PROVE  WrittenAreBound'
BY DEF WrittenAreBound

-----------------------------------------------------------------------------
(* The steps of a thread                                                   *)

(* A thread that returns takes its claim along, or leaves it; its task is  *)
(* charged only as a delivered one.                                        *)
LEMMA ReturnKeeps ==
  ASSUME AnswersInv, NEW c \in Requests, Returns(c), UNCHANGED <<live, auto, undone, task, known>>,
         LetGo(c) \/ UNCHANGED <<candidate, active>>,
         charge' \in [Usages -> U!States],
         \A u \in Usages : /\ charge[u] # "open" => charge'[u] # "open"
                           /\ charge'[u] = "charged" => charge[u] = "charged"
                                \/ /\ thread[c].pc \in {"append", "settle"}
                                   /\ u = task[thread[c].task].usage
  PROVE  AnswersInv'
<1> USE DEF AnswersInv
<1>1. Idle \in Calls /\ Placed(Idle) /\ Goes(c, Idle)
  BY IdleIsCall DEF Returns
<1>2. /\ thread' \in [Requests -> Calls] /\ \A d \in Requests : Placed(thread'[d])
      /\ thread'[c] = Idle /\ \A d \in Requests \ {c} : thread'[d] = thread[d]
  BY <1>1, OneMoves
<1>3. /\ active' \in Questions \cup {None} /\ candidate' \in [Questions -> Candidates]
      /\ thread[c].op # "auto" => candidate' = candidate /\ active' = active
      /\ \A q \in Questions : \/ candidate'[q].answer = candidate[q].answer
                              \/ /\ candidate[q].answer = Claim(thread[c].task)
                                 /\ thread[c].op = "auto"
  <2>1. CASE LetGo(c)
    BY <2>1, LettingGo
  <2>2. CASE UNCHANGED <<candidate, active>>
    BY <2>2 DEF Shapes
  <2> QED
    BY <2>1, <2>2
<1>4. Shapes'
  BY <1>2, <1>3 DEF Shapes
<1>5. SavedAreReserved'
  BY SMT DEF SavedAreReserved, Shapes
<1>6. Idle.op = "none" /\ Idle.pc = "idle"
  BY DEF Idle
<1>7. TasksApart'
  BY <1>1, <1>6, StillApart DEF Answerers
<1>8. Named'
  BY <1>1, <1>6, StillNamed DEF Answerers
<1>9. ChargesDelivered'
  <2>1. ASSUME NEW u \in Usages, charge'[u] = "charged", charge[u] # "charged"
        PROVE  \E t \in Tasks : task'[t].usage = u /\ Delivered(t)'
    <3>1. thread[c].pc \in {"append", "settle"} /\ u = task[thread[c].task].usage
      BY <2>1
    <3>2. Serving(c) /\ thread[c].task \in Tasks
      BY <3>1, SMT DEF Shapes, Placed, Serving, Calls, Savers, Answerers
    <3> PICK t \in Tasks : t = thread[c].task
      BY <3>2
    <3>3. task[t].status \in Ended
      BY <3>1 DEF ChargesDelivered
    <3>4. ASSUME NEW d \in Requests, Writing(d)' PROVE thread'[d].task # t
      <4>1. d # c
        BY <1>2, <1>6, <3>4 DEF Writing, Serving, Answerers
      <4>2. Serving(d)
        BY <1>2, <3>4, <4>1 DEF Writing, Serving
      <4> QED
        BY <1>2, <3>2, <4>1, <4>2 DEF TasksApart
    <3>5. Delivered(t)'
      BY <3>3, <3>4 DEF Delivered
    <3> QED
      BY <3>1, <3>2, <3>5
  <2> QED
    BY <1>1, <1>6, <2>1, StillDelivered DEF Answerers
<1>10. ClaimsHold'
  <2>1. ASSUME NEW d \in Requests \ {c}, ~undone, thread[d].op = "auto"
        PROVE  candidate' = candidate /\ active' = active
    BY <1>3, <2>1, OneByItself
  <2> QED
    BY <1>1, <1>6, <2>1, ClaimsStillHold
<1>11. WrittenAreBound'
  <2>1. ASSUME NEW t \in Tasks, NEW q \in Questions, candidate[q].answer = t
        PROVE  candidate'[q].answer = t
    <3>1. thread[c].op = "auto" => thread[c].task \in Tasks
      BY SMT DEF Shapes, Placed, Answerers
    <3> QED
      BY <1>3, <2>1, <3>1, ClaimsAreApart
  <2> QED
    BY <2>1, StillBound DEF Written
<1> QED
  BY <1>4, <1>5, <1>7, <1>8, <1>9, <1>10, <1>11

(* Points that are given back were held.                                   *)
LEMMA GivingBack ==
  ASSUME Shapes, NEW u \in Usages \cup {None}, GiveBack(u), u # None
  PROVE  /\ charge' \in [Usages -> U!States]
         /\ \A x \in Usages : /\ charge[x] # "open" => charge'[x] # "open"
                              /\ charge'[x] = "charged" => charge[x] = "charged"
<1>1. charge \in [Usages -> U!States]
  BY DEF Shapes
<1>2. CASE charge[u] = "held"
  <2>1. charge' = [x \in Usages |-> IF x \in {u} THEN "waived" ELSE charge[x]]
    BY <1>2 DEF GiveBack, U!Waive
  <2> QED
    BY <1>1, <1>2, <2>1, SMT DEF U!States
<1>3. CASE charge[u] # "held"
  BY <1>1, <1>3, SMT DEF GiveBack
<1> QED
  BY <1>2, <1>3

(* A thread that goes on without touching anything else.                   *)
LEMMA GoingOnKeeps ==
  ASSUME AnswersInv, NEW c \in Requests,
         UNCHANGED <<live, auto, undone, candidate, active, task, known, charge>>,
         \/ thread[c].pc = "generate" /\ GoesOn(c, "piece")
         \/ thread[c].pc = "append" /\ GoesOn(c, "settle")
  PROVE  AnswersInv'
<1> USE DEF AnswersInv
<1>1. Serving(c)
  BY SMT DEF Shapes, Placed, Serving, Calls, Savers, Answerers
<1>2. PICK p \in {"piece", "settle"} : GoesOn(c, p) /\ (p = "piece" <=> thread[c].pc = "generate")
                                         /\ thread[c].pc \in {"generate", "append"}
  OBVIOUS
<1>3. PICK r \in Calls : /\ Goes(c, r) /\ Placed(r) /\ r.pc = p
                         /\ r.op = thread[c].op /\ r.question = thread[c].question
                         /\ r.task = thread[c].task /\ r.bound = thread[c].bound
  <2>1. /\ thread[c].op \in Answerers \cup {"cancel"} /\ thread[c].pc \notin {"open", "start"}
        /\ thread[c].op # "cancel"
    BY <1>1, <1>2 DEF Serving, Answerers
  <2> QED
    BY <1>2, <2>1, GoingOn
<1>4. thread' \in [Requests -> Calls] /\ \A d \in Requests : Placed(thread'[d])
  BY <1>3, OneMoves
<1>5. Shapes'
  BY <1>4 DEF Shapes
<1>6. SavedAreReserved'
  BY DEF SavedAreReserved
<1>7. TasksApart'
  BY <1>1, <1>3, StillApart
<1>8. Named'
  <2>1. task[r.task].usage \in UsageOf(r)
    BY <1>1, <1>2, <1>3 DEF Named, UsageOf
  <2>2. r.op # "cancel"
    BY <1>1, <1>3 DEF Serving, Answerers
  <2> QED
    BY <1>2, <1>3, <2>1, <2>2, StillNamed
<1>9. ChargesDelivered'
  <2>1. r.pc = "piece" => Writing(c)
    BY <1>1, <1>2, <1>3 DEF Writing
  <2>2. r.pc = "settle" => task[r.task].status \in Ended
    BY <1>2, <1>3 DEF ChargesDelivered
  <2> QED
    BY <1>2, <1>3, <2>1, <2>2, StillDelivered
<1>10. ClaimsHold'
  <2>1. ~undone /\ r.op = "auto" =>
          /\ active = r.question
          /\ candidate[r.question].answer = IF r.bound THEN r.task ELSE Claim(r.task)
    BY <1>3 DEF ClaimsHold
  <2> QED
    BY <1>3, <2>1, ClaimsStillHold
<1>11. WrittenAreBound'
  BY StillBound DEF Written
<1> QED
  BY <1>5, <1>6, <1>7, <1>8, <1>9, <1>10, <1>11

(* A thread that saves a status and goes on: a piece of text, completion,  *)
(* failure and cancellation.                                               *)
LEMMA SavingKeeps ==
  ASSUME AnswersInv, NEW c \in Requests, SavePiece(c) \/ CompleteTask(c) \/ FailTask(c) \/ CancelTask(c)
  PROVE  AnswersInv'
<1> USE DEF AnswersInv
<1> PICK s \in Statuses \ {"none"}, p \in {"generate", "append", "release"}, t \in Tasks :
      /\ t = thread[c].task
      /\ SaveTask(t, s) /\ GoesOn(c, p)
      /\ UNCHANGED <<live, auto, undone, candidate, active, known, charge>>
      /\ \/ Writing(c) /\ thread[c].pc \notin {"open", "start"} /\ thread[c].op # "cancel"
            /\ s \in {"streaming", "completed", "failed"}
         \/ thread[c].op = "cancel" /\ s = "cancelled" /\ p = "release"
      /\ p = "append" => s = "completed"
      /\ p = "generate" => Writing(c)
  <2>1. thread[c] \in Calls /\ Placed(thread[c])
    BY DEF Shapes
  <2>2. CASE SavePiece(c)
    <3>1. thread[c].pc = "piece" /\ SaveTask(thread[c].task, "streaming") /\ GoesOn(c, "generate")
          /\ UNCHANGED <<live, auto, undone, candidate, active, known, charge>>
      BY <2>2 DEF SavePiece, At, session
    <3>2. thread[c].op \in Answerers /\ thread[c].task \in Tasks
      BY <2>1, <3>1, SMT DEF Calls, Placed, Savers, Answerers
    <3> QED
      BY <3>1, <3>2 DEF Statuses, Writing, Serving, Answerers
  <2>3. CASE CompleteTask(c)
    <3>1. thread[c].pc = "generate" /\ SaveTask(thread[c].task, "completed") /\ GoesOn(c, "append")
          /\ UNCHANGED <<live, auto, undone, candidate, active, known, charge>>
      BY <2>3 DEF CompleteTask, At, session
    <3>2. thread[c].op \in Answerers /\ thread[c].task \in Tasks
      BY <2>1, <3>1, SMT DEF Calls, Placed, Savers, Answerers
    <3> QED
      BY <3>1, <3>2 DEF Statuses, Finished, Writing, Serving, Answerers
  <2>4. CASE FailTask(c)
    <3>1. thread[c].pc = "generate" /\ SaveTask(thread[c].task, "failed") /\ GoesOn(c, "release")
          /\ UNCHANGED <<live, auto, undone, candidate, active, known, charge>>
      BY <2>4 DEF FailTask, At, session
    <3>2. thread[c].op \in Answerers /\ thread[c].task \in Tasks
      BY <2>1, <3>1, SMT DEF Calls, Placed, Savers, Answerers
    <3> QED
      BY <3>1, <3>2 DEF Statuses, Finished, Writing, Serving, Answerers
  <2>5. CASE CancelTask(c)
    <3>1. thread[c].pc = "cancel" /\ SaveTask(thread[c].task, "cancelled") /\ GoesOn(c, "release")
          /\ UNCHANGED <<live, auto, undone, candidate, active, known, charge>>
      BY <2>5 DEF CancelTask, At, session
    <3>2. thread[c].op = "cancel" /\ thread[c].task \in Tasks
      BY <2>1, <3>1, SMT DEF Calls, Placed, Savers, Answerers
    <3> QED
      BY <3>1, <3>2 DEF Statuses, Finished
  <2> QED
    BY <2>2, <2>3, <2>4, <2>5
<1>1. task[t].usage # None /\ task[t].status # "none"
  <2>1. thread[c].op = "cancel" => task[t].usage # None
    BY DEF Named
  <2>2. Writing(c) => task[t].usage # None
    <3>1. SUFFICES ASSUME Writing(c) PROVE task[t].usage # None
      OBVIOUS
    <3>2. task[t].usage \in UsageOf(thread[c])
      BY <3>1 DEF Named, Writing, Serving, Answerers
    <3>3. thread[c].op = "auto" => thread[c].question \in Questions
      BY DEF Shapes, Placed
    <3> QED
      BY <3>2, <3>3, ConstantsAssumption DEF UsageOf, Usages
  <2> QED
    BY <2>1, <2>2 DEF SavedAreReserved
<1>2. PICK r \in Calls : /\ Goes(c, r) /\ Placed(r) /\ r.pc = p
                         /\ r.op = thread[c].op /\ r.question = thread[c].question
                         /\ r.task = t /\ r.bound = thread[c].bound
  <2>1. /\ thread[c].op \in Answerers \cup {"cancel"} /\ thread[c].pc \notin {"open", "start"}
        /\ thread[c].op = "cancel" => p = "release"
    BY SMT DEF Shapes, Placed, Writing, Serving
  <2> QED
    BY <2>1, GoingOn
<1>3. /\ task' \in [Tasks -> [status : Statuses, usage : Usages \cup {None}]]
      /\ \A x \in Tasks : task'[x].usage = task[x].usage
      /\ \A x \in Tasks \ {t} : task'[x] = task[x]
      /\ task'[t].status # "none"
      /\ s \in Finished => task'[t].status = s
      /\ task'[t].status = task[t].status \/ task'[t].status = s
  BY <1>1, SavingStatus
<1>4. thread' \in [Requests -> Calls] /\ \A d \in Requests : Placed(thread'[d])
  BY <1>2, OneMoves
<1>5. Shapes'
  BY <1>3, <1>4 DEF Shapes
<1>6. SavedAreReserved'
  BY <1>1, <1>3, SMT DEF SavedAreReserved
<1>7. TasksApart'
  BY <1>2, StillApart DEF Serving
<1>8. Named'
  <2>1. r.op \in Answerers => task'[t].usage \in UsageOf(r)
    <3>1. CASE r.op \in Answerers
      <4>1. task[t].usage \in UsageOf(thread[c])
        BY <1>2, <3>1 DEF Named, Serving, Answerers, Writing
      <4> QED
        BY <1>2, <1>3, <4>1 DEF UsageOf
    <3> QED
      BY <3>1
  <2> QED
    BY <1>1, <1>2, <1>3, <2>1, StillNamed
<1>9. ChargesDelivered'
  <2>1. ASSUME NEW x \in Tasks, task[x].status \in Ended
        PROVE  /\ task'[x].usage = task[x].usage
               /\ task'[x].status \in Ended \/ (Writing(c) /\ thread[c].task = x)
    <3>1. CASE x # t
      BY <1>3, <2>1, <3>1
    <3>2. CASE x = t
      BY <1>3, <2>1, <3>2 DEF Ended
    <3> QED
      BY <3>1, <3>2
  <2>2. r.pc \in {"append", "settle"} => task'[t].status \in Ended
    BY <1>2, <1>3 DEF Ended, Finished
  <2>3. r.pc \in {"open", "start", "generate", "piece"} => Writing(c)
    BY <1>2
  <2> QED
    BY <1>2, <2>1, <2>2, <2>3, StillDelivered
<1>10. ClaimsHold'
  <2>1. ~undone /\ r.op = "auto" =>
          /\ active = r.question
          /\ candidate[r.question].answer = IF r.bound THEN r.task ELSE Claim(r.task)
    BY <1>2 DEF ClaimsHold
  <2> QED
    BY <1>2, <2>1, ClaimsStillHold
<1>11. WrittenAreBound'
  <2>1. ASSUME ~undone, NEW x \in Tasks, NEW q \in Questions, Written(x, q)'
        PROVE  candidate[q].answer = x \/ Written(x, q)
    <3>1. CASE x # t \/ task'[t].status = task[t].status
      BY <1>3, <2>1, <3>1 DEF Written
    <3>2. CASE x = t /\ task'[t].status # task[t].status
      <4>1. task'[t].status = s /\ s \in {"streaming", "completed"}
        BY <1>3, <2>1, <3>2 DEF Written
      <4>2. Writing(c) /\ thread[c].pc \notin {"open", "start"}
        BY <4>1
      <4>3. task[t].usage \in UsageOf(thread[c]) /\ task[t].usage = <<"auto", q>>
        BY <1>3, <2>1, <3>2, <4>2 DEF Named, Writing, Written
      <4>4. thread[c].op = "auto" /\ thread[c].question = q
        BY <4>3, SMT DEF UsageOf
      <4>5. thread[c].bound
        BY <4>2, <4>4 DEF Shapes, Placed
      <4> QED
        BY <2>1, <3>2, <4>4, <4>5 DEF ClaimsHold
    <3> QED
      BY <3>1, <3>2
  <2> QED
    BY <2>1, StillBound
<1> QED
  BY <1>5, <1>6, <1>7, <1>8, <1>9, <1>10, <1>11

(* The first event of a stream: the task is being written, and takes the   *)
(* place of its claim.                                                     *)
LEMMA StartKeeps ==
  ASSUME AnswersInv, NEW c \in Requests, StartAnswer(c)
  PROVE  AnswersInv'
<1> USE DEF AnswersInv
<1>0. thread[c] \in Calls /\ Placed(thread[c])
  BY DEF Shapes
<1>1. /\ thread[c].pc = "start" /\ SaveTask(thread[c].task, "streaming")
      /\ UNCHANGED <<live, auto, undone, active, known, charge>>
  BY DEF StartAnswer, At, session
<1>2. thread[c].op \in Answerers /\ thread[c].task \in Tasks /\ thread[c].op # "cancel"
  BY <1>0, <1>1, SMT DEF Placed, Calls, Savers, Answerers
<1> PICK t \in Tasks : t = thread[c].task
  BY <1>2
<1>3. PICK r \in Calls : /\ Goes(c, r) /\ Placed(r) /\ r.pc = "generate"
                         /\ r.op = thread[c].op /\ r.question = thread[c].question
                         /\ r.task = t /\ (r.bound <=> r.op = "auto")
  <2> DEFINE b == thread[c].op = "auto"
             r == [thread[c] EXCEPT !.pc = "generate", !.bound = b]
  <2>1. Goes(c, r)
    BY DEF StartAnswer
  <2>2. b \in BOOLEAN /\ (b <=> thread[c].op = "auto")
    OBVIOUS
  <2> HIDE DEF b
  <2>3. /\ r \in Calls /\ r.pc = "generate" /\ r.op = thread[c].op /\ (r.bound <=> b)
        /\ r.question = thread[c].question /\ r.task = thread[c].task
    <3>1. r \in Calls
      BY <1>0, <2>2, Zenon DEF Calls
    <3>2. r.pc = "generate" /\ r.op = thread[c].op /\ r.question = thread[c].question
          /\ r.task = thread[c].task
      BY <1>0, SMT DEF Calls
    <3>3. r.bound <=> b
      BY <1>0, Zenon DEF Calls
    <3> QED
      BY <3>1, <3>2, <3>3
  <2> HIDE DEF r
  <2>4. Placed(r)
    BY <1>0, <1>2, <2>2, <2>3, SMT DEF Placed, Answerers, Savers
  <2> QED
    BY <2>1, <2>2, <2>3, <2>4
<1>4. /\ task[t].status # "none" /\ task[t].usage # None
      /\ task[t].usage \in UsageOf(thread[c])
  <2>1. task[t].usage \in UsageOf(thread[c])
    BY <1>1, <1>2 DEF Named, Serving
  <2>2. thread[c].op = "auto" => thread[c].question \in Questions
    BY <1>0 DEF Placed
  <2>3. task[t].usage # None
    BY <2>1, <2>2, ConstantsAssumption DEF UsageOf, Usages
  <2> QED
    BY <2>1, <2>3 DEF SavedAreReserved
<1>5. /\ task' \in [Tasks -> [status : Statuses, usage : Usages \cup {None}]]
      /\ \A x \in Tasks : task'[x].usage = task[x].usage
      /\ \A x \in Tasks \ {t} : task'[x] = task[x]
      /\ task'[t].status # "none"
      /\ task[t].status \in Finished => task'[t].status \in Finished
      /\ task'[t].status = task[t].status \/ task'[t].status = "streaming"
  BY <1>1, <1>4, SavingStatus DEF Statuses
<1>6. /\ candidate' \in [Questions -> Candidates]
      /\ \A p \in Questions : \/ candidate'[p].answer = candidate[p].answer
                              \/ /\ r.op = "auto" /\ p = r.question
                                 /\ candidate[p].answer = Claim(t)
      /\ r.op = "auto" /\ candidate[r.question].answer = Claim(t) => candidate'[r.question].answer = t
  <2> PICK q : q = thread[c].question
    OBVIOUS
  <2>1. CASE thread[c].op = "auto" /\ candidate[q].answer = Claim(t)
    <3>1. candidate' = [candidate EXCEPT ![q].answer = t] /\ q \in Questions
      BY <1>0, <2>1 DEF StartAnswer, Placed
    <3>2. candidate \in [Questions -> Candidates] /\ t \in Answers
      BY DEF Shapes, Answers
    <3> QED
      BY <1>3, <2>1, <3>1, <3>2, SettingAnswer
  <2>2. CASE ~(thread[c].op = "auto" /\ candidate[q].answer = Claim(t))
    <3>1. candidate' = candidate
      BY <2>2 DEF StartAnswer
    <3> QED
      BY <1>3, <2>2, <3>1 DEF Shapes
  <2> QED
    BY <2>1, <2>2
<1>7. thread' \in [Requests -> Calls] /\ \A d \in Requests : Placed(thread'[d])
  BY <1>3, OneMoves
<1>8. Shapes'
  BY <1>1, <1>5, <1>6, <1>7 DEF Shapes
<1>9. SavedAreReserved'
  BY <1>1, <1>4, <1>5, SMT DEF SavedAreReserved
<1>10. TasksApart'
  BY <1>2, <1>3, StillApart DEF Serving
<1>11. Named'
  <2>1. task'[t].usage \in UsageOf(r)
    BY <1>3, <1>4, <1>5 DEF UsageOf
  <2> QED
    BY <1>2, <1>3, <1>4, <1>5, <2>1, StillNamed
<1>12. ChargesDelivered'
  <2>1. Writing(c)
    BY <1>1, <1>2 DEF Writing, Serving
  <2>2. ASSUME NEW x \in Tasks, task[x].status \in Ended
        PROVE  task'[x].usage = task[x].usage /\ (task'[x].status \in Ended \/ thread[c].task = x)
    BY <1>5, <2>2
  <2> QED
    BY <1>1, <1>3, <2>1, <2>2, StillDelivered
<1>13. ClaimsHold'
  <2>1. ASSUME ~undone, r.op = "auto"
        PROVE  active' = r.question /\ candidate'[r.question].answer = t
    <3>1. active = r.question /\ candidate[r.question].answer = Claim(t)
      <4>1. ~thread[c].bound
        BY <1>0, <1>1 DEF Placed
      <4> QED
        BY <1>3, <2>1, <4>1 DEF ClaimsHold
    <3> QED
      BY <1>1, <1>6, <2>1, <3>1
  <2>2. ASSUME NEW d \in Requests \ {c}, ~undone, thread[d].op = "auto"
        PROVE  candidate'[thread[d].question].answer = candidate[thread[d].question].answer
    <3>1. r.op # "auto" /\ thread[d].question \in Questions
      BY <1>3, <2>2, OneByItself DEF Shapes, Placed
    <3> QED
      BY <1>6, <3>1
  <2> QED
    BY <1>1, <1>3, <2>1, <2>2, ClaimsStillHold
<1>14. WrittenAreBound'
  <2>1. ASSUME ~undone, NEW x \in Tasks, NEW q \in Questions, Written(x, q)'
        PROVE  \/ candidate'[q].answer = x
               \/ Written(x, q) /\ (candidate[q].answer = x => candidate'[q].answer = x)
    <3>1. candidate[q].answer = x => candidate'[q].answer = x
      BY <1>6, ClaimsAreApart
    <3>2. CASE x # t
      BY <1>5, <2>1, <3>1, <3>2 DEF Written
    <3>3. CASE x = t
      <4>1. task[t].usage = <<"auto", q>>
        BY <1>5, <2>1, <3>3 DEF Written
      <4>2. thread[c].op = "auto" /\ thread[c].question = q
        BY <1>4, <4>1, SMT DEF UsageOf
      <4>3. ~thread[c].bound
        BY <1>0, <1>1 DEF Placed
      <4>4. candidate[q].answer = Claim(t)
        BY <2>1, <4>2, <4>3 DEF ClaimsHold
      <4> QED
        BY <1>3, <1>6, <3>3, <4>2, <4>4
    <3> QED
      BY <3>2, <3>3
  <2> QED
    BY <1>1, <2>1, StillBound
<1> QED
  BY <1>8, <1>9, <1>10, <1>11, <1>12, <1>13, <1>14

(* A task that nothing was saved for is nobody's name for what it writes,  *)
(* and a fresh one is no thread's.                                         *)
LEMMA NewTask ==
  ASSUME SavedAreReserved, NEW t \in Tasks, task[t] = NoTask
  PROVE  task[t].usage = None /\ task[t].status \notin Ended /\ task[t].status = "none"
BY DEF NoTask, Ended

(* An answer is reserved and queued.                                       *)
LEMMA BeginKeeps ==
  ASSUME AnswersInv, NEW c \in Requests, NEW q \in Questions, NEW t \in Tasks,
         NEW op \in Answerers, BeginAnswer(c, op, q, t)
  PROVE  AnswersInv'
<1> USE DEF AnswersInv
<1> DEFINE u == <<IF op = "auto" THEN op ELSE "manual", q>>
           asked == IF op = "auto" THEN q ELSE None
           r == [Idle EXCEPT !.op = op, !.pc = "start", !.task = t, !.question = asked]
<1>1. u \in Usages /\ u # None /\ asked \in Questions \cup {None} /\ (op = "auto" => asked = q)
  BY ConstantsAssumption, SMT DEF Usages, Answerers
<1>2. /\ Reserve(u) /\ task' = [task EXCEPT ![t] = [status |-> "queued", usage |-> u]]
      /\ known' = known \cup {t} /\ Goes(c, r)
      /\ UNCHANGED <<live, auto, undone, candidate, active>>
  BY DEF BeginAnswer, session
<1>3. /\ r.op = op /\ r.pc = "start" /\ r.task = t /\ r.question = asked /\ ~r.bound
      /\ r \in Calls
  <2>1. Idle \in Calls /\ ~Idle.bound
    BY IdleIsCall DEF Idle
  <2> HIDE DEF asked
  <2>2. r \in Calls
    BY <1>1, <2>1, Zenon DEF Calls, Answerers
  <2>3. r.op = op /\ r.pc = "start" /\ r.task = t /\ r.question = asked
    BY <2>1, SMT DEF Calls
  <2>4. r.bound <=> Idle.bound
    BY <2>1, Zenon DEF Calls
  <2> QED
    BY <2>1, <2>2, <2>3, <2>4
<1>4. u \in UsageOf(r)
  BY <1>1, <1>3, SMT DEF UsageOf, Answerers
<1> HIDE DEF r, asked, u
<1>5. Placed(r)
  BY <1>1, <1>3, SMT DEF Placed, Answerers, Savers
<1>6. /\ task[t] = NoTask
      /\ IF op = "auto" THEN thread[c].pc = "open" /\ thread[c].op = "auto" /\ thread[c].question = q
                             /\ thread[c].task = t
         ELSE thread[c] = Idle /\ \A d \in Requests : thread[d].task # t
  <2>1. CASE op = "auto"
    <3>1. thread[c].pc = "open" /\ thread[c].question = q /\ thread[c].task = t
      BY <2>1 DEF BeginAnswer, At
    <3> QED
      BY <2>1, <3>1 DEF Named, Shapes, Placed
  <2>2. CASE op # "auto"
    BY <2>2 DEF BeginAnswer, Fresh
  <2> QED
    BY <2>1, <2>2
<1>7. task[t].usage = None /\ task[t].status \notin Ended /\ task[t].status = "none"
  BY <1>6, NewTask
<1>8. \A d \in Requests \ {c} : Serving(d) => thread[d].task # t
  BY <1>6 DEF TasksApart, Serving, Answerers
<1>9. \A d \in Requests \ {c} : thread[d].op = "cancel" => thread[d].task # t
  BY <1>7 DEF Named
<1>10. /\ charge' \in [Usages -> U!States] /\ charge'[u] # "open"
       /\ \A x \in Usages : /\ charge[x] # "open" => charge'[x] # "open"
                            /\ charge'[x] = "charged" => charge[x] = "charged"
  BY <1>1, <1>2, SMT DEF Reserve, U!Hold, U!Move, U!States, Shapes
<1>11. /\ task' \in [Tasks -> [status : Statuses, usage : Usages \cup {None}]]
       /\ task'[t].status = "queued" /\ task'[t].usage = u
       /\ \A x \in Tasks \ {t} : task'[x] = task[x]
  BY <1>1, <1>2, SMT DEF Shapes, Statuses
<1>12. thread' \in [Requests -> Calls] /\ \A d \in Requests : Placed(thread'[d])
  BY <1>2, <1>3, <1>5, OneMoves
<1>13. Shapes'
  BY <1>2, <1>10, <1>11, <1>12 DEF Shapes
<1>14. SavedAreReserved'
  BY <1>1, <1>10, <1>11, SMT DEF SavedAreReserved, Shapes
<1>15. TasksApart'
  <2>1. \/ Serving(c) /\ r.task = thread[c].task
        \/ \A d \in Requests : thread[d].task # r.task
    BY <1>3, <1>6 DEF Serving, Answerers
  <2> QED
    BY <1>2, <1>3, <1>5, <2>1, StillApart
<1>16. Named'
  <2>1. thread'[c] = r /\ \A d \in Requests \ {c} : thread'[d] = thread[d]
    BY <1>2, <1>3, <1>5, OneMoves
  <2> SUFFICES ASSUME NEW d \in Requests
               PROVE  /\ thread'[d].pc = "open" => task'[thread'[d].task] = NoTask
                      /\ thread'[d].op \in Answerers /\ thread'[d].pc # "open"
                           => task'[thread'[d].task].usage \in UsageOf(thread'[d])
                      /\ thread'[d].op = "cancel" => task'[thread'[d].task].usage # None
    BY SMT DEF Named, Serving, UsageOf
  <2>2. CASE d = c
    BY <1>3, <1>4, <1>11, <2>1, <2>2 DEF Answerers
  <2>3. CASE d # c
    <3>1. thread'[d] = thread[d] /\ Placed(thread[d])
      BY <2>1, <2>3 DEF Shapes
    <3>2. CASE Serving(d) \/ thread[d].op = "cancel"
      <4>1. thread[d].task \in Tasks \ {t}
        BY <1>8, <1>9, <2>3, <3>1, <3>2 DEF Placed, Serving
      <4> QED
        BY <1>11, <3>1, <3>2, <4>1 DEF Named, Serving
    <3>3. CASE ~(Serving(d) \/ thread[d].op = "cancel")
      BY <3>1, <3>3 DEF Placed, Serving, Answerers
    <3> QED
      BY <3>2, <3>3
  <2> QED
    BY <2>2, <2>3
<1>17. ChargesDelivered'
  <2>1. ASSUME NEW x \in Tasks, task[x].status \in Ended
        PROVE  task'[x].usage = task[x].usage /\ task'[x].status \in Ended
    BY <1>7, <1>11, <2>1
  <2> QED
    BY <1>2, <1>3, <1>5, <1>7, <1>10, <2>1, StillDelivered
<1>18. ClaimsHold'
  <2>1. ~undone /\ r.op = "auto" => active = r.question /\ candidate[r.question].answer = Claim(r.task)
    <3>1. thread[c].pc = "open" => ~thread[c].bound
      BY DEF Shapes, Placed
    <3> QED
      BY <1>1, <1>3, <1>6, <3>1 DEF ClaimsHold
  <2> QED
    BY <1>2, <1>3, <1>5, <2>1, ClaimsStillHold
<1>19. WrittenAreBound'
  <2>1. ASSUME NEW x \in Tasks, NEW p \in Questions, Written(x, p)'
        PROVE  Written(x, p)
    BY <1>11, <2>1 DEF Written
  <2> QED
    BY <1>2, <2>1, StillBound
<1> QED
  BY <1>13, <1>14, <1>15, <1>16, <1>17, <1>18, <1>19

(* A thread that begins without saving anything: a cancellation, or a      *)
(* question that is read to be saved again.                                *)
LEMMA BeginningKeeps ==
  ASSUME AnswersInv, NEW c \in Requests,
         \/ \E t \in Tasks : Cancel(c, t)
         \/ \E q \in Questions, op \in Savers : ReadCandidate(c, op, q)
  PROVE  AnswersInv'
<1> USE DEF AnswersInv
<1>1. PICK r \in Calls :
        /\ Goes(c, r) /\ Placed(r) /\ r.op \notin Answerers /\ r.pc \in {"cancel", "write"}
        /\ r.op = "cancel" => task[r.task].usage # None
        /\ UNCHANGED <<live, auto, undone, candidate, active, task, known, charge>>
  <2>1. ASSUME NEW t \in Tasks, Cancel(c, t)
        PROVE  \E r \in Calls :
                 /\ Goes(c, r) /\ Placed(r) /\ r.op \notin Answerers /\ r.pc \in {"cancel", "write"}
                 /\ r.op = "cancel" => task[r.task].usage # None
    <3> DEFINE r == [Idle EXCEPT !.op = "cancel", !.pc = "cancel", !.task = t]
    <3>1. Goes(c, r) /\ task[t].status \in {"queued", "streaming"}
      BY <2>1 DEF Cancel
    <3>2. task[t].usage # None
      BY <3>1 DEF SavedAreReserved
    <3>3. Idle \in Calls /\ ~Idle.bound
      BY IdleIsCall DEF Idle
    <3>4. r \in Calls
      BY <3>3, Zenon DEF Calls
    <3>5. r.op = "cancel" /\ r.pc = "cancel" /\ r.task = t
      BY <3>3, SMT DEF Calls
    <3>6. r.bound <=> Idle.bound
      BY <3>3, Zenon DEF Calls
    <3> HIDE DEF r
    <3>7. Placed(r)
      BY <3>3, <3>5, <3>6, SMT DEF Placed, Savers, Answerers
    <3> QED
      BY <3>1, <3>2, <3>4, <3>5, <3>7 DEF Answerers
  <2>2. ASSUME NEW q \in Questions, NEW op \in Savers, ReadCandidate(c, op, q)
        PROVE  \E r \in Calls :
                 /\ Goes(c, r) /\ Placed(r) /\ r.op \notin Answerers /\ r.pc \in {"cancel", "write"}
                 /\ r.op = "cancel" => task[r.task].usage # None
    <3> DEFINE k == [candidate[q] EXCEPT !.old = FALSE]
               r == [Idle EXCEPT !.op = op, !.pc = "write", !.question = q, !.seen = k]
    <3>1. Goes(c, r)
      BY <2>2 DEF ReadCandidate
    <3>2. k \in Candidates
      <4>1. candidate[q] \in Candidates
        BY DEF Shapes
      <4> QED
        BY <4>1, Zenon DEF Candidates
    <3>3. Idle \in Calls /\ ~Idle.bound
      BY IdleIsCall DEF Idle
    <3> HIDE DEF k
    <3>4. r \in Calls
      BY <3>2, <3>3, Zenon DEF Calls
    <3>5. r.op = op /\ r.pc = "write" /\ r.question = q
      BY <3>3, SMT DEF Calls
    <3>6. r.bound <=> Idle.bound
      BY <3>3, Zenon DEF Calls
    <3> HIDE DEF r
    <3>7. op \in Savers /\ op \notin Answerers /\ op \notin {"auto", "cancel", "none"}
      BY DEF Savers, Answerers
    <3>8. Placed(r)
      BY <3>3, <3>5, <3>6, <3>7, SMT DEF Placed
    <3> QED
      BY <3>1, <3>4, <3>5, <3>7, <3>8
  <2>3. UNCHANGED <<live, auto, undone, candidate, active, task, known, charge>>
    BY DEF Cancel, ReadCandidate, session, answers
  <2> QED
    BY <2>1, <2>2, <2>3
<1>2. thread' \in [Requests -> Calls] /\ \A d \in Requests : Placed(thread'[d])
  BY <1>1, OneMoves
<1>3. Shapes'
  BY <1>1, <1>2 DEF Shapes
<1>4. SavedAreReserved'
  BY <1>1 DEF SavedAreReserved
<1>5. TasksApart'
  BY <1>1, StillApart
<1>6. Named'
  BY <1>1, StillNamed
<1>7. ChargesDelivered'
  BY <1>1, StillDelivered
<1>8. ClaimsHold'
  BY <1>1, ClaimsStillHold DEF Answerers
<1>9. WrittenAreBound'
  BY <1>1, StillBound DEF Written
<1> QED
  BY <1>3, <1>4, <1>5, <1>6, <1>7, <1>8, <1>9

(* A question that is saved again keeps its answer, or a claim is undone.  *)
LEMMA SaveCandidateKeeps ==
  ASSUME AnswersInv, NEW c \in Requests, SaveCandidate(c)
  PROVE  AnswersInv'
<1> USE DEF AnswersInv
<1>0. thread[c] \in Calls /\ Placed(thread[c])
  BY DEF Shapes
<1>1. thread[c].op \in Savers
  BY DEF SaveCandidate, Savers
<1>2. PICK q \in Questions : q = thread[c].question
  BY <1>0, <1>1 DEF Placed
<1>3. PICK k \in Candidates : /\ k.answer = thread[c].seen.answer
                              /\ candidate' = [candidate EXCEPT ![q] = k]
  <2> DEFINE s == IF thread[c].op = "revise" THEN thread[c].seen.state ELSE "by user"
             k == [thread[c].seen EXCEPT !.old = candidate[q].old, !.state = s]
  <2>1. thread[c].seen \in Candidates /\ candidate[q] \in Candidates
    BY <1>0 DEF Calls, Shapes
  <2>2. candidate[q].old \in BOOLEAN /\ s \in {"none", "unsure", "sure", "by user"}
    BY <2>1, Zenon DEF Candidates
  <2>3. candidate' = [candidate EXCEPT ![q] = k]
    BY <1>2, Zenon DEF SaveCandidate
  <2> PICK x \in Candidates : x = thread[c].seen
    BY <2>1
  <2> HIDE DEF s
  <2>4. k \in Candidates /\ k.answer = x.answer
    BY <2>2, Zenon DEF Candidates
  <2> HIDE DEF k
  <2> QED
    BY <2>3, <2>4
<1>4. /\ undone' \in BOOLEAN /\ (~undone' => ~undone /\ k.answer = candidate[q].answer)
      /\ Returns(c) /\ UNCHANGED <<live, auto, active, task, known, charge>>
  BY <1>2, <1>3 DEF SaveCandidate, answers
<1>5. candidate' \in [Questions -> Candidates]
  BY <1>3, SMT DEF Shapes
<1>6. ~undone' => ~undone /\ \A p \in Questions : candidate'[p].answer = candidate[p].answer
  BY <1>3, <1>4, SMT DEF Shapes
<1>7. Idle \in Calls /\ Placed(Idle) /\ Goes(c, Idle) /\ Idle.op = "none" /\ Idle.pc = "idle"
  BY <1>4, IdleIsCall DEF Returns, Idle
<1>8. thread' \in [Requests -> Calls] /\ \A d \in Requests : Placed(thread'[d])
  BY <1>7, OneMoves
<1>9. Shapes'
  BY <1>4, <1>5, <1>8 DEF Shapes
<1>10. SavedAreReserved'
  BY <1>4 DEF SavedAreReserved
<1>11. TasksApart'
  BY <1>7, StillApart DEF Answerers
<1>12. Named'
  BY <1>4, <1>7, StillNamed DEF Answerers
<1>13. ChargesDelivered'
  BY <1>4, <1>7, StillDelivered DEF Answerers
<1>14. ClaimsHold'
  <2>1. \A d \in Requests : thread[d].op = "auto" => thread[d].question \in Questions
    BY DEF Shapes, Placed
  <2> QED
    BY <1>4, <1>6, <1>7, <2>1, ClaimsStillHold
<1>15. WrittenAreBound'
  BY <1>4, <1>6, StillBound DEF Written
<1> QED
  BY <1>9, <1>10, <1>11, <1>12, <1>13, <1>14, <1>15

(* A claim is taken only when no other thread has one.                     *)
LEMMA ClaimKeeps ==
  ASSUME AnswersInv, NEW c \in Requests, NEW q \in Questions, NEW t \in Tasks,
         ClaimAutoAnswer(c, q, t)
  PROVE  AnswersInv'
<1> USE DEF AnswersInv
<1> DEFINE r == [Idle EXCEPT !.op = "auto", !.pc = "open", !.question = q, !.task = t]
<1>1. /\ thread[c] = Idle /\ Fresh(t) /\ candidate[q].answer = None /\ active \in {None, q}
      /\ candidate' = [candidate EXCEPT ![q].answer = Claim(t)] /\ active' = q /\ Goes(c, r)
      /\ UNCHANGED <<live, auto, undone, task, known, charge>>
  BY DEF ClaimAutoAnswer, session, answers
<1>2. /\ r \in Calls /\ Placed(r) /\ r.op = "auto" /\ r.pc = "open" /\ r.question = q
      /\ r.task = t /\ ~r.bound
  <2>1. Idle \in Calls /\ ~Idle.bound
    BY IdleIsCall DEF Idle
  <2>2. r \in Calls
    BY <2>1, Zenon DEF Calls, Answerers
  <2>3. r.op = "auto" /\ r.pc = "open" /\ r.task = t /\ r.question = q
    BY <2>1, SMT DEF Calls
  <2>4. r.bound <=> Idle.bound
    BY <2>1, Zenon DEF Calls
  <2> HIDE DEF r
  <2>5. Placed(r)
    BY <2>1, <2>3, <2>4, SMT DEF Placed, Savers, Answerers
  <2> QED
    BY <2>1, <2>2, <2>3, <2>4, <2>5
<1> HIDE DEF r
<1>3. task[t] = NoTask /\ \A d \in Requests : thread[d].task # t
  BY <1>1 DEF Fresh
<1>4. /\ candidate' \in [Questions -> Candidates] /\ candidate'[q].answer = Claim(t)
      /\ \A p \in Questions \ {q} : candidate'[p].answer = candidate[p].answer
  <2>1. Claim(t) \in Answers /\ candidate \in [Questions -> Candidates]
    BY DEF Answers, Shapes
  <2> QED
    BY <1>1, <2>1, SettingAnswer
<1>5. ~undone => \A d \in Requests : thread[d].op # "auto"
  <2> SUFFICES ASSUME ~undone, NEW d \in Requests, thread[d].op = "auto" PROVE FALSE
    OBVIOUS
  <2>1. /\ active = thread[d].question
        /\ candidate[thread[d].question].answer =
             IF thread[d].bound THEN thread[d].task ELSE Claim(thread[d].task)
    BY DEF ClaimsHold
  <2>2. thread[d].question \in Questions /\ thread[d].task \in Tasks
    BY DEF Shapes, Placed, Answerers
  <2>3. thread[d].question = q
    BY <1>1, <2>1, <2>2, ConstantsAssumption
  <2> QED
    BY <1>1, <2>1, <2>2, <2>3, ClaimsAreApart, ConstantsAssumption
<1>6. thread' \in [Requests -> Calls] /\ \A d \in Requests : Placed(thread'[d])
  BY <1>1, <1>2, OneMoves
<1>7. Shapes'
  BY <1>1, <1>4, <1>6 DEF Shapes
<1>8. SavedAreReserved'
  BY <1>1 DEF SavedAreReserved
<1>9. TasksApart'
  BY <1>1, <1>2, <1>3, StillApart
<1>10. Named'
  BY <1>1, <1>2, <1>3, StillNamed
<1>11. ChargesDelivered'
  <2>1. task[t].status \notin Ended
    BY <1>3 DEF NoTask, Ended
  <2> QED
    BY <1>1, <1>2, <2>1, StillDelivered
<1>12. ClaimsHold'
  BY <1>1, <1>2, <1>4, <1>5, ClaimsStillHold
<1>13. WrittenAreBound'
  <2>1. ASSUME NEW x \in Tasks, NEW p \in Questions, candidate[p].answer = x
        PROVE  candidate'[p].answer = x
    BY <1>1, <1>4, <2>1, ConstantsAssumption
  <2> QED
    BY <1>1, <2>1, StillBound DEF Written
<1> QED
  BY <1>7, <1>8, <1>9, <1>10, <1>11, <1>12, <1>13

-----------------------------------------------------------------------------
(* The steps of no thread                                                  *)

(* The session's switch and its end, and a new question.                   *)
LEMMA SessionKeeps ==
  ASSUME AnswersInv,
         \/ End \/ \E enabled \in BOOLEAN : UpdateAutoAnswer(enabled)
         \/ \E q \in Questions, state \in {"unsure", "sure"} : DetectQuestion(q, state)
  PROVE  AnswersInv'
<1> USE DEF AnswersInv
<1>1. /\ live' \in BOOLEAN /\ auto' \in BOOLEAN
      /\ UNCHANGED <<undone, active, task, known, charge, thread>>
  BY DEF End, UpdateAutoAnswer, DetectQuestion, session, answers, Shapes
<1>2. /\ candidate' \in [Questions -> Candidates]
      /\ \A q \in Questions : candidate'[q].answer = candidate[q].answer
  <2>0. candidate \in [Questions -> Candidates]
    BY DEF Shapes
  <2>1. CASE End
    BY <2>0, <2>1 DEF End
  <2>2. ASSUME NEW enabled \in BOOLEAN, UpdateAutoAnswer(enabled)
        PROVE  <1>2
    <3> DEFINE b(q) == enabled /\ candidate[q].state # "none"
               k(q) == [candidate[q] EXCEPT !.old = b(q)]
    <3>1. candidate' = [q \in Questions |-> k(q)]
      BY <2>2 DEF UpdateAutoAnswer
    <3>2. \A q \in Questions : b(q) \in BOOLEAN
      OBVIOUS
    <3> HIDE DEF b
    <3>3. \A q \in Questions : k(q) \in Candidates /\ k(q).answer = candidate[q].answer
      BY <2>0, <3>2, Zenon DEF Candidates
    <3> HIDE DEF k
    <3> QED
      BY <3>1, <3>3
  <2>3. ASSUME NEW q \in Questions, NEW state \in {"unsure", "sure"}, DetectQuestion(q, state)
        PROVE  <1>2
    <3> DEFINE k == [candidate[q] EXCEPT !.state = state]
    <3>1. candidate' = [candidate EXCEPT ![q] = k]
      BY <2>3, Zenon DEF DetectQuestion
    <3>2. candidate[q] \in Candidates
      BY <2>0
    <3>3. k \in Candidates /\ k.answer = candidate[q].answer
      BY <3>2, Zenon DEF Candidates
    <3> HIDE DEF k
    <3> QED
      BY <2>0, <3>1, <3>3, SMT
  <2> QED
    BY <2>1, <2>2, <2>3
<1>3. Shapes'
  BY <1>1, <1>2 DEF Shapes
<1>4. SavedAreReserved' /\ TasksApart' /\ Named'
  BY <1>1 DEF SavedAreReserved, TasksApart, Named, Serving, UsageOf
<1>5. ChargesDelivered'
  BY <1>1 DEF ChargesDelivered, Delivered, Writing, Serving
<1>6. ClaimsHold'
  BY <1>1, <1>2 DEF ClaimsHold, Shapes, Placed, Claim
<1>7. WrittenAreBound'
  BY <1>1, <1>2 DEF WrittenAreBound, Written
<1> QED
  BY <1>3, <1>4, <1>5, <1>6, <1>7

(* An abandoned task fails, and abandoned points are given back.           *)
LEMMA AbandonedKeeps ==
  ASSUME AnswersInv, ReleaseStale \/ \E t \in Tasks : TaskLapses(t)
  PROVE  AnswersInv'
<1> USE DEF AnswersInv
<1>1. UNCHANGED <<live, auto, undone, candidate, active, known, thread>>
  BY DEF ReleaseStale, TaskLapses, session
<1>2. /\ charge' \in [Usages -> U!States]
      /\ \A u \in Usages : /\ charge[u] # "open" => charge'[u] # "open"
                           /\ charge'[u] = "charged" => charge[u] = "charged"
  <2>0. charge \in [Usages -> U!States]
    BY DEF Shapes
  <2>1. CASE ReleaseStale
    <3>1. PICK S \in SUBSET Usages : U!Waive(S)
      BY <2>1 DEF ReleaseStale
    <3> QED
      BY <2>0, <3>1, SMT DEF U!Waive, U!States
  <2>2. CASE \E t \in Tasks : TaskLapses(t)
    BY <2>0, <2>2 DEF TaskLapses
  <2> QED
    BY <2>1, <2>2
<1>3. /\ task' \in [Tasks -> [status : Statuses, usage : Usages \cup {None}]]
      /\ \A t \in Tasks : \/ task'[t] = task[t]
                          \/ /\ task[t].status \in {"queued", "streaming"}
                             /\ task'[t].status = "failed" /\ task'[t].usage = task[t].usage
  BY SMT DEF ReleaseStale, TaskLapses, Shapes, Statuses, Finished
<1>4. Shapes'
  BY <1>1, <1>2, <1>3 DEF Shapes
<1>5. SavedAreReserved'
  BY <1>2, <1>3, SMT DEF SavedAreReserved, Shapes
<1>6. TasksApart'
  BY <1>1 DEF TasksApart, Serving
<1>7. Named'
  <2> SUFFICES ASSUME NEW c \in Requests
               PROVE  /\ thread[c].pc = "open" => task'[thread[c].task] = NoTask
                      /\ thread[c].op \in Answerers /\ thread[c].pc # "open"
                           => task'[thread[c].task].usage \in UsageOf(thread[c])
                      /\ thread[c].op = "cancel" => task'[thread[c].task].usage # None
    BY <1>1 DEF Named, Serving, UsageOf
  <2>1. Placed(thread[c])
    BY DEF Shapes
  <2>2. CASE thread[c].op \in Answerers \cup {"cancel"}
    <3>1. thread[c].task \in Tasks
      BY <2>1, <2>2 DEF Placed
    <3>2. task[thread[c].task] = NoTask => task'[thread[c].task] = NoTask
      BY <1>3, <3>1 DEF NoTask
    <3> QED
      BY <1>3, <3>1, <3>2 DEF Named, Serving
  <2>3. CASE thread[c].op \notin Answerers \cup {"cancel"}
    BY <2>1, <2>3 DEF Placed, Answerers
  <2> QED
    BY <2>2, <2>3
<1>8. ChargesDelivered'
  <2>1. \A t \in Tasks : task[t].status \in Ended => task'[t] = task[t]
    BY <1>3 DEF Ended
  <2>2. ASSUME NEW c \in Requests, thread[c].pc \in {"append", "settle"}
        PROVE  thread[c].task \in Tasks
    BY <2>2, SMT DEF Shapes, Placed, Calls, Savers, Answerers
  <2>3. ASSUME NEW t \in Tasks, Delivered(t)
        PROVE  Delivered(t)' /\ task'[t].usage = task[t].usage
    BY <1>1, <2>1, <2>3 DEF Delivered, Writing, Serving
  <2>4. ASSUME NEW c \in Requests, thread'[c].pc \in {"append", "settle"}
        PROVE  task'[thread'[c].task].status \in Ended
    BY <1>1, <2>1, <2>2, <2>4 DEF ChargesDelivered
  <2>5. ASSUME NEW u \in Usages, charge'[u] = "charged"
        PROVE  \E t \in Tasks : task'[t].usage = u /\ Delivered(t)'
    BY <1>2, <2>3, <2>5 DEF ChargesDelivered
  <2> QED
    BY <2>4, <2>5 DEF ChargesDelivered
<1>9. ClaimsHold'
  BY <1>1 DEF ClaimsHold, Claim
<1>10. WrittenAreBound'
  BY <1>1, <1>3 DEF WrittenAreBound, Written
<1> QED
  BY <1>4, <1>5, <1>6, <1>7, <1>8, <1>9, <1>10

(* The process restarts: nobody writes anything.                           *)
LEMMA RestartKeeps ==
  ASSUME AnswersInv, Restart
  PROVE  AnswersInv'
<1> USE DEF AnswersInv
<1>1. /\ active' = None /\ known' = {} /\ \A c \in Requests : thread'[c] = Idle
      /\ thread' \in [Requests -> Calls] /\ \A c \in Requests : Placed(thread'[c])
      /\ UNCHANGED <<live, auto, undone, candidate, task, charge>>
  BY IdleIsCall DEF Restart, session
<1>2. Idle.op = "none" /\ Idle.pc = "idle"
  BY DEF Idle
<1>3. Shapes'
  BY <1>1 DEF Shapes
<1>4. SavedAreReserved' /\ WrittenAreBound'
  BY <1>1 DEF SavedAreReserved, WrittenAreBound, Written
<1>5. TasksApart' /\ Named' /\ ClaimsHold'
  BY <1>1, <1>2 DEF TasksApart, Named, ClaimsHold, Serving, Answerers, UsageOf, Claim
<1>6. ChargesDelivered'
  <2>1. \A t \in Tasks : Delivered(t) => Delivered(t)'
    BY <1>1, <1>2 DEF Delivered, Writing, Serving, Answerers
  <2> QED
    BY <1>1, <1>2, <2>1 DEF ChargesDelivered
<1> QED
  BY <1>3, <1>4, <1>5, <1>6

-----------------------------------------------------------------------------
(* The invariant                                                           *)

(* It holds at first.                                                      *)
LEMMA FirstAnswersInv == Init => AnswersInv
<1> SUFFICES ASSUME Init PROVE AnswersInv
  OBVIOUS
<1>1. NoCandidate \in Candidates
  BY Zenon DEF NoCandidate, Candidates, Answers
<1>2. NoTask \in [status : Statuses, usage : Usages \cup {None}]
  BY DEF NoTask, Statuses
<1>3. Idle.op = "none" /\ Idle.pc = "idle" /\ NoTask.status = "none" /\ NoTask.usage = None
  BY DEF Idle, NoTask
<1>4. Shapes
  BY <1>1, <1>2, IdleIsCall DEF Init, Shapes, U!States
<1>5. SavedAreReserved
  BY <1>3 DEF Init, SavedAreReserved
<1>6. TasksApart /\ Named /\ ClaimsHold
  BY <1>3 DEF Init, TasksApart, Named, ClaimsHold, Serving, Answerers
<1>7. ChargesDelivered
  BY <1>3 DEF Init, ChargesDelivered
<1>8. WrittenAreBound
  BY <1>3 DEF Init, WrittenAreBound, Written
<1> QED
  BY <1>4, <1>5, <1>6, <1>7, <1>8 DEF AnswersInv

(* The steps of a thread on its way through an answer or a cancellation.   *)
LEMMA StepKeeps ==
  ASSUME AnswersInv, NEW c \in Requests, Step(c)
  PROVE  AnswersInv'
<1> USE DEF AnswersInv
<1>0. charge \in [Usages -> U!States]
  BY DEF Shapes
<1>1. CASE \/ NeverOpened(c) \/ RefuseAnswer(c) \/ BreaksOff(c)
           \/ LookStopped(c) /\ task[thread[c].task].status = "cancelled"
  <2>1. /\ Returns(c) /\ UNCHANGED <<live, auto, undone, task, known, charge>>
        /\ LetGo(c) \/ UNCHANGED <<candidate, active>>
    BY <1>1 DEF NeverOpened, RefuseAnswer, BreaksOff, LookStopped, session, answers
  <2> QED
    BY <1>0, <2>1, ReturnKeeps
<1>2. CASE \/ LookStopped(c) /\ task[thread[c].task].status # "cancelled"
           \/ AppendAnswer(c)
  BY <1>2, GoingOnKeeps DEF LookStopped, AppendAnswer, At, session, answers
<1>3. CASE StartAnswer(c)
  BY <1>3, StartKeeps
<1>4. CASE SavePiece(c) \/ CompleteTask(c) \/ FailTask(c) \/ CancelTask(c)
  BY <1>4, SavingKeeps
<1>5. CASE SettleUsage(c)
  <2>1. PICK u : u = task[thread[c].task].usage
    OBVIOUS
  <2>2. /\ thread[c].pc = "settle" /\ LetGo(c) /\ Returns(c)
        /\ IF charge[u] = "held" THEN U!Charge(u) ELSE UNCHANGED charge
        /\ UNCHANGED <<live, auto, undone, task, known>>
    BY <1>5, <2>1 DEF SettleUsage, At, session
  <2>3. /\ charge' \in [Usages -> U!States]
        /\ \A x \in Usages : /\ charge[x] # "open" => charge'[x] # "open"
                             /\ charge'[x] = "charged" => charge[x] = "charged" \/ x = u
    BY <1>0, <2>2, SMT DEF U!Charge, U!Move, U!States
  <2> QED
    BY <2>1, <2>2, <2>3, ReturnKeeps
<1>6. CASE ReleaseUsage(c) \/ ReleaseCancelled(c)
  <2>1. PICK u : u = task[thread[c].task].usage
    OBVIOUS
  <2>2. /\ thread[c].pc = "release" /\ Returns(c)
        /\ LetGo(c) \/ UNCHANGED <<candidate, active>>
        /\ GiveBack(u) \/ UNCHANGED charge
        /\ UNCHANGED <<live, auto, undone, task, known>>
    BY <1>6, <2>1 DEF ReleaseUsage, ReleaseCancelled, At, session
  <2>3. thread[c].task \in Tasks /\ u \in Usages \cup {None}
    BY <2>1, <2>2, SMT DEF Shapes, Placed, Calls, Savers, Answerers
  <2>4. u # None
    <3>1. thread[c].op \in Answerers \cup {"cancel"}
      BY <2>2, SMT DEF Shapes, Placed, Calls, Savers, Answerers
    <3>2. CASE thread[c].op = "cancel"
      BY <2>1, <3>2 DEF Named
    <3>3. CASE thread[c].op \in Answerers
      <4>1. u \in UsageOf(thread[c])
        BY <2>1, <2>2, <3>3 DEF Named, Serving
      <4>2. thread[c].op = "auto" => thread[c].question \in Questions
        BY DEF Shapes, Placed
      <4> QED
        BY <4>1, <4>2, ConstantsAssumption DEF UsageOf, Usages
    <3> QED
      BY <3>1, <3>2, <3>3
  <2>5. /\ charge' \in [Usages -> U!States]
        /\ \A x \in Usages : /\ charge[x] # "open" => charge'[x] # "open"
                             /\ charge'[x] = "charged" => charge[x] = "charged"
    BY <1>0, <2>2, <2>3, <2>4, GivingBack
  <2> QED
    BY <2>2, <2>5, ReturnKeeps
<1> QED
  BY <1>1, <1>2, <1>3, <1>4, <1>5, <1>6 DEF Step

(* Every step keeps it.                                                    *)
LEMMA EveryStepKeeps == AnswersInv /\ [Next]_vars => AnswersInv'
<1> SUFFICES ASSUME AnswersInv, [Next]_vars PROVE AnswersInv'
  OBVIOUS
<1>1. CASE UNCHANGED vars
  <2>1. UNCHANGED <<live, auto, undone, candidate, active, task, known, charge, thread>>
    BY <1>1 DEF vars
  <2>2. Shapes'
    BY <2>1 DEF AnswersInv, Shapes
  <2>3. SavedAreReserved' /\ TasksApart' /\ Named'
    BY <2>1 DEF AnswersInv, SavedAreReserved, TasksApart, Named, Serving, UsageOf
  <2>4. ChargesDelivered'
    BY <2>1 DEF AnswersInv, ChargesDelivered, Delivered, Writing, Serving
  <2>5. ClaimsHold' /\ WrittenAreBound'
    BY <2>1 DEF AnswersInv, ClaimsHold, WrittenAreBound, Written, Claim
  <2> QED
    BY <2>2, <2>3, <2>4, <2>5 DEF AnswersInv
<1>2. CASE \/ End \/ \E enabled \in BOOLEAN : UpdateAutoAnswer(enabled)
           \/ \E q \in Questions, state \in {"unsure", "sure"} : DetectQuestion(q, state)
  BY <1>2, SessionKeeps
<1>3. CASE Restart
  BY <1>3, RestartKeeps
<1>4. CASE ReleaseStale \/ \E t \in Tasks : TaskLapses(t)
  BY <1>4, AbandonedKeeps
<1>5. ASSUME NEW c \in Requests, NEW q \in Questions, NEW op \in {"revise", "confirm", "dismiss"},
             ReadCandidate(c, op, q)
      PROVE  AnswersInv'
  BY <1>5, BeginningKeeps DEF Savers
<1>6. ASSUME NEW c \in Requests, NEW t \in Tasks, Cancel(c, t)
      PROVE  AnswersInv'
  BY <1>6, BeginningKeeps
<1>7. ASSUME NEW c \in Requests, NEW q \in Questions, NEW t \in Tasks,
             \/ ClaimAutoAnswer(c, q, t) \/ AnswerQuestion(c, q, t) \/ StreamAnswerQuestion(c, q, t)
      PROVE  AnswersInv'
  BY <1>7, ClaimKeeps, BeginKeeps DEF AnswerQuestion, StreamAnswerQuestion, Answerers
<1>8. ASSUME NEW c \in Requests, SaveCandidate(c) \/ Step(c)
      PROVE  AnswersInv'
  BY <1>8, SaveCandidateKeeps, StepKeeps
<1> QED
  BY <1>1, <1>2, <1>3, <1>4, <1>5, <1>6, <1>7, <1>8 DEF Next

(* AnswersInv is an invariant.                                             *)
LEMMA AnswersInvariant == Spec => []AnswersInv
BY FirstAnswersInv, EveryStepKeeps, PTL DEF Spec

-----------------------------------------------------------------------------
(* Types, and a reservation to the name of every task that was saved, for  *)
(* BeginAnswer and what follows it.                                        *)
THEOREM TypeCorrect == Spec => []TypeOK
<1>1. AnswersInv => TypeOK
  <2> SUFFICES ASSUME AnswersInv PROVE TypeOK
    OBVIOUS
  <2>1. Shapes /\ SavedAreReserved
    BY DEF AnswersInv
  <2>2. \A c \in DOMAIN thread : thread[c].bound => thread[c].op = "auto"
    BY <2>1 DEF Shapes, Placed
  <2>3. task \in [Tasks -> [status : {"none", "queued", "streaming"} \cup Finished,
                            usage : Usages \cup {None}]]
    BY <2>1 DEF Shapes, Statuses
  <2>4. candidate \in [Questions -> [state : {"none", "unsure", "sure", "by user"},
          old : BOOLEAN, answer : {None} \cup Tasks \cup {Claim(t) : t \in Tasks}]]
    BY <2>1 DEF Shapes, Candidates, Answers
  <2> QED
    BY <2>1, <2>2, <2>3, <2>4 DEF Shapes, SavedAreReserved, TypeOK
<1> QED
  BY <1>1, AnswersInvariant, PTL

(* Unless a question was saved from a copy older than its claim, one       *)
(* thread at a time answers by itself (claim_auto_answer_candidate).       *)
THEOREM OneThreadAnswersByItself == Spec => []OneAtATime
<1>1. AnswersInv => OneAtATime
  BY OneByItself DEF AnswersInv, OneAtATime, Answering
<1> QED
  BY <1>1, AnswersInvariant, PTL

(* Under the same condition a question is answered by itself once, over    *)
(* restarts and broken streams: the place of its answer is taken.          *)
THEOREM QuestionsAnsweredOnce == Spec => []OneAutoAnswer
<1>1. AnswersInv => OneAutoAnswer
  <2> SUFFICES ASSUME AnswersInv, ~undone, NEW q \in Questions
               PROVE  Cardinality({t \in Tasks : /\ task[t].usage = <<"auto", q>>
                        /\ task[t].status \in {"streaming", "completed"}}) <= 1
    BY DEF OneAutoAnswer
  <2> DEFINE S == {t \in Tasks : /\ task[t].usage = <<"auto", q>>
                                 /\ task[t].status \in {"streaming", "completed"}}
  <2>1. \A t \in S : t = candidate[q].answer
    BY DEF AnswersInv, WrittenAreBound, Written
  <2>2. S = {} \/ S = {candidate[q].answer}
    BY <2>1
  <2> HIDE DEF S
  <2>3. Cardinality(S) = 0 \/ Cardinality(S) = 1
    BY <2>2, FS_EmptySet, FS_Singleton
  <2> QED
    BY <2>3, SMT DEF S
<1> QED
  BY <1>1, AnswersInvariant, PTL

(* Points are charged for answers that were completed only, whatever is    *)
(* cancelled, failed, asked again or broken off beside it.                 *)
THEOREM ChargesAreForAnswers == Spec => []ChargedWasDelivered
<1>1. AnswersInv => ChargedWasDelivered
  BY DEF AnswersInv, ChargesDelivered, ChargedWasDelivered, Delivered, Ended
<1> QED
  BY <1>1, AnswersInvariant, PTL

(* A late piece of text does not take an ended answer up again: save_task  *)
(* keeps what has ended, and a new answer begins on a task of its own.     *)
THEOREM AnswersStayEnded == Spec => NeverResumes
<1>1. ASSUME AnswersInv, [Next]_vars, NEW t \in Tasks, task[t].status \in Finished
      PROVE  task'[t].status \in Finished
  <2>1. CASE UNCHANGED task
    BY <1>1, <2>1
  <2>2. ASSUME NEW x \in Tasks, NEW s \in Statuses \ {"none"}, SaveTask(x, s)
        PROVE  task'[t].status \in Finished
    <3>1. task'[x].status = s \/ task' = task
      BY <1>1, <2>2, SMT DEF SaveTask, AnswersInv, Shapes
    <3> QED
      BY <1>1, <2>2, SMT DEF SaveTask, AnswersInv, Shapes
  <2>3. ASSUME NEW c \in Requests, NEW op \in Answerers, NEW q \in Questions, NEW x \in Tasks,
               BeginAnswer(c, op, q, x)
        PROVE  task'[t].status \in Finished
    <3>1. task[x] = NoTask
      <4>1. CASE op = "auto"
        BY <1>1, <2>3, <4>1 DEF BeginAnswer, At, AnswersInv, Named
      <4>2. CASE op # "auto"
        BY <2>3, <4>2 DEF BeginAnswer, Fresh
      <4> QED
        BY <4>1, <4>2
    <3>2. x # t
      BY <1>1, <3>1 DEF NoTask, Finished
    <3> QED
      BY <1>1, <2>3, <3>2, SMT DEF BeginAnswer, AnswersInv, Shapes
  <2>4. ASSUME NEW x \in Tasks, TaskLapses(x)
        PROVE  task'[t].status \in Finished
    BY <1>1, <2>4, SMT DEF TaskLapses, AnswersInv, Shapes, Finished
  <2>5. ASSUME NEW c \in Requests, Step(c)
        PROVE  task'[t].status \in Finished
    <3>1. CASE \/ StartAnswer(c) \/ SavePiece(c) \/ CompleteTask(c) \/ FailTask(c) \/ CancelTask(c)
      <4>1. thread[c].task \in Tasks
        BY <1>1, <3>1, SMT DEF AnswersInv, Shapes, Placed, Calls, Savers, Answerers, StartAnswer,
          SavePiece, CompleteTask, FailTask, CancelTask, At
      <4>2. PICK s \in Statuses \ {"none"} : SaveTask(thread[c].task, s)
        BY <3>1 DEF StartAnswer, SavePiece, CompleteTask, FailTask, CancelTask, Statuses, Finished
      <4> QED
        BY <2>2, <4>1, <4>2
    <3>2. CASE ~(\/ StartAnswer(c) \/ SavePiece(c) \/ CompleteTask(c) \/ FailTask(c) \/ CancelTask(c))
      <4>1. UNCHANGED task
        BY <2>5, <3>2 DEF Step, NeverOpened, RefuseAnswer, BreaksOff, LookStopped, AppendAnswer,
          SettleUsage, ReleaseUsage, ReleaseCancelled, answers
      <4> QED
        BY <2>1, <4>1
    <3> QED
      BY <3>1, <3>2
  <2> QED
    <3>1. CASE UNCHANGED vars
      BY <2>1, <3>1 DEF vars
    <3>2. CASE \/ End \/ Restart \/ ReleaseStale
               \/ \E enabled \in BOOLEAN : UpdateAutoAnswer(enabled)
               \/ \E q \in Questions, state \in {"unsure", "sure"} : DetectQuestion(q, state)
               \/ \E c \in Requests, q \in Questions, op \in {"revise", "confirm", "dismiss"} :
                    ReadCandidate(c, op, q)
               \/ \E c \in Requests : SaveCandidate(c)
               \/ \E c \in Requests, q \in Questions, x \in Tasks : ClaimAutoAnswer(c, q, x)
               \/ \E c \in Requests, x \in Tasks : Cancel(c, x)
      <4>1. UNCHANGED task
        BY <3>2 DEF End, Restart, ReleaseStale, UpdateAutoAnswer, DetectQuestion, ReadCandidate,
          SaveCandidate, ClaimAutoAnswer, Cancel, answers
      <4> QED
        BY <2>1, <4>1
    <3>3. CASE \E c \in Requests, q \in Questions, x \in Tasks :
                 AnswerQuestion(c, q, x) \/ StreamAnswerQuestion(c, q, x)
      BY <2>3, <3>3 DEF AnswerQuestion, StreamAnswerQuestion, Answerers
    <3>4. CASE \E x \in Tasks : TaskLapses(x)
      BY <2>4, <3>4
    <3>5. CASE \E c \in Requests : Step(c)
      BY <2>5, <3>5
    <3> QED
      BY <1>1, <3>1, <3>2, <3>3, <3>4, <3>5 DEF Next
<1>2. AnswersInv /\ [Next]_vars =>
        [\A t \in Tasks : task[t].status \in Finished => task'[t].status \in Finished]_vars
  BY <1>1
<1> QED
  BY <1>2, AnswersInvariant, PTL DEF Spec, NeverResumes
=============================================================================
