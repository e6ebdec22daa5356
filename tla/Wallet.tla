------------------------------- MODULE Wallet -------------------------------
(***************************************************************************)
(* One user's points wallet as PostgreSQL runs it: an append-only ledger   *)
(* keyed by reference, reservations for billable uses and for knowledge    *)
(* indexing, and the indexing allowance of time passes.                    *)
(*                                                                         *)
(* A transaction is split where another transaction's commit can be seen:  *)
(* connections run at READ COMMITTED, so each SELECT reads what is         *)
(* committed when that SELECT runs. A transaction that locks the row it    *)
(* reads and commits everything at once is one action.                     *)
(***************************************************************************)
EXTENDS Integers, FiniteSets, FiniteSetsExt

CONSTANTS
  Callers,      \* threads that can be inside a reserve call
  Usages,       \* usage ids: live-answer:..., realtime-minute:..., ...
  UsagePoints,  \* the rate snapshot of each usage id
  WalletOnly,   \* usages a time pass does not pay for (written exam entry)
  Quotes,       \* knowledge index quotes
  QuoteDoc,     \* the document version each quote prices
  QuotePoints,
  Passes,       \* paid time passes
  Allowance,    \* index allowance each pass grants
  Credits,      \* references of positive entries: purchases, redemptions
  CreditPoints,
  WelcomePoints,
  Debits,       \* references of negative admin adjustments
  DebitPoints,
  None          \* nobody holds the user's advisory lock

ASSUME ConstantsAssumption ==
  /\ IsFiniteSet(Usages) /\ IsFiniteSet(Quotes)
  /\ UsagePoints \in [Usages -> Nat \ {0}]
  /\ WalletOnly \subseteq Usages
  /\ QuotePoints \in [Quotes -> Nat \ {0}]
  /\ Allowance \in [Passes -> Nat]
  /\ CreditPoints \in [Credits -> Nat]
  /\ WelcomePoints \in Nat
  /\ DebitPoints \in [Debits -> Nat]
  /\ None \notin Callers \cup Passes

VARIABLES
  ledger,     \* committed entries, a set of [ref, points]
  usage,      \* billing_usage_reservations
  index,      \* billing_index_reservations
  allowance,  \* used and locked allowance of each pass
  pass,       \* where now lies with respect to each pass
  aged,       \* usages whose reservation is older than the reservation TTL
  lock,       \* holder of pg_advisory_xact_lock("billing-user:<user>")
  tx,         \* what each caller's reserve call is doing
  seen,       \* the SUM over the ledger each caller read
  adjusting,  \* adjust_points transactions whose check passed
  disturbed   \* history: what may have made a covered reservation uncovered

vars == <<ledger, usage, index, allowance, pass, aged, lock, tx, seen,
          adjusting, disturbed>>

-----------------------------------------------------------------------------
UsageRef(u)   == <<"usage", u>>
IndexRef(q)   == <<"knowledge-index", QuoteDoc[q]>>
CreditRef(r)  == <<"credit", r>>
DebitRef(r)   == <<"debit", r>>
WelcomeRef    == <<"welcome", "user">>

Posted(ref) == \E e \in ledger : e.ref = ref

\* Mutant: the reference is not unique.
PostAgain(ref, points) == ledger \cup {[ref |-> ref, points |-> points]}

\* INSERT ... ON CONFLICT (reference_id) DO NOTHING
Post(ref, points) ==
  IF Posted(ref) THEN ledger
                 ELSE ledger \cup {[ref |-> ref, points |-> points]}

Balance == MapThenSumSet(LAMBDA e : e.points, ledger)

Held == {u \in Usages : usage[u].status = "reserved"}
HeldQuotes == {q \in Quotes : index[q].status = "reserved"}

Reserved ==
  MapThenSumSet(LAMBDA u : usage[u].points, Held)
  + MapThenSumSet(LAMBDA q : index[q].points, HeldQuotes)

NoUsage == [status |-> "none", points |-> 0]
NoIndex == [status |-> "none", points |-> 0, pass |-> None]
Idle    == [pc |-> "idle", op |-> "none", id |-> None]

ActivePasses == {p \in Passes : pass[p] = "active"}
Unlock(n) == IF n > 0 THEN n - 1 ELSE 0  \* GREATEST(0, n - 1)
HasAllowance(p) == Allowance[p] - allowance[p].used - allowance[p].locked > 0

\* A caller between its two reads: the ledger is summed, the reservations
\* are not.
BetweenReads == {c \in Callers : tx[c].pc = "decide"}

-----------------------------------------------------------------------------
Init ==
  /\ ledger = {}
  /\ usage = [u \in Usages |-> NoUsage]
  /\ index = [q \in Quotes |-> NoIndex]
  /\ allowance = [p \in Passes |-> [used |-> 0, locked |-> 0]]
  /\ pass = [p \in Passes |-> "ahead"]
  /\ aged = {}
  /\ lock = None
  /\ tx = [c \in Callers |-> Idle]
  /\ seen = [c \in Callers |-> 0]
  /\ adjusting = {}
  /\ disturbed = FALSE

(***************************************************************************)
(* Reservations. reserve_usage runs three transactions: the sweep of stale *)
(* reservations, the welcome grant, and the reservation itself.            *)
(***************************************************************************)
Sweep ==
  usage' = [u \in Usages |->
              IF u \in Held \cap aged
                THEN [usage[u] EXCEPT !.status = "released"] ELSE usage[u]]

BeginReserveUsage(c, u) ==
  /\ tx[c] = Idle
  /\ Sweep
  /\ tx' = [tx EXCEPT ![c] = [pc |-> "welcome", op |-> "usage", id |-> u]]
  /\ UNCHANGED <<ledger, index, allowance, pass, aged, lock, seen, adjusting, disturbed>>

EnsureWelcomeGrant(c) ==
  /\ tx[c].pc = "welcome"
  /\ ledger' = Post(WelcomeRef, WelcomePoints)
  /\ tx' = [tx EXCEPT ![c].pc = "lock"]
  /\ UNCHANGED <<usage, index, allowance, pass, aged, lock, seen, adjusting, disturbed>>

BeginReserveIndex(c, q) ==
  /\ tx[c] = Idle
  /\ tx' = [tx EXCEPT ![c] = [pc |-> "lock", op |-> "index", id |-> q]]
  /\ UNCHANGED <<ledger, usage, index, allowance, pass, aged, lock, seen, adjusting, disturbed>>

\* The row exists already: the call returns it, whatever its status.
ReturnExisting(c) ==
  /\ tx[c].pc = "lock" /\ lock = None
  /\ \/ tx[c].op = "usage" /\ usage[tx[c].id].status # "none"
     \/ tx[c].op = "index" /\ index[tx[c].id].status # "none"
  /\ tx' = [tx EXCEPT ![c] = Idle]
  /\ UNCHANGED <<ledger, usage, index, allowance, pass, aged, lock, seen, adjusting, disturbed>>

PassPays(c) ==
  IF tx[c].op = "usage"
    THEN ActivePasses # {} /\ tx[c].id \notin WalletOnly
    ELSE \E p \in ActivePasses : HasAllowance(p)

\* A time pass pays: no points are set aside.
ReserveUsageOnPass(c) ==
  LET u == tx[c].id IN
  /\ tx[c].pc = "lock" /\ tx[c].op = "usage" /\ lock = None
  /\ usage[u].status = "none"
  /\ PassPays(c)
  /\ usage' = [usage EXCEPT ![u] = [status |-> "reserved", points |-> 0]]
  /\ tx' = [tx EXCEPT ![c] = Idle]
  /\ UNCHANGED <<ledger, index, allowance, pass, aged, lock, seen, adjusting, disturbed>>

\* One unit of the pass's allowance is locked instead of points.
ReserveIndexOnPass(c, p) ==
  LET q == tx[c].id IN
  /\ tx[c].pc = "lock" /\ tx[c].op = "index" /\ lock = None
  /\ index[q].status = "none"
  /\ p \in ActivePasses /\ HasAllowance(p)
  /\ allowance' = [allowance EXCEPT ![p].locked = @ + 1]
  /\ index' = [index EXCEPT ![q] = [status |-> "reserved", points |-> 0, pass |-> p]]
  /\ tx' = [tx EXCEPT ![c] = Idle]
  /\ UNCHANGED <<ledger, usage, pass, aged, lock, seen, adjusting, disturbed>>

\* SELECT SUM(points) FROM points_redemption_ledger, under the advisory lock.
ReadBalance(c) ==
  /\ tx[c].pc = "lock" /\ lock = None
  /\ IF tx[c].op = "usage" THEN usage[tx[c].id].status = "none"
                           ELSE index[tx[c].id].status = "none"
  /\ ~PassPays(c)
  /\ lock' = c
  /\ seen' = [seen EXCEPT ![c] = Balance]
  /\ tx' = [tx EXCEPT ![c].pc = "decide"]
  /\ UNCHANGED <<ledger, usage, index, allowance, pass, aged, adjusting, disturbed>>

\* Mutant: a session lock, which outlives its transaction.
EndTransactionKeepingLock(c) ==
  /\ tx' = [tx EXCEPT ![c] = Idle]
  /\ seen' = [seen EXCEPT ![c] = 0]
  /\ UNCHANGED lock

EndTransaction(c) ==
  /\ lock' = IF lock = c THEN None ELSE lock
  /\ tx' = [tx EXCEPT ![c] = Idle]
  /\ seen' = [seen EXCEPT ![c] = 0]

\* Mutant: what other reservations hold is not subtracted.
DecideUsageOnBalance(c) ==
  LET u == tx[c].id IN
  /\ tx[c].pc = "decide" /\ tx[c].op = "usage"
  /\ usage' = IF seen[c] >= UsagePoints[u]
                THEN [usage EXCEPT ![u] = [status |-> "reserved", points |-> UsagePoints[u]]]
                ELSE usage
  /\ EndTransaction(c)
  /\ UNCHANGED <<ledger, index, allowance, pass, aged, adjusting, disturbed>>

\* SELECT SUM(points_reserved), compare, and INSERT or report
\* insufficient_balance, which leaves no row behind.
DecideUsage(c) ==
  LET u == tx[c].id IN
  /\ tx[c].pc = "decide" /\ tx[c].op = "usage"
  /\ usage' = IF seen[c] - Reserved >= UsagePoints[u]
                THEN [usage EXCEPT ![u] = [status |-> "reserved", points |-> UsagePoints[u]]]
                ELSE usage
  /\ EndTransaction(c)
  /\ UNCHANGED <<ledger, index, allowance, pass, aged, adjusting, disturbed>>

DecideIndex(c) ==
  LET q == tx[c].id IN
  /\ tx[c].pc = "decide" /\ tx[c].op = "index"
  /\ index' = IF seen[c] - Reserved >= QuotePoints[q]
                THEN [index EXCEPT ![q] =
                        [status |-> "reserved", points |-> QuotePoints[q], pass |-> None]]
                ELSE index
  /\ EndTransaction(c)
  /\ UNCHANGED <<ledger, usage, allowance, pass, aged, adjusting, disturbed>>

\* The connection or the process dies: the transaction rolls back and its
\* advisory lock goes with it; what earlier transactions committed stays.
AbortReserve(c) ==
  /\ tx[c].pc # "idle"
  /\ EndTransaction(c)
  /\ UNCHANGED <<ledger, usage, index, allowance, pass, aged, adjusting, disturbed>>

(***************************************************************************)
(* Outcomes. Settlement, release and the sweep lock the reservation's row, *)
(* not the user: they commit between the two reads of a reserve call.      *)
(***************************************************************************)
\* Mutant: a late settlement charges a released reservation.
SettleUsageLate(u) ==
  /\ usage[u].status \in {"reserved", "released"}
  /\ ledger' = Post(UsageRef(u), -usage[u].points)
  /\ usage' = [usage EXCEPT ![u].status = "settled"]
  /\ disturbed' = (disturbed \/ (usage[u].points > 0 /\ BetweenReads # {}))
  /\ UNCHANGED <<index, allowance, pass, aged, lock, tx, seen, adjusting>>

SettleUsage(u) ==
  /\ usage[u].status = "reserved"
  /\ ledger' = Post(UsageRef(u), -usage[u].points)
  /\ usage' = [usage EXCEPT ![u].status = "settled"]
  /\ disturbed' = (disturbed \/ (usage[u].points > 0 /\ BetweenReads # {}))
  /\ UNCHANGED <<index, allowance, pass, aged, lock, tx, seen, adjusting>>

ReleaseUsage(u) ==
  /\ usage[u].status = "reserved"
  /\ usage' = [usage EXCEPT ![u].status = "released"]
  /\ UNCHANGED <<ledger, index, allowance, pass, aged, lock, tx, seen, adjusting, disturbed>>

\* The sweep and the welcome grant at the head of state_for_user, in the two
\* transactions they are.
SweepForState ==
  /\ Held \cap aged # {}
  /\ Sweep
  /\ UNCHANGED <<ledger, index, allowance, pass, aged, lock, tx, seen, adjusting, disturbed>>

WelcomeForState ==
  /\ ~Posted(WelcomeRef)
  /\ ledger' = Post(WelcomeRef, WelcomePoints)
  /\ UNCHANGED <<usage, index, allowance, pass, aged, lock, tx, seen, adjusting, disturbed>>

\* Mutant: the allowance is used but stays locked as well.
SettleIndexStillLocked(q) ==
  LET r == index[q] IN
  /\ r.status = "reserved"
  /\ IF r.pass # None
       THEN /\ allowance' = [allowance EXCEPT ![r.pass].used = @ + 1]
            /\ UNCHANGED ledger
       ELSE /\ ledger' = Post(IndexRef(q), -r.points)
            /\ UNCHANGED allowance
  /\ index' = [index EXCEPT ![q].status = "settled"]
  /\ disturbed' = (disturbed \/ (r.points > 0 /\ BetweenReads # {}))
  /\ UNCHANGED <<usage, pass, aged, lock, tx, seen, adjusting>>

SettleIndex(q) ==
  LET r == index[q] IN
  /\ r.status = "reserved"
  /\ IF r.pass # None
       THEN /\ allowance' = [allowance EXCEPT ![r.pass] =
                               [used |-> @.used + 1, locked |-> Unlock(@.locked)]]
            /\ UNCHANGED ledger
       ELSE /\ ledger' = Post(IndexRef(q), -r.points)
            /\ UNCHANGED allowance
  /\ index' = [index EXCEPT ![q].status = "settled"]
  /\ disturbed' = (disturbed \/ (r.points > 0 /\ BetweenReads # {}))
  /\ UNCHANGED <<usage, pass, aged, lock, tx, seen, adjusting>>

ReleaseIndex(q) ==
  LET r == index[q] IN
  /\ r.status = "reserved"
  /\ allowance' = IF r.pass # None
                    THEN [allowance EXCEPT ![r.pass].locked = Unlock(@)]
                    ELSE allowance
  /\ index' = [index EXCEPT ![q].status = "released"]
  /\ UNCHANGED <<ledger, usage, pass, aged, lock, tx, seen, adjusting, disturbed>>

(***************************************************************************)
(* The rest of the ledger's writers, and time.                             *)
(***************************************************************************)
Credit(r) ==
  /\ ~Posted(CreditRef(r))
  /\ ledger' = Post(CreditRef(r), CreditPoints[r])
  /\ UNCHANGED <<usage, index, allowance, pass, aged, lock, tx, seen, adjusting, disturbed>>

\* adjust_points inserts, sums (its own entry included) and commits. It takes
\* no lock and looks at no reservation.
CheckAdjustment(r) ==
  /\ ~Posted(DebitRef(r)) /\ r \notin adjusting
  /\ Balance - DebitPoints[r] >= 0
  /\ adjusting' = adjusting \cup {r}
  /\ UNCHANGED <<ledger, usage, index, allowance, pass, aged, lock, tx, seen, disturbed>>

CommitAdjustment(r) ==
  /\ r \in adjusting
  /\ ledger' = Post(DebitRef(r), -DebitPoints[r])
  /\ adjusting' = adjusting \ {r}
  /\ disturbed' = TRUE
  /\ UNCHANGED <<usage, index, allowance, pass, aged, lock, tx, seen>>

\* A reservation passes its TTL.
AgeUsage(u) ==
  /\ u \in Held \ aged
  /\ aged' = aged \cup {u}
  /\ UNCHANGED <<ledger, usage, index, allowance, pass, lock, tx, seen, adjusting, disturbed>>

\* Passes of one user follow one another: at most one covers any instant.
PassStarts(p) ==
  /\ pass[p] = "ahead" /\ ActivePasses = {}
  /\ pass' = [pass EXCEPT ![p] = "active"]
  /\ UNCHANGED <<ledger, usage, index, allowance, aged, lock, tx, seen, adjusting, disturbed>>

PassEnds(p) ==
  /\ pass[p] = "active"
  /\ pass' = [pass EXCEPT ![p] = "over"]
  /\ UNCHANGED <<ledger, usage, index, allowance, aged, lock, tx, seen, adjusting, disturbed>>

-----------------------------------------------------------------------------
Advance(c) ==
  \/ EnsureWelcomeGrant(c) \/ ReturnExisting(c) \/ ReserveUsageOnPass(c)
  \/ \E p \in Passes : ReserveIndexOnPass(c, p)
  \/ ReadBalance(c) \/ DecideUsage(c) \/ DecideIndex(c)

Call(c) ==
  \/ \E u \in Usages : BeginReserveUsage(c, u)
  \/ \E q \in Quotes : BeginReserveIndex(c, q)

Outcome ==
  \/ \E u \in Usages : SettleUsage(u) \/ ReleaseUsage(u)
  \/ \E q \in Quotes : SettleIndex(q) \/ ReleaseIndex(q)
  \/ SweepForState \/ WelcomeForState

Environment ==
  \/ \E r \in Credits : Credit(r)
  \/ \E r \in Debits : CheckAdjustment(r) \/ CommitAdjustment(r)
  \/ \E u \in Usages : AgeUsage(u)
  \/ \E p \in Passes : PassStarts(p) \/ PassEnds(p)

Next ==
  \/ \E c \in Callers : Call(c) \/ Advance(c) \/ AbortReserve(c)
  \/ Outcome
  \/ Environment

Spec == Init /\ [][Next]_vars

\* A statement that can run runs, and PostgreSQL queues lock requests in
\* order, so a caller is not passed over for ever. Callers need not call.
FairSpec == Spec /\ \A c \in Callers : SF_vars(Advance(c))

-----------------------------------------------------------------------------
Refs == (({"usage"} \X Usages) \cup ({"knowledge-index"} \X {QuoteDoc[q] : q \in Quotes})
         \cup ({"credit"} \X Credits) \cup ({"debit"} \X Debits) \cup {WelcomeRef})

Statuses == {"none", "reserved", "settled", "released"}

(* Every variable has the shape of the table or the transaction it stands  *)
(* for. What a SUM returned (seen) is left as it is.                       *)
TypeOK ==
  /\ ledger \subseteq [ref : Refs, points : Int]
  /\ usage \in [Usages -> [status : Statuses, points : Nat]]
  /\ index \in [Quotes -> [status : Statuses, points : Nat, pass : Passes \cup {None}]]
  /\ allowance \in [Passes -> [used : Nat, locked : Nat]]
  /\ pass \in [Passes -> {"ahead", "active", "over"}]
  /\ aged \subseteq Usages
  /\ lock \in Callers \cup {None}
  /\ tx \in [Callers -> [pc : {"idle", "welcome", "lock", "decide"},
                         op : {"none", "usage", "index"},
                         id : Usages \cup Quotes \cup {None}]]
  /\ DOMAIN seen = Callers
  /\ adjusting \subseteq Debits
  /\ disturbed \in BOOLEAN

(* A caller about to insert a reservation holds the user's lock, and the   *)
(* row it is about to insert still does not exist, so that the lookup it   *)
(* made under the lock is not stale.                                       *)
InsertUnderLock ==
  \A c \in Callers :
    /\ tx[c].pc # "idle" => tx[c].op = "usage" \/ tx[c].op = "index"
    /\ tx[c].op = "usage" => tx[c].id \in Usages
    /\ tx[c].op = "index" => tx[c].id \in Quotes
    /\ tx[c].pc = "decide" =>
         /\ lock = c
         /\ tx[c].op = "usage" => usage[tx[c].id].status = "none"
         /\ tx[c].op = "index" => index[tx[c].id].status = "none"

OneEntryPerReference == \A e, f \in ledger : e.ref = f.ref => e = f

UsageChargedIffSettled ==
  \A u \in Usages :
    /\ Posted(UsageRef(u)) <=> usage[u].status = "settled"
    /\ \A e \in ledger : e.ref = UsageRef(u) => e.points = -usage[u].points

SettledIndexIsCharged ==
  \A q \in Quotes :
    index[q].status = "settled" /\ index[q].points > 0 => Posted(IndexRef(q))

IndexChargeHasSettledQuote ==
  \A e \in ledger : e.ref[1] = "knowledge-index" =>
    \E q \in Quotes : /\ e.ref = IndexRef(q) /\ e.points = -index[q].points
                      /\ index[q].status = "settled"

(* A usage id is charged exactly when its reservation is settled, with the *)
(* points it reserved, and once: a released reservation (by a failed task, *)
(* a failed start, or the sweep of stale ones) is never charged by the     *)
(* settlement that arrives late. A document version is charged at most     *)
(* once, for what one of its settled quotes reserved, however many         *)
(* retries reserved it again.                                              *)
LedgerMatchesReservations ==
  /\ OneEntryPerReference
  /\ UsageChargedIffSettled
  /\ SettledIndexIsCharged
  /\ IndexChargeHasSettledQuote

OnPass(p, status) == {q \in Quotes : index[q].pass = p /\ index[q].status = status}

FreeOnPass == \A q \in Quotes : index[q].pass # None => index[q].points = 0

(* A pass's indexing allowance is accounted for exactly: what is locked is *)
(* what is reserved on it, what is used is what was settled on it, and the *)
(* two never exceed what the pass granted, whichever order reservations,   *)
(* settlements and releases commit in. What a pass pays for costs no       *)
(* points.                                                                 *)
AllowanceConserved ==
  /\ FreeOnPass
  /\ \A p \in Passes :
       /\ allowance[p].locked = Cardinality(OnPass(p, "reserved"))
       /\ allowance[p].used = Cardinality(OnPass(p, "settled"))
       /\ allowance[p].locked + allowance[p].used <= Allowance[p]

(* The points promised to unfinished work never exceed the balance.        *)
(* reserve_usage checks this before each reservation, and the product      *)
(* requires it of concurrent requests.                                     *)
Solvent == Balance >= Reserved

(* The user's advisory lock does make concurrent reserve calls safe from   *)
(* each other, and releases, sweeps, credits and crashes in the middle of  *)
(* one are harmless: only a settlement committing between the two reads of *)
(* a reserve call, or an admin debit, can leave promised points uncovered. *)
SolventUnlessDisturbed == ~disturbed => Solvent

(* Settled and released are final for every reservation, and no row is     *)
(* dropped or repriced once it is written.                                 *)
OutcomesAreFinal ==
  [][/\ \A u \in Usages :
          /\ usage[u].status \in {"settled", "released"} => usage'[u] = usage[u]
          /\ usage[u].status = "reserved" =>
               usage'[u].status # "none" /\ usage'[u].points = usage[u].points
     /\ \A q \in Quotes :
          /\ index[q].status \in {"settled", "released"} => index'[q] = index[q]
          /\ index[q].status = "reserved" =>
               /\ index'[q].status # "none"
               /\ index'[q].points = index[q].points
               /\ index'[q].pass = index[q].pass]_vars

(* Every reserve call that neither dies nor is rolled back returns: callers *)
(* queue on one lock and the holder always gives it back.                  *)
EveryCallReturns == \A c \in Callers : tx[c].pc # "idle" ~> tx[c].pc = "idle"

-----------------------------------------------------------------------------
\* The state of one use as the ledger and the reservations show it together.
ChargeOf(u) ==
  CASE usage[u].status = "none" /\ ~Posted(UsageRef(u)) -> "open"
    [] usage[u].status = "reserved" /\ ~Posted(UsageRef(u)) -> "held"
    [] usage[u].status = "settled" /\ Posted(UsageRef(u)) -> "charged"
    [] usage[u].status = "released" /\ ~Posted(UsageRef(u)) -> "waived"
    [] OTHER -> "corrupt"

UC == INSTANCE UsageCharge WITH charge <- [u \in Usages |-> ChargeOf(u)]

(* Whatever the interleaving, each use is held, then charged once or       *)
(* waived for ever, as UsageCharge promises.                               *)
ChargesOnce == UC!Spec
=============================================================================
