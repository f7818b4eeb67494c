----------------------------- MODULE SubjectLine -----------------------------
(***************************************************************************)
(* The life of one subject line under every call that writes to it:        *)
(* ingest_claim, submit_adjudication, the two sweeps, assert_validity and  *)
(* reconcile, each a single step here, for the agent's write lock and the  *)
(* transaction make it one (module Adjudication has the steps inside).     *)
(*                                                                         *)
(* What is not one step is the clock.  A call reads it before it waits for *)
(* its locks, reconcile after: a call may run with an instant that lies    *)
(* before those of calls that have already written.                        *)
(***************************************************************************)
EXTENDS Belief

CONSTANTS
  Offer,       \* what hosts ingest: [value, start, end, timed, origin]
  BoundAt,     \* the instants hosts bound claims at
  Oracle,      \* whether an oracle and a pending store are configured
  Epoch,       \* the clock when the engine was opened
  MaxClock,    \* bound: readings of the clock
  MaxClaims,   \* bound: claims ingested
  MaxWaiting   \* bound: calls that have read the clock and not yet run

ASSUME SubjectLineAssumption ==
  /\ \A o \in Offer : /\ o.start \in Nat /\ o.end \in Nat /\ o.timed \in BOOLEAN
                      /\ o.origin \in {"external", "derived"}
                      /\ o.end <= Never
  /\ BoundAt \subseteq Nat \ {0} /\ \A at \in BoundAt : at < Never
  /\ Oracle \in BOOLEAN
  /\ Never \in Nat /\ Epoch \in Nat /\ MaxClock \in Nat /\ Epoch <= MaxClock /\ MaxClock < Never
  /\ MaxClaims \in Nat /\ MaxWaiting \in Nat

VARIABLES
  claims,      \* rows of claims, in any order
  ledger,      \* rows of ledger_entries
  assertions,  \* rows of validity_assertions
  pending,     \* rows of pending_adjudications
  clock,       \* the last instant Utc::now() gave
  waiting      \* the instants read by calls that have not run yet

vars == <<claims, ledger, assertions, pending, clock, waiting>>

L == [claims |-> claims, ledger |-> ledger, assertions |-> assertions]

Disposition == {"Cheap", "Inferred", "Queued", "Contested", "Quarantined", "Superseded", "Reinstated"}
Verdict     == {"affirm", "deny", "unknown"}
Writer      == Verdict \cup {"ingest", "host_bound", "reopen", "reconcile", "expiry"}

\* Mutant: stamped when the entry is written, not when the call began.
Entry_Later(c, disp, now, by, about) ==
  [claim |-> c, disp |-> disp, at |-> clock + 2, by |-> by, about |-> about]

Entry(c, disp, now, by, about) ==
  [claim |-> c, disp |-> disp, at |-> now, by |-> by, about |-> about]
Assertion(c, kind, at, now) == [claim |-> c, kind |-> kind, at |-> at, asserted |-> now]

ClaimOf(tx) == CHOOSE c \in claims : c.tx = tx

\* latest_disposition_from_ledger
Queued(c) == Latest(L, c).disp = "Queued"

Init ==
  /\ claims = {} /\ ledger = {} /\ assertions = {} /\ pending = {}
  /\ clock = Epoch /\ waiting = {}

Known == {c.tx : c \in claims}

\* A call reads the clock and goes on to wait for its locks; it names claims it knew then.
ReadClock ==
  /\ clock < MaxClock /\ Cardinality(waiting) < MaxWaiting
  /\ clock' = clock + 1
  /\ waiting' = waiting \cup {[now |-> clock + 1, known |-> Known]}
  /\ UNCHANGED <<claims, ledger, assertions, pending>>

\* A call that finds its locks free.
Fresh == [now |-> clock + 1, known |-> Known]

\* The call that runs now, one that waited or a fresh one.
Runs(call) ==
  \/ call \in waiting /\ waiting' = waiting \ {call} /\ UNCHANGED clock
  \/ call = Fresh /\ clock < MaxClock /\ clock' = clock + 1 /\ UNCHANGED waiting

-----------------------------------------------------------------------------
\* The claim a candidate is measured against: what the line believes, else what it believed.
Incumbent(believed, rivals) ==
  IF believed # {} THEN {First(believed)} ELSE IF rivals # {} THEN {First(rivals)} ELSE {}

Ingest(offer, call) ==
  LET now == call.now
      c == [value |-> offer.value, start |-> offer.start, end |-> offer.end,
            timed |-> offer.timed, origin |-> offer.origin, tx |-> now]
      rivals    == Rivals(L, now)
      incumbent == Incumbent(Fold(L, now, now), rivals)
      disp      == Gate(c, Conflicts(c, incumbent, rivals), Oracle)
  IN  /\ Runs(call) /\ Cardinality(claims) < MaxClaims
      /\ claims' = claims \cup {c}
      /\ ledger' = ledger \cup {Entry(now, disp, now, "ingest", now)}
      /\ pending' = IF disp # "Queued" THEN pending
                    ELSE pending \cup {[challenger |-> now, status |-> "pending",
                                        incumbent |-> i.tx] : i \in incumbent}
      /\ UNCHANGED assertions

-----------------------------------------------------------------------------
Become(row, status) == pending' = (pending \ {row}) \cup {[row EXCEPT !.status = status]}

\* bound_claim
Bounded(tx, at, now, by, about) ==
  /\ assertions' = assertions \cup {Assertion(tx, "Bound", at, now)}
  /\ ledger' = ledger \cup {Entry(tx, "Superseded", now, by, about)}

\* Mutant: the incumbent ends when the verdict is applied.
HandOver_Now(c, now) == now

\* Where an affirmed challenger ends its incumbent: at its own start, if that is trusted.
HandOver(c, now) == IF Trusted(c) THEN c.start ELSE now

Affirm(row, now) ==
  LET c == ClaimOf(row.challenger)
  IN  /\ assertions' = assertions \cup
           {Assertion(row.incumbent, "Bound", HandOver(c, now), now)}
      /\ ledger' = ledger \cup {Entry(row.incumbent, "Superseded", now, "affirm", c.tx),
                                Entry(c.tx, "Cheap", now, "affirm", c.tx)}

Deny(row, now) == Bounded(row.challenger, now, now, "deny", row.challenger)

Abstain(row, now) ==
  /\ ledger' = ledger \cup {Entry(tx, "Contested", now, "unknown", row.challenger) :
                              tx \in {row.challenger, row.incumbent}}
  /\ UNCHANGED assertions

\* A verdict on a handle that has not expired; the row's status is not read.
Submit(row, verdict, call) ==
  /\ Runs(call) /\ row.challenger \in call.known
  /\ row.status # "expired" /\ Queued(ClaimOf(row.challenger))
  /\ CASE verdict = "affirm" -> Affirm(row, call.now)
       [] verdict = "deny"   -> Deny(row, call.now)
       [] verdict = "unknown" -> Abstain(row, call.now)
  /\ Become(row, "resolved")
  /\ UNCHANGED claims

\* The deadline of a queued challenger has passed: revert_expired_row, or submit's own check.
Expire(row, call) ==
  /\ Runs(call) /\ row.challenger < call.now /\ row.status = "pending" /\ Queued(ClaimOf(row.challenger))
  /\ ledger' = ledger \cup {Entry(row.challenger, "Contested", call.now, "expiry", row.challenger)}
  /\ Become(row, "expired")
  /\ UNCHANGED <<claims, assertions>>

\* list_queued_orphan_claims and revert_orphan.
RevertOrphan(c, call) ==
  /\ Runs(call) /\ Queued(c)
  /\ \A row \in pending : row.challenger = c.tx => row.status # "pending"
  /\ ledger' = ledger \cup {Entry(c.tx, "Contested", call.now, "expiry", c.tx)}
  /\ UNCHANGED <<claims, assertions, pending>>

-----------------------------------------------------------------------------
\* assert_validity with Bound: the gates in their order, then one atomic unit.
AssertBound(c, at, call) ==
  /\ Runs(call) /\ c.tx \in call.known
  /\ ~Queued(c) /\ ~Denied(L, c)
  /\ c.start <= at
  /\ ActiveBound(L, c, call.now) = Never
  /\ at < c.end
  /\ Bounded(c.tx, at, call.now, "host_bound", c.tx)
  /\ UNCHANGED <<claims, pending>>

\* assert_validity with Reopen, which also reverses a denial.
Reopen(c, call) ==
  /\ Runs(call) /\ c.tx \in call.known /\ ActiveBound(L, c, call.now) # Never
  /\ assertions' = assertions \cup {Assertion(c.tx, "Reopen", call.now, call.now)}
  /\ ledger' = ledger \cup {Entry(c.tx, "Reinstated", call.now, "reopen", c.tx)}
  /\ UNCHANGED <<claims, pending>>

-----------------------------------------------------------------------------
\* What reconcile decides for each claim of the fold, out of the others.
Decided(M, now) ==
  LET believed == Fold(M, now, now)
      Others(c) == {d \in Rivals(M, now) : d.tx # c.tx}
      Outcome(c) ==
        Gate(c, Conflicts(c, Incumbent(believed \ {c}, Others(c)), Others(c)), Oracle)
  IN  {<<c.tx, Outcome(c)>> : c \in believed}

\* Mutant: a pass over a contested line supersedes.
Note_Supersedes(o, now) ==
  Entry(o[1], IF o[2] \in {"Contested", "Queued"} THEN "Superseded" ELSE o[2], now, "reconcile", o[1])

Note(o, now) == Entry(o[1], o[2], now, "reconcile", o[1])

Reconcile ==
  LET now == clock + 1
  IN  /\ clock < MaxClock /\ Fold(L, now, now) # {}
      /\ clock' = now
      /\ ledger' = ledger \cup {Note(o, now) : o \in Decided(L, now)}
      /\ UNCHANGED <<claims, assertions, pending, waiting>>

-----------------------------------------------------------------------------
Call(call) ==
  \/ \E offer \in Offer : Ingest(offer, call)
  \/ \E row \in pending : \E verdict \in Verdict : Submit(row, verdict, call)
  \/ \E row \in pending : Expire(row, call)
  \/ \E c \in claims : RevertOrphan(c, call)
  \/ \E c \in claims, at \in BoundAt : AssertBound(c, at, call)
  \/ \E c \in claims : Reopen(c, call)

Next == ReadClock \/ Reconcile \/ \E call \in waiting \cup {Fresh} : Call(call)

Spec == Init /\ [][Next]_vars

-----------------------------------------------------------------------------
(* Safety. *)

Instant == 1..MaxClock

\* Rows refer to rows that exist, every claim has an outcome, and nothing is stamped with an
\* instant no call has read.
TypeOK ==
  /\ clock \in Epoch..MaxClock
  /\ waiting \subseteq [now : Epoch + 1..clock, known : SUBSET Known]
  /\ \A c \in claims : /\ c.tx \in Epoch + 1..clock /\ (\A d \in claims : c.tx = d.tx => c = d)
                       /\ \E e \in ledger : e.claim = c.tx
  /\ ledger \subseteq [claim : Known, disp : Disposition, at : Epoch + 1..clock,
                       by : Writer, about : Known]
  /\ assertions \subseteq [claim : Known, kind : {"Bound", "Reopen"}, at : Nat,
                           asserted : Epoch + 1..clock]
  /\ pending \subseteq [challenger : Known, incumbent : Known,
                        status : {"pending", "resolved", "expired"}]

\* No call changes what the line was believed to be before the instant it was stamped with
\* (the as_of_tx_time cutoffs of query_memory), at whatever valid time it is asked for.
PastIsImmutable ==
  [][\A t \in 1..clock : (\A call \in waiting \ waiting' : t < call.now) =>
       /\ Recall(L', t) = Recall(L, t)
       /\ \A v \in Instant : RecallAt(L', t, v) = RecallAt(L, t, v)]_vars

\* A challenger whose denial is its last entry might as well never have been ingested: it
\* changes no answer, and no later claim is measured against it
\* (build_denied_via_adjudication_set and its three users).
DeniedLeavesNoTrace ==
  \A c \in claims : Latest(L, c).by = "deny" =>
    LET without == [L EXCEPT !.claims = @ \ {c}]
    IN  /\ Recall(L, clock) = Recall(without, clock)
        /\ \A v \in Instant : RecallAt(L, clock, v) = RecallAt(without, clock, v)
        /\ Rivals(L, clock) = Rivals(without, clock)

\* The claim tx was once given an end that was yet to come, which took effect later.
EndedAhead(tx) == \E a \in assertions : a.claim = tx /\ a.asserted < a.at

\* A dated claim that was committed without a conflict overlaps no older claim of another
\* value, open or closed by a bound, unless that one was brought back: reopened, given a later
\* end or a doubt by a verdict, out of quarantine, or while it waited for an end to come
\* (build_conflict_candidate_claims: a retroactive claim over an ended fact is contested).
NothingCommittedSilently ==
  \A c, d \in claims :
    (/\ d.tx < c.tx /\ c.value # d.value /\ Trusted(c) /\ Trusted(d) /\ d \in Reentrant(L, clock)
     /\ Latest(L, c).disp = "Cheap" /\ Latest(L, c).by = "ingest" /\ ~EndedAhead(d.tx)
     /\ \A e \in ledger : e.claim = d.tx =>
          e.disp # "Quarantined" /\ (e.by \in {"reopen", "affirm", "unknown"} => e.at < c.tx))
    => Apart(c, Window(L, d, clock))

\* reconcile decides the same again when nothing else happened since (reconcile.rs, I6), but
\* for a claim the gate quarantines, which is believed only if a host has brought it back.
ReconcileIdempotent ==
  [][Reconcile /\ (\A c \in Fold(L, clock', clock') : ~Incoherent(c))
       => Decided(L', clock') = Decided(L, clock')]_vars

\* Once an affirmed challenger and its incumbent are all there is on the line, both dated, each
\* instant belongs to exactly one of them: the challenger from its start on, the incumbent
\* before it (bound_claim at the challenger's start, submit_adjudication.rs).
AffirmedHandsOver ==
  \A row \in pending :
    LET c == ClaimOf(row.challenger)
        i == ClaimOf(row.incumbent)
    IN  (/\ claims = {c, i} /\ Trusted(c) /\ Trusted(i)
         /\ Latest(L, c).disp = "Cheap" /\ Latest(L, c).by = "affirm"
         /\ Latest(L, i).disp = "Superseded" /\ Latest(L, i).by = "affirm")
        => \A v \in Instant :
             RecallAt(L, clock, v) = IF v >= c.start THEN IF v < c.end THEN {c} ELSE {}
                                     ELSE IF Holds(i, v) THEN {i} ELSE {}

\* What history shows, when the windows it shows do not overlap, is what a point-in-time read
\* answers instant by instant, for the claims that ended as well as for the one that holds
\* (compute_history_windows, narrow_live_claims_for_valid_at).
HistoryTellsThePast ==
  LET Shown(c) == [c EXCEPT !.end = Until(L, c, clock)]
  IN  (/\ \A c \in claims : Trusted(c) /\ c \in Reentrant(L, clock)
       /\ \A c, d \in claims : c # d => Apart(Shown(c), Shown(d)))
      => \A c \in claims, v \in Instant : c \in RecallAt(L, clock, v) <=> Holds(Shown(c), v)
=============================================================================
