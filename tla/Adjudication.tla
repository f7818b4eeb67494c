---------------------------- MODULE Adjudication ----------------------------
(***************************************************************************)
(* The adjudication lifecycle of the mempill engine, with an oracle and a  *)
(* pending store configured: ingest_claim, submit_adjudication and         *)
(* sweep_expired_adjudications as concurrent tasks of one EngineHandle.    *)
(*                                                                         *)
(* A task reads the clock first, then takes the store-wide lock (adapters  *)
(* that ask for it) and the lock of the claim's agent, then runs its       *)
(* use-case: reads, one transaction, and a write to the pending table      *)
(* outside that transaction.  Each of those is a step of its own.          *)
(*                                                                         *)
(* A challenger is identified with the oracle's handle for it: an ingest   *)
(* makes one request and the oracle answers with a fresh handle.           *)
(***************************************************************************)
EXTENDS Naturals, Sequences

CONSTANTS
  Claim,        \* claim ids (uuids) that may ever be ingested
  Proc,         \* tasks calling the engine
  Agent,        \* agents, each with its own write lock
  Line,         \* subject lines
  AgentOf,      \* the agent a claim belongs to
  LineOf,       \* the subject line a claim belongs to
  Seed,         \* claims committed before the engine was opened
  GlobalLock,   \* requires_global_write_serialization(): SQLite TRUE, Postgres FALSE
  TTL,          \* default_adjudication_ttl in ticks, 0 when not configured
  Cancellable,  \* whether callers drop the future of a running call
  Nobody,       \* owner of a free lock
  NoClaim,      \* no incumbent
  MaxTime, MaxFault, MaxCrash   \* bounds: ticks, failing or dropped calls, process crashes

ASSUME AdjudicationAssumption ==
  /\ AgentOf \in [Claim -> Agent] /\ LineOf \in [Claim -> Line]
  /\ \A c, d \in Claim : LineOf[c] = LineOf[d] => AgentOf[c] = AgentOf[d]
  /\ Seed \subseteq Claim
  /\ Nobody \notin Proc /\ NoClaim \notin Claim
  /\ GlobalLock \in BOOLEAN /\ Cancellable \in BOOLEAN
  /\ TTL \in Nat /\ MaxTime \in Nat /\ MaxFault \in Nat /\ MaxCrash \in Nat

VARIABLES
  clock,      \* Utc::now()
  ledger,     \* claim |-> its ledger entries, in the order they were committed
  bounds,     \* claim |-> asserted_at of its Bound validity assertions
  pending,    \* challenger |-> its row of pending_adjudications
  asked,      \* challengers the oracle holds a handle for (external)
  storeLock,  \* holder of EngineHandle::store_write_lock
  agentLock,  \* agent |-> holder of its write lock
  task,       \* what each task is doing: program counter and local variables
  faults, crashes

durable == <<ledger, bounds, pending, asked>>
locks   == <<storeLock, agentLock>>
budget  == <<faults, crashes>>
vars    == <<clock, durable, locks, task, budget>>

Time    == 0..MaxTime
Never   == MaxTime + 1      \* expires_at = NULL: an instant the clock never reaches
Disp    == {"Cheap", "Queued", "Quarantined", "Contested", "Superseded"}
Verdict == {"affirm", "deny", "unknown"}
Cause   == Verdict \cup {"ingest", "expiry", "orphan"}
Entry   == [disp : Disp, at : Time, by : Cause, about : Claim]
Row     == [status : {"none", "pending", "resolved", "expired"},
            incumbent : Claim \cup {NoClaim}, expires : Nat]
NoRow   == [status |-> "none", incumbent |-> NoClaim, expires |-> Never]

Waiting == {"storeLock", "agentLock"}
Reading == {"resolve", "list"}      \* spawn_blocking without a lock
Inside  == {"read", "commit", "ask", "insert", "check", "apply", "mark",
            "revert", "markExpired", "done", "failed"}   \* under the locks
Sweep   == {"expire", "orphan"}     \* the two phases of a sweep

Task == [pc : Inside \cup Reading \cup Waiting \cup {"next", "idle"},
         op : {"none", "ingest", "submit"} \cup Sweep,
         now : Time,                      \* the instant read at the async boundary
         cur : Claim \cup {NoClaim},      \* the claim worked on
         disp : Disp,                     \* ingest: what the gate decided
         inc : Claim \cup {NoClaim},      \* ingest: the incumbent
         verdict : Verdict,               \* submit: the oracle's answer
         todo : SUBSET Claim,             \* sweep: listed and not yet handled
         detached : BOOLEAN]              \* the caller dropped the future
Idle == [pc |-> "idle", op |-> "none", now |-> 0, cur |-> NoClaim, disp |-> "Cheap",
         inc |-> NoClaim, verdict |-> "unknown", todo |-> {}, detached |-> FALSE]

-----------------------------------------------------------------------------
(* Reading the ledger.                                                     *)

\* build_latest_disposition_map, which the fold reads: among equal instants the entry
\* appended first.
IsFoldLatest(c, k) ==
  /\ k \in DOMAIN ledger[c]
  /\ \A j \in DOMAIN ledger[c] :
        \/ ledger[c][j].at < ledger[c][k].at
        \/ ledger[c][j].at = ledger[c][k].at /\ j >= k

\* latest_disposition_from_ledger, which every state guard reads: among equal instants
\* the entry appended last (max_by_key over ORDER BY recorded_at).
IsLatest(c, k) ==
  /\ k \in DOMAIN ledger[c]
  /\ \A j \in DOMAIN ledger[c] :
        \/ ledger[c][j].at < ledger[c][k].at
        \/ ledger[c][j].at = ledger[c][k].at /\ j <= k

\* Mutant: any entry counts, not the latest.
HasDisposition_Any(c, d) == \E k \in DOMAIN ledger[c] : ledger[c][k].disp = d

HasDisposition(c, d) == \E k \in DOMAIN ledger[c] : IsLatest(c, k) /\ ledger[c][k].disp = d

Queued(c) == HasDisposition(c, "Queued")

\* Mutant: an inner join, which loses the claims that never had a row.
ListedOrphan_Joined(c) == Queued(c) /\ pending[c].status \in {"resolved", "expired"}

\* list_queued_orphan_claims: SOME entry at the greatest recorded_at says Queued,
\* and no row of the pending table has status 'pending'.
ListedOrphan(c) ==
  /\ \E k \in DOMAIN ledger[c] :
        /\ ledger[c][k].disp = "Queued"
        /\ \A j \in DOMAIN ledger[c] : ledger[c][j].at <= ledger[c][k].at
  /\ pending[c].status # "pending"

\* active_bound_at: an assertion later than the reader's instant is not seen.
ActiveBound(c, asOf) == \E t \in bounds[c] : t <= asOf

Committed(c) == ledger[c] # <<>>

\* The claims an ingest may find as its incumbent.  Which of several live claims comes
\* first depends on valid-time windows, which this module leaves open; when the line
\* has none, or a succession of them leaves a gap at the reader's instant, claims that
\* were closed but once believed stand in.
Live(c, asOf) ==
  /\ Committed(c)
  /\ ~ActiveBound(c, asOf)
  /\ \A k \in DOMAIN ledger[c] : IsFoldLatest(c, k) => ledger[c][k].disp \notin {"Superseded", "Quarantined"}
Denied(c) == \E k \in DOMAIN ledger[c] : IsLatest(c, k) /\ ledger[c][k].by = "deny"
Closed(c, asOf) == Committed(c) /\ ActiveBound(c, asOf) /\ ~Denied(c)
Incumbents(c, asOf) ==
  LET others == {d \in Claim \ {c} : LineOf[d] = LineOf[c]}
      live   == {d \in others : Live(d, asOf)}
  IN  IF \E d \in Claim : live = {d} THEN live
                                   ELSE live \cup {d \in others : Closed(d, asOf)}

\* Mutant: the entry is stamped after the instant the call read.
Note_Later(c, d, p, by) == [disp |-> d, at |-> task[p].now + 1, by |-> by, about |-> c]

Note(c, d, p, by) == [disp |-> d, at |-> task[p].now, by |-> by, about |-> c]

-----------------------------------------------------------------------------
Init ==
  /\ clock = 0
  /\ ledger = [c \in Claim |-> IF c \in Seed
                 THEN <<[disp |-> "Cheap", at |-> 0, by |-> "ingest", about |-> c]>>
                 ELSE <<>>]
  /\ bounds = [c \in Claim |-> {}]
  /\ pending = [c \in Claim |-> NoRow]
  /\ asked = {}
  /\ storeLock = Nobody
  /\ agentLock = [a \in Agent |-> Nobody]
  /\ task = [p \in Proc |-> Idle]
  /\ faults = 0
  /\ crashes = 0

Goto(p, l) == task' = [task EXCEPT ![p].pc = l]

FirstLock == IF GlobalLock THEN "storeLock" ELSE "agentLock"

Tick ==
  /\ clock < MaxTime
  /\ clock' = clock + 1
  /\ UNCHANGED <<durable, locks, task, budget>>

-----------------------------------------------------------------------------
(* Locks, shared by every write call.                                      *)

AcquireStore(p) ==
  /\ task[p].pc = "storeLock"
  /\ storeLock = Nobody
  /\ storeLock' = p
  /\ Goto(p, "agentLock")
  /\ UNCHANGED <<clock, durable, agentLock, budget>>

\* Mutant: two tasks that ask for a new agent's lock get a mutex each.
AcquireAgent_TwoMutexes(p) ==
  /\ task[p].pc = "agentLock"
  /\ agentLock' = [agentLock EXCEPT ![AgentOf[task[p].cur]] = p]
  /\ Goto(p, IF task[p].op = "ingest" THEN "read" ELSE "check")
  /\ UNCHANGED <<clock, durable, storeLock, budget>>

AcquireAgent(p) ==
  /\ task[p].pc = "agentLock"
  /\ agentLock[AgentOf[task[p].cur]] = Nobody
  /\ agentLock' = [agentLock EXCEPT ![AgentOf[task[p].cur]] = p]
  /\ Goto(p, IF task[p].op = "ingest" THEN "read" ELSE "check")
  /\ UNCHANGED <<clock, durable, storeLock, budget>>

FreeLocksOf(p) ==
  /\ storeLock' = IF storeLock = p THEN Nobody ELSE storeLock
  /\ agentLock' = [a \in Agent |-> IF agentLock[a] = p THEN Nobody ELSE agentLock[a]]

\* The guards drop when the call returns, or at the end of a sweep's loop body;
\* an error leaves the sweep through `?`.
Release(p) ==
  /\ task[p].pc \in {"done", "failed"}
  /\ FreeLocksOf(p)
  /\ task' = [task EXCEPT ![p] =
        IF @.pc = "done" /\ @.op \in Sweep /\ ~@.detached
        THEN [@ EXCEPT !.pc = "next", !.cur = NoClaim] ELSE Idle]
  /\ UNCHANGED <<clock, durable, budget>>

-----------------------------------------------------------------------------
(* ingest_claim                                                            *)

BeginIngest(p, c) ==
  /\ task[p] = Idle
  /\ ~Committed(c)
  /\ \A q \in Proc : task[q].op = "ingest" => task[q].cur # c
  /\ task' = [task EXCEPT ![p] =
        [Idle EXCEPT !.op = "ingest", !.pc = FirstLock, !.now = clock, !.cur = c]]
  /\ UNCHANGED <<clock, durable, locks, budget>>

\* Fold, reconcile and gate: an incoherent window is quarantined, a candidate that
\* contradicts its incumbent is queued for the oracle, any other is committed.
IngestRead(p) ==
  /\ task[p].pc = "read"
  /\ \/ \E d \in {"Cheap", "Quarantined"} :
           task' = [task EXCEPT ![p] = [@ EXCEPT !.pc = "commit", !.disp = d]]
     \/ \E i \in Incumbents(task[p].cur, task[p].now) :
           task' = [task EXCEPT ![p] = [@ EXCEPT !.pc = "commit", !.disp = "Queued", !.inc = i]]
  /\ UNCHANGED <<clock, durable, locks, budget>>

IngestCommit(p) ==
  /\ task[p].pc = "commit"
  /\ ledger' = [ledger EXCEPT ![task[p].cur] =
        Append(@, Note(task[p].cur, task[p].disp, p, "ingest"))]
  /\ Goto(p, IF task[p].disp = "Queued" THEN "ask" ELSE "done")
  /\ UNCHANGED <<clock, bounds, pending, asked, locks, budget>>

\* From here on the oracle may answer.
IngestAsk(p) ==
  /\ task[p].pc = "ask"
  /\ asked' = asked \cup {task[p].cur}
  /\ Goto(p, "insert")
  /\ UNCHANGED <<clock, ledger, bounds, pending, locks, budget>>

Deadline(t) == IF TTL = 0 THEN Never ELSE t + TTL

IngestInsert(p) ==
  /\ task[p].pc = "insert"
  /\ pending' = [pending EXCEPT ![task[p].cur] =
        [status |-> "pending", incumbent |-> task[p].inc, expires |-> Deadline(task[p].now)]]
  /\ Goto(p, "done")
  /\ UNCHANGED <<clock, ledger, bounds, asked, locks, budget>>

-----------------------------------------------------------------------------
(* submit_adjudication                                                     *)

BeginSubmit(p, c, v) ==
  /\ task[p] = Idle
  /\ c \in asked
  /\ task' = [task EXCEPT ![p] =
        [Idle EXCEPT !.op = "submit", !.pc = "resolve", !.now = clock, !.cur = c, !.verdict = v]]
  /\ UNCHANGED <<clock, durable, locks, budget>>

\* The lock-free first read of the row: unknown handles are refused here.
SubmitResolve(p) ==
  /\ task[p].pc = "resolve"
  /\ IF pending[task[p].cur].status = "none"
       THEN task' = [task EXCEPT ![p] = Idle]
       ELSE Goto(p, FirstLock)
  /\ UNCHANGED <<clock, durable, locks, budget>>

Expired(c, t) == pending[c].expires <= t

\* Lazy expiry and the state guard.  The row's status is not looked at.
SubmitCheck(p) ==
  /\ task[p].pc = "check" /\ task[p].op = "submit"
  /\ Goto(p, IF ~Queued(task[p].cur) THEN "done"
             ELSE IF Expired(task[p].cur, task[p].now) THEN "revert" ELSE "apply")
  /\ UNCHANGED <<clock, durable, locks, budget>>

\* A verdict on c is noted on the claims it concerns, with the disposition each gets.
NoteOn(claims, c, disp(_), p, by) ==
  ledger' = [d \in Claim |-> IF d \in claims THEN Append(ledger[d], Note(c, disp(d), p, by))
                                            ELSE ledger[d]]

\* Mutant: the loser gets its ledger entry but no Bound assertion.
Affirm_NoBound(p, c, i) ==
  /\ NoteOn({c, i}, c, LAMBDA d : IF d = c THEN "Cheap" ELSE "Superseded", p, "affirm")
  /\ UNCHANGED bounds

Affirm(p, c, i) ==
  /\ NoteOn({c, i}, c, LAMBDA d : IF d = c THEN "Cheap" ELSE "Superseded", p, "affirm")
  /\ bounds' = [bounds EXCEPT ![i] = @ \cup {task[p].now}]

Deny(p, c) ==
  /\ NoteOn({c}, c, LAMBDA d : "Superseded", p, "deny")
  /\ bounds' = [bounds EXCEPT ![c] = @ \cup {task[p].now}]

Abstain(p, c, i) ==
  /\ NoteOn({c, i}, c, LAMBDA d : "Contested", p, "unknown")
  /\ UNCHANGED bounds

SubmitApply(p) ==
  /\ task[p].pc = "apply"
  /\ LET c == task[p].cur
         i == pending[c].incumbent
     IN  \/ task[p].verdict = "affirm"  /\ Affirm(p, c, i)
         \/ task[p].verdict = "deny"    /\ Deny(p, c)
         \/ task[p].verdict = "unknown" /\ Abstain(p, c, i)
  /\ Goto(p, "mark")
  /\ UNCHANGED <<clock, pending, asked, locks, budget>>

SubmitMark(p) ==
  /\ task[p].pc = "mark"
  /\ pending' = [pending EXCEPT ![task[p].cur].status = "resolved"]
  /\ Goto(p, "done")
  /\ UNCHANGED <<clock, ledger, bounds, asked, locks, budget>>

-----------------------------------------------------------------------------
(* sweep_expired_adjudications: phase "expire", then phase "orphan".       *)

BeginSweep(p) ==
  /\ task[p] = Idle
  /\ task' = [task EXCEPT ![p] = [Idle EXCEPT !.op = "expire", !.pc = "list", !.now = clock]]
  /\ UNCHANGED <<clock, durable, locks, budget>>

ListedExpired(c, t) == pending[c].status = "pending" /\ Expired(c, t)

\* Both lists are read without a lock.
SweepList(p) ==
  /\ task[p].pc = "list"
  /\ LET listed == {c \in Claim : IF task[p].op = "expire" THEN ListedExpired(c, task[p].now)
                                                         ELSE ListedOrphan(c)}
     IN  task' = [task EXCEPT ![p] = [@ EXCEPT !.pc = "next", !.todo = listed]]
  /\ UNCHANGED <<clock, durable, locks, budget>>

SweepPick(p) ==
  /\ task[p].pc = "next"
  /\ \E c \in task[p].todo :
        task' = [task EXCEPT ![p] = [@ EXCEPT !.pc = FirstLock, !.cur = c,
                                              !.todo = task[p].todo \ {c}]]
  /\ UNCHANGED <<clock, durable, locks, budget>>

SweepPhaseEnd(p) ==
  /\ task[p].pc = "next" /\ task[p].todo = {}
  /\ task' = [task EXCEPT ![p] =
        IF @.op = "expire" THEN [@ EXCEPT !.op = "orphan", !.pc = "list"] ELSE Idle]
  /\ UNCHANGED <<clock, durable, locks, budget>>

\* Mutant: no idempotency guard under the lock.
SweepCheck_NoGuard(p) ==
  /\ task[p].pc = "check" /\ task[p].op \in Sweep
  /\ Goto(p, "revert")
  /\ UNCHANGED <<clock, durable, locks, budget>>

\* Mutant: a skipped row is marked expired all the same.
SweepCheck_MarkAnyway(p) ==
  /\ task[p].pc = "check" /\ task[p].op \in Sweep
  /\ Goto(p, IF Queued(task[p].cur) THEN "revert" ELSE "markExpired")
  /\ UNCHANGED <<clock, durable, locks, budget>>

\* revert_expired_row and revert_orphan re-check the disposition under the lock,
\* and nothing else.
SweepCheck(p) ==
  /\ task[p].pc = "check" /\ task[p].op \in Sweep
  /\ Goto(p, IF Queued(task[p].cur) THEN "revert" ELSE "done")
  /\ UNCHANGED <<clock, durable, locks, budget>>

\* The Contested entry of a sweep, and of a submit that found the row expired.
Revert(p) ==
  /\ task[p].pc = "revert"
  /\ LET by == IF task[p].op = "orphan" THEN "orphan" ELSE "expiry"
     IN  ledger' = [ledger EXCEPT ![task[p].cur] =
           Append(@, Note(task[p].cur, "Contested", p, by))]
  /\ Goto(p, IF task[p].op = "orphan" THEN "done" ELSE "markExpired")
  /\ UNCHANGED <<clock, bounds, pending, asked, locks, budget>>

MarkExpired(p) ==
  /\ task[p].pc = "markExpired"
  /\ pending' = [pending EXCEPT ![task[p].cur].status = "expired"]
  /\ Goto(p, "done")
  /\ UNCHANGED <<clock, ledger, bounds, asked, locks, budget>>

-----------------------------------------------------------------------------
(* What goes wrong around the calls.                                       *)

\* A store or oracle call returns an error before its effect; the use-case
\* rolls back and returns it (a failed mark_expired after a lazy expiry is
\* swallowed, and ends the call all the same).
Fail(p) ==
  /\ faults < MaxFault
  /\ faults' = faults + 1
  /\ \/ task[p].pc \in Inside \ {"done", "failed"} /\ Goto(p, "failed")
     \/ task[p].pc \in Reading /\ task' = [task EXCEPT ![p] = Idle]
  /\ UNCHANGED <<clock, durable, locks, crashes>>

\* The process dies: tasks and locks are gone, the store and the oracle stay.
Crash ==
  /\ crashes < MaxCrash
  /\ crashes' = crashes + 1
  /\ task' = [p \in Proc |-> Idle]
  /\ storeLock' = Nobody
  /\ agentLock' = [a \in Agent |-> Nobody]
  /\ UNCHANGED <<clock, durable, faults>>

\* Mutant: a dropped call keeps the guards it holds.
Cancel_KeepsGuards(p) ==
  /\ Cancellable /\ faults < MaxFault /\ faults' = faults + 1
  /\ task[p] # Idle /\ ~task[p].detached
  /\ task' = [task EXCEPT ![p] = IF @.pc \in Inside THEN [@ EXCEPT !.detached = TRUE] ELSE Idle]
  /\ UNCHANGED <<clock, durable, locks, crashes>>

\* The caller drops the future.  A call waiting for a lock or for a read is gone;
\* one inside spawn_blocking goes on, but the guards lived in the future.
Cancel(p) ==
  /\ Cancellable /\ faults < MaxFault /\ faults' = faults + 1
  /\ task[p] # Idle /\ ~task[p].detached
  /\ FreeLocksOf(p)
  /\ task' = [task EXCEPT ![p] = IF @.pc \in Inside THEN [@ EXCEPT !.detached = TRUE] ELSE Idle]
  /\ UNCHANGED <<clock, durable, crashes>>

-----------------------------------------------------------------------------
\* A step a started call takes when nothing fails.
Step(p) ==
  \/ AcquireStore(p) \/ AcquireAgent(p) \/ Release(p)
  \/ IngestRead(p) \/ IngestCommit(p) \/ IngestAsk(p) \/ IngestInsert(p)
  \/ SubmitResolve(p) \/ SubmitCheck(p) \/ SubmitApply(p) \/ SubmitMark(p)
  \/ SweepList(p) \/ SweepPick(p) \/ SweepPhaseEnd(p) \/ SweepCheck(p)
  \/ Revert(p) \/ MarkExpired(p)

Next ==
  \/ Tick
  \/ Crash
  \/ \E p \in Proc :
        \/ Step(p) \/ Fail(p) \/ Cancel(p) \/ BeginSweep(p)
        \/ \E c \in Claim : BeginIngest(p, c)
        \/ \E c \in Claim, v \in Verdict : BeginSubmit(p, c, v)

Spec == Init /\ [][Next]_vars

\* Every call the runtime has started is driven on, also when what it waits for is a
\* lock that others take in between (tokio hands a mutex over in FIFO order), time
\* passes, and the host calls the sweep again and again.
Fairness ==
  /\ WF_clock(Tick)
  /\ \A p \in Proc : SF_vars(Step(p))

FairSpec == Spec /\ Fairness /\ SF_vars(\E p \in Proc : BeginSweep(p))

-----------------------------------------------------------------------------
TypeOK ==
  /\ clock \in Time
  /\ ledger \in [Claim -> Seq(Entry)]
  /\ bounds \in [Claim -> SUBSET Time]
  /\ pending \in [Claim -> Row]
  /\ asked \subseteq Claim
  /\ storeLock \in Proc \cup {Nobody}
  /\ agentLock \in [Agent -> Proc \cup {Nobody}]
  /\ task \in [Proc -> Task]
  /\ faults \in 0..MaxFault
  /\ crashes \in 0..MaxCrash

-----------------------------------------------------------------------------
(* Properties.                                                             *)

\* Two tasks are never between "guard acquired" and "guard dropped" for the same
\* agent, nor for any two agents when the adapter asks for the store-wide lock.
MutualExclusion ==
  \A p, q \in Proc :
     p # q /\ task[p].pc \in Inside /\ task[q].pc \in Inside
       => ~GlobalLock /\ AgentOf[task[p].cur] # AgentOf[task[q].cur]

Caused(c, causes) ==
  {k \in DOMAIN ledger[c] : ledger[c][k].about = c /\ ledger[c][k].by \in causes}

\* The verdict on a challenger is applied at most once, however often the host
\* delivers it and whatever sweeps, errors and crashes come in between.
VerdictOnce == \A c \in Claim : \A j, k \in Caused(c, Verdict) : j = k

\* A late answer and a TTL expiry never both settle a challenger.
ExpiryExcludesVerdict ==
  \A c \in Claim : Caused(c, Verdict) = {} \/ Caused(c, {"expiry"}) = {}

\* The pending table never claims an outcome the ledger does not hold.
RowTellsOutcome ==
  \A c \in Claim :
     /\ pending[c].status = "resolved" => Caused(c, Verdict) # {}
     /\ pending[c].status = "expired"  => Caused(c, {"expiry"}) # {}

\* A claim that lost to an affirmed challenger is out of every later fold, also
\* after an abstention on another challenger has marked it Contested again.
AffirmDisplaces ==
  \A c \in Claim :
     Caused(c, {"affirm"}) # {} => ~Live(pending[c].incumbent, clock)

\* A verdict that is written settles a queued challenger: its entry is the latest
\* one although it carries the instant read before the locks were taken.
VerdictTakesEffect ==
  [][\A c \in Claim : Caused(c, Verdict)' # Caused(c, Verdict) => Queued(c) /\ ~Queued(c)']_ledger

\* Every call that was started returns, also when others fail or are dropped: the lock
\* order admits no deadlock and no guard stays behind with a call that is gone.
CallsReturn == \A p \in Proc : task[p] # Idle ~> task[p] = Idle

\* A queued challenger does not stay queued for ever while the host sweeps, unless
\* its row has no deadline within the modelled time.
NoDeadline(c) == pending[c].status = "pending" /\ pending[c].expires > MaxTime
Settled == \A c \in Claim : Queued(c) ~> (~Queued(c) \/ NoDeadline(c))

\* The lifecycle refines its abstract specification.  A sweep that read its
\* clock before the orphan was committed appends an entry older than the claim's own first
\* one: the latest disposition stays, and the entry settles nothing.
Reverted(c) == {k \in Caused(c, {"expiry", "orphan"}) : ledger[c][k].at >= ledger[c][1].at}
OutcomeOf(c) ==
  LET answered == Caused(c, Verdict) # {}
      reverted == Reverted(c) # {}
  IN  IF ~Committed(c) THEN "absent"
      ELSE IF Queued(c) THEN "queued"
      ELSE IF answered /\ reverted THEN "contradictory"
      ELSE IF answered THEN "answered"
      ELSE IF reverted THEN "reverted"
      ELSE IF ledger[c][1].disp = "Queued" THEN "displaced" ELSE "accepted"
Abstract == INSTANCE AdjudicationOutcome WITH outcome <- [c \in Claim |-> OutcomeOf(c)]
Outcomes == Abstract!Spec

-----------------------------------------------------------------------------
(* The inductive strengthening of MutualExclusion and VerdictOnce, for     *)
(* callers that do not drop a running call.                                *)

\* A call that looks a claim up, waits for its locks or holds them has one.
ClaimInv ==
  \A p \in Proc : task[p].pc \in Inside \cup Waiting \cup {"resolve"} => task[p].cur \in Claim

\* A call between its first lock and its return holds what it passed.
Guarded(p) ==
  /\ ~task[p].detached
  /\ task[p].pc \in Inside => agentLock[AgentOf[task[p].cur]] = p
  /\ GlobalLock /\ task[p].pc \in Inside \cup {"agentLock"} => storeLock = p
LockInv == \A p \in Proc : Guarded(p)

\* Which operation owns which step; an ingest decides to queue when it has read.
InStep(t) ==
  /\ t.pc \in {"read", "commit", "ask", "insert"} => t.op = "ingest"
  /\ t.pc \in {"apply", "mark", "resolve"} => t.op = "submit"
  /\ t.pc \in {"check", "revert", "markExpired"} => t.op # "ingest"
  /\ t.pc = "markExpired" => t.op # "orphan"
  /\ t.pc \in {"list", "next"} => t.op \in Sweep
  /\ t.pc \in Waiting \cup {"read"} \/ t.op # "ingest" => t.disp = "Cheap"
  /\ t.pc \in {"ask", "insert"} => t.disp = "Queued"
  /\ t.op = "none" <=> t.pc = "idle"
StepInv == \A p \in Proc : InStep(task[p])

\* A claim being ingested is new, a claim being adjudicated was committed before the
\* adjudicating call read its clock; submits and expiries work on rows they have seen.
WithRow == {c \in Claim : pending[c].status # "none"}
OnTime(p) ==
  /\ task[p].now <= clock
  /\ task[p].op = "ingest" /\ task[p].pc \in Waiting \cup {"read", "commit"}
       => ~Committed(task[p].cur)
  /\ task[p].pc \in {"ask", "insert"} => Committed(task[p].cur)
  /\ task[p].op = "submit" =>
       Committed(task[p].cur) /\ ledger[task[p].cur][1].at <= task[p].now
  /\ task[p].op = "submit" /\ task[p].pc # "resolve" => task[p].cur \in WithRow
  /\ task[p].op = "expire" => /\ task[p].todo \subseteq WithRow
                              /\ task[p].pc \in Inside \cup Waiting => task[p].cur \in WithRow
OneIngest(p, q) ==
  p # q /\ task[p].op = "ingest" /\ task[q].op = "ingest" => task[p].cur # task[q].cur
TaskInv == \A p \in Proc : OnTime(p) /\ \A q \in Proc : OneIngest(p, q)

\* Only the first entry of a claim queues it, no entry is from the future, and a
\* verdict on the claim is never older than that first entry.
LedgerInv ==
  \A c \in Claim : \A k \in DOMAIN ledger[c] :
     /\ ledger[c][k].at <= clock
     /\ ledger[c][k].disp = "Queued" => k = 1
     /\ k \in Caused(c, Verdict) => k > 1 /\ ledger[c][1].at <= ledger[c][k].at

\* The state guard still holds when the write that relies on it happens.
GuardInv == \A p \in Proc : task[p].pc \in {"apply", "revert"} => Queued(task[p].cur)

\* The incumbent of an adjudication is another committed claim of the same line.
Opposes(i, c) == i \in Claim \ {c} /\ LineOf[i] = LineOf[c] /\ Committed(i)
IncumbentInv ==
  /\ \A p \in Proc : task[p].pc \in {"commit", "ask", "insert"} /\ task[p].disp = "Queued"
                       => Opposes(task[p].inc, task[p].cur)
  /\ \A c \in WithRow : Opposes(pending[c].incumbent, c)
  /\ \A c \in asked : Committed(c)

IInv ==
  /\ TypeOK /\ ClaimInv /\ LockInv /\ LedgerInv /\ StepInv /\ TaskInv /\ GuardInv /\ IncumbentInv
  /\ VerdictOnce

=============================================================================
