---------------------------- MODULE PostgresStore ----------------------------
(***************************************************************************)
(* The Postgres adapter under the engines of several processes: the pool a *)
(* connection is taken from for every statement or transaction, the        *)
(* advisory lock of the agent that a transaction takes first, the numbers  *)
(* it gives its ledger entries, and the mutex of the agent, which a task    *)
(* finds or inserts in a map that the tasks of one process share.          *)
(*                                                                         *)
(* A call reads the clock when it starts; the instant stands for the call. *)
(* A statement sees what is committed when it runs (READ COMMITTED).       *)
(***************************************************************************)
EXTENDS Naturals, FiniteSets

CONSTANTS
  Task, Engine, EngineOf,        \* tasks, and the process whose engine each one calls
  Agent, Hash, HashOf,           \* agents, and hashtext of their names, which may collide
  Conn, PoolOf,                  \* connections, and the process whose pool each one is in
  Nobody, NoConn,                \* owner of a free lock; what a call holds between statements
  MaxClock, MaxFault, MaxCrash,  \* bounds: calls, failing statements, process crashes
  MaxEntries                     \* bound: ledger entries of a transaction

ASSUME PostgresStoreAssumption ==
  /\ EngineOf \in [Task -> Engine] /\ PoolOf \in [Conn -> Engine] /\ HashOf \in [Agent -> Hash]
  /\ Nobody \notin Task /\ NoConn \notin Conn
  /\ MaxClock \in Nat /\ MaxFault \in Nat /\ MaxCrash \in Nat /\ MaxEntries \in Nat

VARIABLES
  file,      \* committed rows
  dirty,     \* connections whose transaction nobody will end
  advisory,  \* who holds the advisory lock of each hash
  locks,     \* the agents' mutexes of each process, named after the task that inserted them
  call,      \* what each task is doing
  clock, faults, crashes

vars == <<file, dirty, advisory, locks, call, clock, faults, crashes>>

Instant == 1..MaxClock
Row     == [table : {"claims", "ledger", "pending"}, agent : Agent, at : Instant,
            by : Engine, seq : Nat]

Numbering == {"number", "insert", "commit"}
InTxn     == {"append"} \cup Numbering             \* between BEGIN and its end, with the lock
Borrowing == {"claims", "ledger", "begin", "pending"}
Idle == [op |-> "none", pc |-> "idle", agent |-> Nobody, now |-> 0, mutex |-> Nobody,
         conn |-> NoConn, seen |-> {}, rows |-> {}, seq |-> 0]
Call == [op : {"none", "write", "query"},
         pc : Borrowing \cup InTxn \cup {"idle", "lookup", "create", "mutex", "advisory", "rollback",
                                   "answer", "return"},
         agent : Agent \cup {Nobody}, now : 0..MaxClock, mutex : Task \cup {Nobody},
         conn : Conn \cup {NoConn},
         seen : SUBSET Row, rows : SUBSET Row, seq : Nat]

Free(k)    == \A p \in Task : call[p].conn # k
HashFor(p) == HashOf[call[p].agent]
RowOf(p, table, seq) ==
  [table |-> table, agent |-> call[p].agent, at |-> call[p].now, by |-> EngineOf[p], seq |-> seq]

Goto(p, l)    == call' = [call EXCEPT ![p].pc = l]
\* The connection goes back to the pool.
Release(p, l) == call' = [call EXCEPT ![p] = [@ EXCEPT !.pc = l, !.conn = NoConn]]

Init ==
  /\ file = {} /\ dirty = {}
  /\ advisory = [h \in Hash |-> Nobody]
  /\ locks = [e \in Engine |-> [a \in Agent |-> Nobody]]
  /\ call = [p \in Task |-> Idle]
  /\ clock = 0 /\ faults = 0 /\ crashes = 0

-----------------------------------------------------------------------------
(* The ends of a call.                                                     *)

Start(p, op, a) ==
  /\ call[p] = Idle /\ clock < MaxClock
  /\ clock' = clock + 1
  /\ call' = [call EXCEPT ![p] = [Idle EXCEPT !.op = op, !.agent = a, !.now = clock + 1,
                                              !.pc = IF op = "write" THEN "lookup" ELSE "claims"]]
  /\ UNCHANGED <<file, dirty, advisory, locks, faults, crashes>>

Entry(p) == locks[EngineOf[p]][call[p].agent]

\* Gets the mutex and lets go of the map, which others may change before the lock is taken.
LookUp(p) ==
  /\ call[p].pc = "lookup"
  /\ call' = [call EXCEPT ![p] = [@ EXCEPT !.mutex = Entry(p),
                                           !.pc = IF Entry(p) = Nobody THEN "create" ELSE "mutex"]]
  /\ UNCHANGED <<file, dirty, advisory, locks, clock, faults, crashes>>

\* Mutant: no second look, what another task has inserted since is overwritten.
Create_Overwriting(p) ==
  /\ call[p].pc = "create"
  /\ locks' = [locks EXCEPT ![EngineOf[p]][call[p].agent] = p]
  /\ call' = [call EXCEPT ![p] = [@ EXCEPT !.mutex = p, !.pc = "mutex"]]
  /\ UNCHANGED <<file, dirty, advisory, clock, faults, crashes>>

\* entry().or_insert_with() under the write lock of the map
Create(p) ==
  /\ call[p].pc = "create"
  /\ LET m == IF Entry(p) = Nobody THEN p ELSE Entry(p)
     IN  /\ locks' = [locks EXCEPT ![EngineOf[p]][call[p].agent] = m]
         /\ call' = [call EXCEPT ![p] = [@ EXCEPT !.mutex = m, !.pc = "mutex"]]
  /\ UNCHANGED <<file, dirty, advisory, clock, faults, crashes>>

\* Somebody holds the mutex the call p has looked up.
Held(p) ==
  \E q \in Task : /\ call[q].pc # "mutex" /\ call[q].mutex = call[p].mutex
                  /\ call[q].agent = call[p].agent /\ EngineOf[q] = EngineOf[p]

\* No store-wide lock: requires_global_write_serialization is false.
AcquireMutex(p) ==
  /\ call[p].pc = "mutex" /\ ~Held(p)
  /\ Goto(p, "claims")
  /\ UNCHANGED <<file, dirty, advisory, locks, clock, faults, crashes>>

Return(p) ==
  /\ call[p].pc \in {"answer", "return"}
  /\ call' = [call EXCEPT ![p] = Idle]
  /\ UNCHANGED <<file, dirty, advisory, locks, clock, faults, crashes>>

-----------------------------------------------------------------------------
(* The pool.                                                               *)

Waiting(p) == call[p].pc \in Borrowing /\ call[p].conn = NoConn

\* pool.get
Borrow(p, k) ==
  /\ Waiting(p) /\ PoolOf[k] = EngineOf[p] /\ Free(k)
  /\ call' = [call EXCEPT ![p].conn = k]
  /\ UNCHANGED <<file, dirty, advisory, locks, clock, faults, crashes>>

\* connection_timeout: an empty pool is waited for only so long.
Timeout(p) ==
  /\ Waiting(p) /\ \A k \in Conn : PoolOf[k] = EngineOf[p] => ~Free(k)
  /\ Goto(p, "return")
  /\ UNCHANGED <<file, dirty, advisory, locks, clock, faults, crashes>>

\* Ready for the statement l, on a connection without a transaction.
At(p, l) == call[p].pc = l /\ call[p].conn # NoConn /\ call[p].conn \notin dirty

\* Every statement on a connection whose transaction was aborted is refused, BEGIN too.
Refused(p) ==
  /\ call[p].pc \in Borrowing /\ call[p].conn \in dirty
  /\ Release(p, "return")
  /\ UNCHANGED <<file, dirty, advisory, locks, clock, faults, crashes>>

\* r2d2 replaces a connection that has lived for too long.
Recycle(k) ==
  /\ k \in dirty /\ Free(k)
  /\ dirty' = dirty \ {k}
  /\ UNCHANGED <<file, advisory, locks, call, clock, faults, crashes>>

-----------------------------------------------------------------------------
(* Loading, one autocommitted statement at a time.                         *)

Found(p, table) == {r \in file : r.table = table /\ r.agent = call[p].agent}

LoadClaims(p) ==
  /\ At(p, "claims")
  /\ call' = [call EXCEPT ![p] = [@ EXCEPT !.seen = Found(p, "claims"), !.pc = "ledger",
                                           !.conn = NoConn]]
  /\ UNCHANGED <<file, dirty, advisory, locks, clock, faults, crashes>>

LoadLedger(p) ==
  /\ At(p, "ledger")
  /\ call' = [call EXCEPT ![p] = [@ EXCEPT !.seen = call[p].seen \cup Found(p, "ledger"),
                                           !.pc = IF call[p].op = "query" THEN "answer" ELSE "begin",
                                           !.conn = NoConn]]
  /\ UNCHANGED <<file, dirty, advisory, locks, clock, faults, crashes>>

\* The use-case decides to write nothing.
Decline(p) ==
  /\ call[p].pc = "begin" /\ call[p].conn = NoConn
  /\ Goto(p, "return")
  /\ UNCHANGED <<file, dirty, advisory, locks, clock, faults, crashes>>

-----------------------------------------------------------------------------
(* The transaction.                                                        *)

Begin(p) ==
  /\ At(p, "begin") /\ Goto(p, "advisory")
  /\ UNCHANGED <<file, dirty, advisory, locks, clock, faults, crashes>>

\* Mutant: a key for every transaction instead of one for every agent.
TakeLock_Shared(p) ==
  /\ call[p].pc = "advisory"
  /\ advisory' = [advisory EXCEPT ![HashFor(p)] = p]
  /\ Goto(p, "append")
  /\ UNCHANGED <<file, dirty, locks, clock, faults, crashes>>

\* pg_advisory_xact_lock, which waits for as long as it takes.
TakeLock(p) ==
  /\ call[p].pc = "advisory" /\ advisory[HashFor(p)] = Nobody
  /\ advisory' = [advisory EXCEPT ![HashFor(p)] = p]
  /\ Goto(p, "append")
  /\ UNCHANGED <<file, dirty, locks, clock, faults, crashes>>

\* Mutant: the claim goes through a connection of its own.
Append_Autocommitted(p) ==
  /\ call[p].pc = "append" /\ Goto(p, "number")
  /\ file' \in {file, file \cup {RowOf(p, "claims", 0)}}
  /\ UNCHANGED <<dirty, advisory, locks, clock, faults, crashes>>

\* append_claim; an abstaining verdict and a sweep append ledger entries only.
Append(p) ==
  /\ call[p].pc = "append"
  /\ \E rows \in {{}, {RowOf(p, "claims", 0)}} :
       call' = [call EXCEPT ![p] = [@ EXCEPT !.rows = rows, !.pc = "number"]]
  /\ UNCHANGED <<file, dirty, advisory, locks, clock, faults, crashes>>

Seqs(p) == {r.seq : r \in {s \in file \cup call[p].rows : s.table = "ledger" /\ s.agent = call[p].agent}}

\* SELECT COALESCE(MAX(stream_seq), 0) + 1
Following(S) == 1 + CHOOSE m \in {0} \cup S : \A n \in S : n <= m
Number(p) ==
  /\ call[p].pc = "number"
  /\ call' = [call EXCEPT ![p] = [@ EXCEPT !.seq = Following(Seqs(p)), !.pc = "insert"]]
  /\ UNCHANGED <<file, dirty, advisory, locks, clock, faults, crashes>>

Entries(p) == {r \in call[p].rows : r.table = "ledger"}

Insert(p) ==
  /\ call[p].pc = "insert"
  /\ \E l \in {"number", "commit"} :
       /\ l = "number" => Cardinality(Entries(p)) + 1 < MaxEntries
       /\ call' = [call EXCEPT ![p] = [@ EXCEPT !.pc = l,
                             !.rows = call[p].rows \cup {RowOf(p, "ledger", call[p].seq)}]]
  /\ UNCHANGED <<file, dirty, advisory, locks, clock, faults, crashes>>

\* Mutant: the lock is the session's (pg_advisory_lock).
EndTxn_KeepsLock(p, l) ==
  /\ UNCHANGED advisory
  /\ call' = [call EXCEPT ![p] = [@ EXCEPT !.pc = l, !.conn = NoConn, !.rows = {}]]

\* The transaction is over: its lock is free, its connection goes back to the pool.
EndTxn(p, l) ==
  /\ advisory' = [h \in Hash |-> IF advisory[h] = p THEN Nobody ELSE advisory[h]]
  /\ call' = [call EXCEPT ![p] = [@ EXCEPT !.pc = l, !.conn = NoConn, !.rows = {}]]

Commit(p) ==
  /\ call[p].pc = "commit" /\ file' = file \cup call[p].rows
  /\ \/ EndTxn(p, "return")
     \/ EndTxn(p, "pending") /\ call[p].rows # Entries(p)
  /\ UNCHANGED <<dirty, locks, clock, faults, crashes>>

Rollback(p) ==
  /\ call[p].pc = "rollback" /\ Release(p, "return")
  /\ UNCHANGED <<file, dirty, advisory, locks, clock, faults, crashes>>

\* PostgresPendingStore::insert_pending, outside the transaction.
InsertPending(p) ==
  /\ At(p, "pending")
  /\ file' = file \cup {RowOf(p, "pending", 0)}
  /\ Release(p, "return")
  /\ UNCHANGED <<dirty, advisory, locks, clock, faults, crashes>>

-----------------------------------------------------------------------------
(* What goes wrong.                                                        *)

\* A failing statement outside a transaction ends the call.
FailOutside(p) ==
  /\ call[p].pc \in Borrowing \cup {"rollback"} /\ call[p].conn \notin dirty \cup {NoConn}
  /\ Release(p, "return")
  /\ UNCHANGED <<file, dirty, advisory>>

\* The lock is refused after BEGIN: no PostgresTxn exists to roll back, and an
\* open connection goes back as it is.
FailLock(p) ==
  /\ call[p].pc = "advisory" /\ Release(p, "return")
  /\ dirty' \in {dirty, dirty \cup {call[p].conn}}
  /\ UNCHANGED <<file, advisory>>

\* A failing INSERT or SELECT aborts the transaction, which frees its lock at once.
FailInside(p) ==
  /\ call[p].pc \in {"append", "number", "insert"}
  /\ advisory' = [h \in Hash |-> IF advisory[h] = p THEN Nobody ELSE advisory[h]]
  /\ call' = [call EXCEPT ![p] = [@ EXCEPT !.rows = {}, !.pc = "rollback"]]
  /\ UNCHANGED <<file, dirty>>

\* Mutant: a failed commit is taken for a commit.
FailCommit_Unseen(p) ==
  /\ call[p].pc = "commit" /\ EndTxn(p, "pending")
  /\ file' \in {file, file \cup call[p].rows}
  /\ UNCHANGED dirty

\* COMMIT fails, or succeeds and its answer is lost.
FailCommit(p) ==
  /\ call[p].pc = "commit" /\ EndTxn(p, "return")
  /\ file' \in {file, file \cup call[p].rows}
  /\ UNCHANGED dirty

Fail(p) ==
  /\ faults < MaxFault /\ faults' = faults + 1
  /\ FailOutside(p) \/ FailLock(p) \/ FailInside(p) \/ FailCommit(p)
  /\ UNCHANGED <<locks, clock, crashes>>

\* A process dies, and with it its connections.
Crash(e) ==
  /\ crashes < MaxCrash /\ crashes' = crashes + 1
  /\ call' = [p \in Task |-> IF EngineOf[p] = e THEN Idle ELSE call[p]]
  /\ locks' = [locks EXCEPT ![e] = [a \in Agent |-> Nobody]]
  /\ advisory' = [h \in Hash |-> IF \E p \in Task : advisory[h] = p /\ EngineOf[p] = e
                                 THEN Nobody ELSE advisory[h]]
  /\ dirty' = {k \in dirty : PoolOf[k] # e}
  /\ UNCHANGED <<file, clock, faults>>

-----------------------------------------------------------------------------
Next ==
  \/ \E p \in Task :
       \/ \E op \in {"write", "query"}, a \in Agent : Start(p, op, a)
       \/ \E k \in Conn : Borrow(p, k)
       \/ LookUp(p) \/ Create(p) \/ AcquireMutex(p) \/ Timeout(p) \/ Refused(p)
       \/ LoadClaims(p) \/ LoadLedger(p) \/ Decline(p) \/ Begin(p) \/ TakeLock(p) \/ Append(p) \/ Number(p) \/ Insert(p)
       \/ Commit(p) \/ Rollback(p) \/ InsertPending(p) \/ Fail(p) \/ Return(p)
  \/ \E k \in Conn : Recycle(k)
  \/ \E e \in Engine : Crash(e)

Spec == Init /\ [][Next]_vars

-----------------------------------------------------------------------------
(* Properties.                                                             *)

Ledger(a) == {r \in file \cup UNION {call[p].rows : p \in Task} : r.table = "ledger" /\ r.agent = a}

\* UNIQUE (agent_id, stream_seq) refuses nobody, and the numbers of an agent have no gaps, also
\* when two processes write and a transaction was rolled back (append_ledger_entry: MAX + 1 under
\* the advisory lock, which is held until the transaction ends).
Numbered ==
  \A a \in Agent : {r.seq : r \in Ledger(a)} = 1..Cardinality(Ledger(a))

\* A writer decides on every row its own process has committed for the agent: only another
\* process can have written behind its back (the agent's mutex is held from before the loads until
\* after insert_pending, the advisory lock only from BEGIN to COMMIT).
DecidesOnCurrent ==
  \A p \in Task : call[p].pc \in InTxn =>
    \A r \in file : r.agent = call[p].agent /\ r.table # "pending" /\ r.by = EngineOf[p]
                      => r \in call[p].seen

\* A query never sees a claim without its ledger entry, whoever commits between its two
\* statements, each on a connection of its own (begin_atomic .. commit around both rows).
AnswersWhole ==
  \A p \in Task : call[p].pc = "answer" =>
    \A r \in call[p].seen : r.table = "claims" =>
      \E s \in call[p].seen : s.table = "ledger" /\ s.at = r.at

\* The calls never all wait for each other, although a transaction keeps its connection while it
\* waits for the advisory lock of another process, and its process's other calls find the pool
\* empty and the agent's mutex taken (pool.get, pg_advisory_xact_lock, AgentWriteLockMap).
Waits(p) ==
  \/ call[p].pc = "mutex" /\ Held(p)
  \/ call[p].pc = "advisory" /\ advisory[HashFor(p)] # Nobody

SomeoneGoesOn == (\E p \in Task : Waits(p)) => \E p \in Task : call[p].op # "none" /\ ~Waits(p)

\* The adapter keeps the contract of PersistencePort (commit_and_drop, insert_pending).
Port == INSTANCE StorePort
KeepsPort == Port!Spec
=============================================================================
