----------------------------- MODULE SqliteStore -----------------------------
(***************************************************************************)
(* One subject line in the SQLite adapter: the connection that a           *)
(* transaction takes out of its slot, the write calls that use it under    *)
(* the engine's store-wide lock, and the queries that use it without one.  *)
(*                                                                         *)
(* A call reads the clock when it starts; no two calls read the same       *)
(* instant, and the instant stands for the call.  A row records the claim  *)
(* it is about and the call that wrote it; a claim is the call that        *)
(* ingested it.  What the calls compute from what they load is left open.  *)
(***************************************************************************)
EXTENDS Naturals

CONSTANTS
  Task,                          \* tasks calling the engine, which keep their futures
  Nobody,                        \* owner of a free lock
  MaxClock, MaxFault, MaxCrash   \* bounds: calls, failing statements, process crashes

ASSUME SqliteStoreAssumption ==
  /\ Nobody \notin Task
  /\ MaxClock \in Nat /\ MaxFault \in Nat /\ MaxCrash \in Nat

VARIABLES
  file,       \* committed rows
  slot,       \* SqlitePersistenceStore::conn
  open,       \* rows appended in the open transaction
  storeLock,  \* holder of EngineHandle::store_write_lock
  call,       \* what each task is doing
  clock,      \* the last instant Utc::now() gave
  faults, crashes

vars == <<file, slot, open, storeLock, call, clock, faults, crashes>>

Instant == 1..MaxClock
Table   == {"claims", "ledger", "assertions", "pending"}
Row     == [table : Table, claim : Instant, at : Instant]
RowOf(table, claim, at) == [table |-> table, claim |-> claim, at |-> at]

Loading == {"claims", "ledger", "assertions"}
InTxn   == {"append", "commit", "rollback"}
Names   == {"bound", "reopen"}          \* the calls of assert_validity: they name a claim
Writing == {"ingest"} \cup Names
Op      == {"query"} \cup Writing
Call    == [op : Op \cup {"none"},
            pc : Loading \cup InTxn \cup {"idle", "lock", "begin", "pending", "answer", "return"},
            now : 0..MaxClock,
            target : 0..MaxClock,      \* the claim named by the host; of a query, its as_of
            seen : SUBSET Row,         \* rows loaded
            left : SUBSET Instant,     \* claims whose assertions are still to be loaded
            missed : SUBSET Instant]   \* claims whose assertions were refused, and taken for none
Idle == [op |-> "none", pc |-> "idle", now |-> 0, target |-> 0,
         seen |-> {}, left |-> {}, missed |-> {}]

Goto(p, l) == call' = [call EXCEPT ![p].pc = l]

Init ==
  /\ file = {} /\ slot = "in" /\ open = {}
  /\ storeLock = Nobody
  /\ call = [p \in Task |-> Idle]
  /\ clock = 0 /\ faults = 0 /\ crashes = 0

-----------------------------------------------------------------------------
(* The ends of a call.                                                     *)

\* A query goes to work, a write call waits for the store-wide lock.
CallAt(op, target, now) ==
  [op |-> op, pc |-> IF op = "query" THEN "claims" ELSE "lock", now |-> now, target |-> target,
   seen |-> {}, left |-> {}, missed |-> {}]

\* Mutant: the call is stamped after the instant it read.
Begun_Later(op, target) == CallAt(op, target, clock + 2)

Begun(op, target) == CallAt(op, target, clock + 1)

\* A host names a claim it was given: one that was committed.
Start(p, op, target) ==
  /\ call[p] = Idle /\ clock < MaxClock
  /\ op = "ingest" => target = 0
  /\ op = "query" => target <= clock + 1
  /\ op \in Names => \E r \in file : r.table = "claims" /\ r.claim = target
  /\ clock' = clock + 1
  /\ call' = [call EXCEPT ![p] = Begun(op, target)]
  /\ UNCHANGED <<file, slot, open, storeLock, faults, crashes>>

\* Mutant: an adapter that does not ask for the store-wide lock.
Lock_Shared(p) ==
  /\ call[p].pc = "lock"
  /\ storeLock' = p /\ Goto(p, "claims")
  /\ UNCHANGED <<file, slot, open, clock, faults, crashes>>

Lock(p) ==
  /\ call[p].pc = "lock" /\ storeLock = Nobody
  /\ storeLock' = p /\ Goto(p, "claims")
  /\ UNCHANGED <<file, slot, open, clock, faults, crashes>>

Return(p) ==
  /\ call[p].pc \in {"answer", "return"}
  /\ call' = [call EXCEPT ![p] = Idle]
  /\ storeLock' = IF storeLock = p THEN Nobody ELSE storeLock
  /\ UNCHANGED <<file, slot, open, clock, faults, crashes>>

-----------------------------------------------------------------------------
(* Loading: one statement, and one look into the slot, at a time.          *)

\* Mutant: the tx-time cutoff of the queries on the write path.
Visible_CutOff(p, r) == r.at <= IF call[p].op = "query" THEN call[p].target ELSE call[p].now

\* The as_of_tx_time cutoff of a query; the write path passes None.
Visible(p, r) == call[p].op = "query" => r.at <= call[p].target

Found(p, table, about) ==
  {r \in file : r.table = table /\ r.claim \in about /\ (table # "assertions" => Visible(p, r))}

Loaded(p) == {r.claim : r \in {s \in call[p].seen : s.table = "claims"}}

Decide(op) == IF op = "query" THEN "answer" ELSE "begin"

\* Mutant: the fold runs before its ledger is loaded.
After_FoldFirst(op, table, left) ==
  CASE table = "claims" /\ left # {}     -> "assertions"
    [] table = "assertions" /\ left # {} -> "assertions"
    [] table = "assertions" /\ left = {} /\ op # "reopen" -> "ledger"
    [] OTHER -> Decide(op)

\* The order of the statements: claims, ledger, then the fold, which asks for the
\* assertions of one claim at a time.  assert_validity loads its target's assertions, and
\* for a Bound the target's ledger.  An empty line asks for nothing more.
After(op, table, left) ==
  CASE table = "claims" /\ left # {}     -> IF op \in Names THEN "assertions" ELSE "ledger"
    [] table = "ledger" /\ op \notin Names -> "assertions"
    [] table = "assertions" /\ left # {} -> "assertions"
    [] table = "assertions" /\ op = "bound" -> "ledger"
    [] OTHER -> Decide(op)

LoadClaims(p) ==
  /\ call[p].pc = "claims" /\ slot = "in"
  /\ LET about == IF call[p].op \in Names THEN {call[p].target} ELSE Instant
         found == Found(p, "claims", about)
         left  == {r.claim : r \in found}
     IN  call' = [call EXCEPT ![p] = [@ EXCEPT !.seen = found, !.left = left,
                                               !.pc = After(call[p].op, "claims", left)]]
  /\ UNCHANGED <<file, slot, open, storeLock, clock, faults, crashes>>

LoadLedger(p) ==
  /\ call[p].pc = "ledger" /\ slot = "in"
  /\ call' = [call EXCEPT ![p] = [@ EXCEPT !.seen = call[p].seen \cup Found(p, "ledger", Loaded(p)),
                                           !.pc = After(call[p].op, "ledger", call[p].left)]]
  /\ UNCHANGED <<file, slot, open, storeLock, clock, faults, crashes>>

\* The next claim of the fold is done with, its assertions loaded or missed.
Folded(p, c, loaded, missed) ==
  call' = [call EXCEPT ![p] = [@ EXCEPT !.seen = call[p].seen \cup loaded,
                                        !.missed = call[p].missed \cup missed,
                                        !.left = call[p].left \ {c},
                                        !.pc = After(call[p].op, "assertions", call[p].left \ {c})]]

LoadAssertions(p, c) ==
  /\ call[p].pc = "assertions" /\ c \in call[p].left /\ slot = "in"
  /\ Folded(p, c, Found(p, "assertions", {c}), {})
  /\ UNCHANGED <<file, slot, open, storeLock, clock, faults, crashes>>

\* load_validity_assertions_for(..).unwrap_or_default() in the fold; assert_validity
\* returns the error.
Lenient(p) == call[p].pc = "assertions" /\ call[p].op \notin Names

MissAssertions(p, c) ==
  /\ Lenient(p) /\ c \in call[p].left /\ slot # "in"
  /\ Folded(p, c, {}, {c})
  /\ UNCHANGED <<file, slot, open, storeLock, clock, faults, crashes>>

\* TxnAlreadyOpen: the statement, or begin_atomic, finds no connection in the slot.
Refused(p) ==
  /\ call[p].pc \in Loading \cup {"begin", "pending"} /\ ~Lenient(p) /\ slot # "in"
  /\ Goto(p, "return")
  /\ UNCHANGED <<file, slot, open, storeLock, clock, faults, crashes>>

-----------------------------------------------------------------------------
(* The transaction, and the pending row outside it.                        *)

\* The use-case decides to write nothing: a gate, or the firewall before the line is loaded.
Decline(p) ==
  /\ \/ call[p].pc = "begin"
     \/ call[p].pc = "claims" /\ call[p].op \in Writing
  /\ Goto(p, "return")
  /\ UNCHANGED <<file, slot, open, storeLock, clock, faults, crashes>>

Begin(p) ==
  /\ call[p].pc = "begin" /\ slot = "in"
  /\ slot' = "out" /\ open' = {}
  /\ Goto(p, "append")
  /\ UNCHANGED <<file, storeLock, clock, faults, crashes>>

\* append_within_txn and write_validity_and_ledger: the ledger entry comes last.
Claimed(p)  == IF call[p].op = "ingest" THEN call[p].now ELSE call[p].target
First(p)    == RowOf(IF call[p].op = "ingest" THEN "claims" ELSE "assertions", Claimed(p), call[p].now)
Second(p)   == RowOf("ledger", Claimed(p), call[p].now)

Append(p) ==
  /\ call[p].pc = "append"
  /\ \/ open = {} /\ open' = {First(p)} /\ UNCHANGED call
     \/ open # {} /\ open' = open \cup {Second(p)} /\ Goto(p, "commit")
  /\ UNCHANGED <<file, slot, storeLock, clock, faults, crashes>>

Commit(p) ==
  /\ call[p].pc = "commit"
  /\ file' = file \cup open /\ open' = {} /\ slot' = "in"
  /\ \/ Goto(p, "return")
     \/ call[p].op = "ingest" /\ Goto(p, "pending")
  /\ UNCHANGED <<storeLock, clock, faults, crashes>>

\* Mutant: the connection goes back into its slot with autocommit on.
Rollback_Keeps(p) ==
  /\ call[p].pc = "rollback"
  /\ file' = file \cup open /\ open' = {} /\ slot' = "in"
  /\ Goto(p, "return")
  /\ UNCHANGED <<storeLock, clock, faults, crashes>>

Rollback(p) ==
  /\ call[p].pc = "rollback"
  /\ open' = {} /\ slot' = "in"
  /\ Goto(p, "return")
  /\ UNCHANGED <<file, storeLock, clock, faults, crashes>>

InsertPending(p) ==
  /\ call[p].pc = "pending" /\ slot = "in"
  /\ file' = file \cup {RowOf("pending", call[p].now, call[p].now)}
  /\ Goto(p, "return")
  /\ UNCHANGED <<slot, open, storeLock, clock, faults, crashes>>

-----------------------------------------------------------------------------
(* What goes wrong.                                                        *)

\* A failing BEGIN, COMMIT or ROLLBACK drops the connection, and with it what was
\* appended: nothing puts another one into the slot.
Drop(p) ==
  /\ call[p].pc \in {"begin", "commit", "rollback"}
  /\ call[p].pc = "begin" => slot = "in"
  /\ slot' = "lost" /\ open' = {}
  /\ Goto(p, "return")

\* A failing append is rolled back, another failing statement ends the call or, in the
\* fold, counts as none.
FailStatement(p) ==
  /\ \/ call[p].pc = "append" /\ Goto(p, "rollback")
     \/ call[p].pc \in Loading \cup {"pending"} /\ ~Lenient(p) /\ Goto(p, "return")
     \/ Lenient(p) /\ \E c \in call[p].left : Folded(p, c, {}, {c})
  /\ UNCHANGED <<slot, open>>

Fail(p) ==
  /\ faults < MaxFault /\ faults' = faults + 1
  /\ Drop(p) \/ FailStatement(p)
  /\ UNCHANGED <<file, storeLock, clock, crashes>>

\* The process dies, and the host opens the file again.
Crash ==
  /\ crashes < MaxCrash /\ crashes' = crashes + 1
  /\ call' = [p \in Task |-> Idle]
  /\ storeLock' = Nobody /\ slot' = "in" /\ open' = {}
  /\ UNCHANGED <<file, clock, faults>>

-----------------------------------------------------------------------------
Next ==
  \/ Crash
  \/ \E p \in Task :
       \/ \E op \in Op, target \in 0..MaxClock : Start(p, op, target)
       \/ Lock(p) \/ LoadClaims(p) \/ LoadLedger(p) \/ Refused(p)
       \/ \E c \in Instant : LoadAssertions(p, c) \/ MissAssertions(p, c)
       \/ Decline(p) \/ Begin(p) \/ Append(p) \/ Commit(p) \/ Rollback(p) \/ InsertPending(p)
       \/ Fail(p) \/ Return(p)

Spec == Init /\ [][Next]_vars

-----------------------------------------------------------------------------
TypeOK ==
  /\ file \subseteq Row /\ open \subseteq Row
  /\ slot \in {"in", "out", "lost"}
  /\ storeLock \in Task \cup {Nobody}
  /\ call \in [Task -> Call]
  /\ clock \in 0..MaxClock /\ faults \in 0..MaxFault /\ crashes \in 0..MaxCrash

-----------------------------------------------------------------------------
(* Properties.                                                             *)

Writes(p) == call[p].op \in Writing

\* A write call never meets the transaction of another: TxnAlreadyOpen tells it of a lost
\* connection and of nothing else (store_write_lock against the slot of the store).
WriterNeverRefused ==
  \A p \in Task : Writes(p) /\ call[p].pc \in Loading \cup {"begin", "pending"} => slot # "out"

\* What a write call has loaded is still all there is when it writes, also rows of calls
\* that started after it, except for assertions it was refused (no tx-time cutoff on the
\* write path, and reads before begin_atomic under the same lock).
Basis(p) ==
  {r \in file :
     /\ r.table # "pending"
     /\ call[p].op \in Names => r.claim = call[p].target
     /\ call[p].op = "reopen" => r.table # "ledger"
     /\ r.table = "assertions" => r.claim \notin call[p].missed}

DecidesOnCurrent ==
  \A p \in Task : call[p].pc \in InTxn => call[p].seen = Basis(p)

\* A query never folds a claim without its disposition, nor an entry of assert_validity
\* without the assertion it was written with, unless it missed that claim's assertions
\* (the atomic unit of a write, and the order of the loads of query_memory).
AnswersWhole ==
  \A p \in Task : call[p].pc = "answer" =>
    \A r \in call[p].seen :
      /\ r.table = "claims" => RowOf("ledger", r.claim, r.at) \in call[p].seen
      /\ r.table = "ledger" /\ r.at # r.claim /\ r.claim \notin call[p].missed
           => RowOf("assertions", r.claim, r.at) \in call[p].seen

\* The adapter keeps the contract of PersistencePort (commit_and_return, rollback_and_return,
\* insert_pending).
Port == INSTANCE StorePort
KeepsPort == Port!Spec

-----------------------------------------------------------------------------
(* The inductive strengthening of the three properties.                    *)

ClaimsIn(rows) == {r.claim : r \in {s \in rows : s.table = "claims"}}

\* Committed rows come in whole transactions, about claims that were committed.
FileInv ==
  \A r \in file :
    /\ r.claim \in ClaimsIn(file)
    /\ r.table = "claims" => RowOf("ledger", r.claim, r.at) \in file
    /\ r.table = "ledger" /\ r.at # r.claim => RowOf("assertions", r.claim, r.at) \in file

\* Which calls take which steps, and that a write call holds the lock from then on.
StepOf(c, p, lock) ==
  /\ c.pc \in InTxn \cup {"lock", "begin"} => c.op \in Writing
  /\ c.pc = "pending" => c.op = "ingest"
  /\ c.pc = "answer" => c.op = "query"
  /\ c.pc = "ledger" => c.op # "reopen"
  /\ c.op = "none" => c.pc = "idle"
  /\ c.op # "none" => c.now \in Instant
  /\ c.op \in Writing /\ c.pc # "lock" => lock = p

StepInv == \A p \in Task : StepOf(call[p], p, storeLock)

\* The connection is out only for a transaction, which holds the rows appended so far; a call
\* names a claim that was committed.
TxnOf(p) ==
  /\ call[p].pc = "append" => open \in {{}, {First(p)}}
  /\ call[p].pc = "commit" => open = {First(p), Second(p)}
  /\ call[p].op \in Names => call[p].target \in ClaimsIn(file)
  /\ call[p].pc = "pending" => call[p].now \in ClaimsIn(file)

TxnInv ==
  /\ slot = "out" => \E p \in Task : call[p].pc \in InTxn
  /\ \A p \in Task : TxnOf(p)

\* The rows of some tables about some claims.
Of(tables, claims) == {r \in file : r.table \in tables /\ r.claim \in claims}

\* What a write call has loaded so far is all there is of it.
LoadOf(p) ==
  LET c == call[p]
  IN  /\ c.op \in Names \/ c.pc \in {"lock", "claims", "ledger"} => c.missed = {}
      /\ c.left \cap c.missed = {}
      /\ c.op = "ingest" /\ c.pc = "ledger" =>
           c.seen = Of({"claims"}, Instant) /\ c.left = ClaimsIn(file)
      /\ c.op = "ingest" /\ c.pc = "assertions" =>
           c.seen = Of({"claims", "ledger"}, Instant)
                      \cup Of({"assertions"}, Instant \ (c.left \cup c.missed))
      /\ c.op \in Names /\ c.pc = "assertions" =>
           c.seen = Of({"claims"}, {c.target}) /\ c.left = {c.target}
      /\ c.op \in Names /\ c.pc = "ledger" => c.seen = Of({"claims", "assertions"}, {c.target})
      /\ c.pc \in InTxn \cup {"begin"} => c.seen = Basis(p)

LoadInv == \A p \in Task : LoadOf(p)

\* A query has loaded the disposition of each claim it is going to fold, and still is to load,
\* has loaded or has missed the assertions of each claim that has entries.
QueryOf(p) ==
  LET c == call[p]
  IN  /\ c.pc = "ledger" =>
           /\ c.left = ClaimsIn(c.seen)
           /\ \A r \in c.seen : r \in file /\ r.table = "claims" /\ r.at <= c.target
      /\ c.pc \in {"assertions", "answer"} => \A r \in c.seen :
           /\ r.table = "claims" => RowOf("ledger", r.claim, r.at) \in c.seen
           /\ r.table = "ledger" /\ r.at # r.claim /\ r.claim \notin c.left \cup c.missed
                => RowOf("assertions", r.claim, r.at) \in c.seen
           /\ r \in file
      /\ c.pc = "answer" => c.left = {}

QueryInv == \A p \in Task : call[p].op = "query" => QueryOf(p)

IInv == TypeOK /\ FileInv /\ StepInv /\ TxnInv /\ LoadInv /\ QueryInv
=============================================================================
