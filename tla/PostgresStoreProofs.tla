------------------------ MODULE PostgresStoreProofs ------------------------
(***************************************************************************)
(* The inductive invariant of PostgresStore, and what follows from it for  *)
(* any number of processes, tasks, connections and agents.                 *)
(***************************************************************************)
EXTENDS PostgresStore, FiniteSetTheorems, TLAPS

Types ==
  /\ file \in SUBSET Row
  /\ advisory \in [Hash -> Task \cup {Nobody}]
  /\ locks \in [Engine -> [Agent -> Task \cup {Nobody}]]
  /\ call \in [Task -> Call]
  /\ clock \in 0..MaxClock

\* Which calls take which steps, and what they have in hand there.
StepOf(c) ==
  /\ c.op = "none" <=> c.pc = "idle"
  /\ c.op # "none" => c.agent \in Agent /\ c.now \in 1..clock
  /\ c.pc \in {"lookup", "create", "mutex", "begin", "advisory", "rollback", "pending"} \cup InTxn
       => c.op = "write"
  /\ c.pc = "answer" => c.op = "query"
  /\ c.mutex = Nobody <=> c.op # "write" \/ c.pc \in {"lookup", "create"}
  /\ c.pc \notin InTxn => c.rows = {}

StepInv == \A p \in Task : StepOf(call[p])

\* A mutex that was found stays the one in the map, and one call of a process holds it.
Same(p, q) == EngineOf[p] = EngineOf[q] /\ call[p].agent = call[q].agent
MutexInv ==
  /\ \A p \in Task : call[p].mutex # Nobody => Entry(p) = call[p].mutex
  /\ \A p, q \in Task :
       (p # q /\ Same(p, q) /\ call[p].mutex # Nobody /\ call[q].mutex # Nobody)
         => call[p].pc = "mutex" \/ call[q].pc = "mutex"

\* The advisory lock is held throughout a transaction, and by nobody else.
AdvisoryInv ==
  /\ \A p \in Task : call[p].pc \in InTxn => advisory[HashFor(p)] = p
  /\ \A h \in Hash : advisory[h] # Nobody => call[advisory[h]].pc \in InTxn

\* A transaction holds rows of its own call, and an entry before it commits.
RowsInv ==
  \A p \in Task :
    /\ \A r \in call[p].rows : /\ r.agent = call[p].agent /\ r.at = call[p].now
                               /\ r.by = EngineOf[p] /\ r.table \in {"claims", "ledger"}
    /\ call[p].pc = "commit" => Entries(p) # {}

\* Claims are committed with an entry; no two calls read the same instant, and a writer has
\* committed nothing yet.
Accompanied(r) == \E s \in file : s.table = "ledger" /\ s.at = r.at /\ s.agent = r.agent
FileInv ==
  /\ \A r \in file : r.at <= clock /\ (r.table = "claims" => Accompanied(r))
  /\ \A p \in Task : call[p].op = "write" /\ call[p].pc \notin {"return", "pending"}
                       => \A r \in file : r.at # call[p].now
  /\ \A p \in Task : call[p].pc = "pending"
                       => \E s \in file : s.table = "claims" /\ s.at = call[p].now
  /\ \A p, q \in Task : p # q /\ call[p].op # "none" /\ call[q].op # "none"
                          => call[p].now # call[q].now

\* A writer that has loaded a table has all its process has committed there for the agent.
Own(p, table) == {r \in Found(p, table) : r.by = EngineOf[p]}
LoadInv ==
  \A p \in Task : call[p].op = "write" =>
    /\ call[p].pc \in {"ledger", "begin", "advisory"} \cup InTxn => Own(p, "claims") \subseteq call[p].seen
    /\ call[p].pc \in {"begin", "advisory"} \cup InTxn => Own(p, "ledger") \subseteq call[p].seen

\* A query that has the claims finds the entry of each one in the next statement.
QueryInv ==
  \A p \in Task : call[p].op = "query" =>
    /\ call[p].pc = "ledger" => call[p].seen \subseteq Found(p, "claims")
    /\ call[p].pc = "answer" => \A r \in call[p].seen : r.table = "claims" =>
         \E s \in call[p].seen : s.table = "ledger" /\ s.at = r.at

\* Entries are numbered 1, 2, 3, each number once: those of an agent that are committed, and
\* these together with those of an open transaction.
Counted(S) ==
  /\ IsFiniteSet(S)
  /\ \A r, s \in S : r.seq = s.seq => r = s
  /\ {r.seq : r \in S} = 1..Cardinality(S)
Committed(a) == {r \in file : r.table = "ledger" /\ r.agent = a}
Numbers(p)   == Committed(call[p].agent) \cup Entries(p)
NumberInv ==
  /\ \A a \in Agent : Counted(Committed(a))
  /\ \A p \in Task : call[p].pc \in InTxn => Counted(Numbers(p))
  /\ \A p \in Task : call[p].pc = "insert" => call[p].seq = Cardinality(Numbers(p)) + 1

IInv ==
  /\ Types /\ StepInv /\ MutexInv /\ AdvisoryInv /\ RowsInv
  /\ FileInv /\ LoadInv /\ QueryInv /\ NumberInv

-----------------------------------------------------------------------------
(* What a step makes of the call of its task.                              *)

\* The call of p goes on at l with these in hand; all other calls stay as they are.
Becomes(p, l, m, k, seen, rows, seq) ==
  call' = [call EXCEPT ![p] = [op |-> call[p].op, pc |-> l, agent |-> call[p].agent,
                               now |-> call[p].now, mutex |-> m, conn |-> k, seen |-> seen,
                               rows |-> rows, seq |-> seq]]

\* The fields of a call that goes on.
LEMMA Fields ==
  ASSUME Types, NEW p \in Task, NEW l, NEW m, NEW k, NEW seen, NEW rows, NEW seq,
         Becomes(p, l, m, k, seen, rows, seq)
  PROVE  /\ call'[p].op = call[p].op /\ call'[p].agent = call[p].agent
         /\ call'[p].now = call[p].now
         /\ call'[p].pc = l /\ call'[p].mutex = m /\ call'[p].conn = k
         /\ call'[p].seen = seen /\ call'[p].rows = rows /\ call'[p].seq = seq
         /\ \A q \in Task \ {p} : call'[q] = call[q]
BY DEF Types, Becomes

\* A call that goes to a place of the code keeps its type.
LEMMA BecomesTyped ==
  ASSUME Types, NEW p \in Task, NEW l, NEW m \in Task \cup {Nobody}, NEW k \in Conn \cup {NoConn},
         NEW seen \in SUBSET Row, NEW rows \in SUBSET Row, NEW seq \in Nat,
         l \in Borrowing \cup InTxn \cup {"idle", "lookup", "create", "mutex", "advisory",
                                        "rollback", "answer", "return"},
         Becomes(p, l, m, k, seen, rows, seq)
  PROVE  call' \in [Task -> Call]
<1>1. call[p] \in Call
  BY DEF Types
<1>. QED
  BY <1>1 DEF Types, Becomes, Call

\* Two ways to write what a step does to the call of its task.
LEMMA GotoBecomes ==
  ASSUME Types, NEW p \in Task, NEW l, Goto(p, l)
  PROVE  Becomes(p, l, call[p].mutex, call[p].conn, call[p].seen, call[p].rows, call[p].seq)
<1>1. call[p] \in Call
  BY DEF Types
<1>2. call' = [call EXCEPT ![p] = [call[p] EXCEPT !.pc = l]]
  BY DEF Goto, Types
<1>3. [call[p] EXCEPT !.pc = l]
        = [op |-> call[p].op, pc |-> l, agent |-> call[p].agent, now |-> call[p].now,
           mutex |-> call[p].mutex, conn |-> call[p].conn, seen |-> call[p].seen,
           rows |-> call[p].rows, seq |-> call[p].seq]
  BY <1>1 DEF Call
<1>. QED
  BY <1>2, <1>3 DEF Becomes

\* A look at the map.
LEMMA MutexBecomes ==
  ASSUME Types, NEW p \in Task, NEW l, NEW m,
         call' = [call EXCEPT ![p] = [@ EXCEPT !.mutex = m, !.pc = l]]
  PROVE  Becomes(p, l, m, call[p].conn, call[p].seen, call[p].rows, call[p].seq)
<1>1. call[p] \in Call
  BY DEF Types
<1>2. [call[p] EXCEPT !.mutex = m]
        = [op |-> call[p].op, pc |-> call[p].pc, agent |-> call[p].agent, now |-> call[p].now,
           mutex |-> m, conn |-> call[p].conn, seen |-> call[p].seen,
           rows |-> call[p].rows, seq |-> call[p].seq]
  BY <1>1 DEF Call
<1>3. [call[p] EXCEPT !.mutex = m, !.pc = l]
        = [[call[p] EXCEPT !.mutex = m] EXCEPT !.pc = l]
  OBVIOUS
<1>4. [[op |-> call[p].op, pc |-> call[p].pc, agent |-> call[p].agent, now |-> call[p].now,
             mutex |-> m, conn |-> call[p].conn, seen |-> call[p].seen,
             rows |-> call[p].rows, seq |-> call[p].seq] EXCEPT !.pc = l]
        = [op |-> call[p].op, pc |-> l, agent |-> call[p].agent, now |-> call[p].now,
           mutex |-> m, conn |-> call[p].conn, seen |-> call[p].seen,
           rows |-> call[p].rows, seq |-> call[p].seq]
  OBVIOUS
<1>5. [call[p] EXCEPT !.mutex = m, !.pc = l]
        = [op |-> call[p].op, pc |-> l, agent |-> call[p].agent, now |-> call[p].now,
           mutex |-> m, conn |-> call[p].conn, seen |-> call[p].seen,
           rows |-> call[p].rows, seq |-> call[p].seq]
  BY <1>2, <1>3, <1>4
<1>6. call' = [call EXCEPT ![p] = [call[p] EXCEPT !.mutex = m, !.pc = l]]
  BY <1>1 DEF Types, Call
<1>. QED
  BY <1>5, <1>6 DEF Becomes

\* A connection from the pool.
LEMMA BorrowBecomes ==
  ASSUME Types, NEW p \in Task, NEW k,
         call' = [call EXCEPT ![p].conn = k]
  PROVE  Becomes(p, call[p].pc, call[p].mutex, k, call[p].seen, call[p].rows, call[p].seq)
<1>1. call[p] \in Call
  BY DEF Types
<1>2. [call[p] EXCEPT !.conn = k]
        = [op |-> call[p].op, pc |-> call[p].pc, agent |-> call[p].agent, now |-> call[p].now,
           mutex |-> call[p].mutex, conn |-> k, seen |-> call[p].seen,
           rows |-> call[p].rows, seq |-> call[p].seq]
  BY <1>1 DEF Call
<1>3. call' = [call EXCEPT ![p] = [call[p] EXCEPT !.conn = k]]
  BY <1>1 DEF Types, Call
<1>. QED
  BY <1>2, <1>3 DEF Becomes

\* A connection goes back.
LEMMA ReleaseBecomes ==
  ASSUME Types, NEW p \in Task, NEW l,
         call' = [call EXCEPT ![p] = [@ EXCEPT !.pc = l, !.conn = NoConn]]
  PROVE  Becomes(p, l, call[p].mutex, NoConn, call[p].seen, call[p].rows, call[p].seq)
<1>1. call[p] \in Call
  BY DEF Types
<1>2. [call[p] EXCEPT !.pc = l]
        = [op |-> call[p].op, pc |-> l, agent |-> call[p].agent, now |-> call[p].now,
           mutex |-> call[p].mutex, conn |-> call[p].conn, seen |-> call[p].seen,
           rows |-> call[p].rows, seq |-> call[p].seq]
  BY <1>1 DEF Call
<1>3. [call[p] EXCEPT !.pc = l, !.conn = NoConn]
        = [[call[p] EXCEPT !.pc = l] EXCEPT !.conn = NoConn]
  OBVIOUS
<1>4. [[op |-> call[p].op, pc |-> l, agent |-> call[p].agent, now |-> call[p].now,
             mutex |-> call[p].mutex, conn |-> call[p].conn, seen |-> call[p].seen,
             rows |-> call[p].rows, seq |-> call[p].seq] EXCEPT !.conn = NoConn]
        = [op |-> call[p].op, pc |-> l, agent |-> call[p].agent, now |-> call[p].now,
           mutex |-> call[p].mutex, conn |-> NoConn, seen |-> call[p].seen,
           rows |-> call[p].rows, seq |-> call[p].seq]
  OBVIOUS
<1>5. [call[p] EXCEPT !.pc = l, !.conn = NoConn]
        = [op |-> call[p].op, pc |-> l, agent |-> call[p].agent, now |-> call[p].now,
           mutex |-> call[p].mutex, conn |-> NoConn, seen |-> call[p].seen,
           rows |-> call[p].rows, seq |-> call[p].seq]
  BY <1>2, <1>3, <1>4
<1>6. call' = [call EXCEPT ![p] = [call[p] EXCEPT !.pc = l, !.conn = NoConn]]
  BY <1>1 DEF Types, Call
<1>. QED
  BY <1>5, <1>6 DEF Becomes

\* A load.
LEMMA LoadBecomes ==
  ASSUME Types, NEW p \in Task, NEW l, NEW seen,
         call' = [call EXCEPT ![p] = [@ EXCEPT !.seen = seen, !.pc = l, !.conn = NoConn]]
  PROVE  Becomes(p, l, call[p].mutex, NoConn, seen, call[p].rows, call[p].seq)
<1>1. call[p] \in Call
  BY DEF Types
<1>2. [call[p] EXCEPT !.seen = seen]
        = [op |-> call[p].op, pc |-> call[p].pc, agent |-> call[p].agent, now |-> call[p].now,
           mutex |-> call[p].mutex, conn |-> call[p].conn, seen |-> seen,
           rows |-> call[p].rows, seq |-> call[p].seq]
  BY <1>1 DEF Call
<1>3. [call[p] EXCEPT !.seen = seen, !.pc = l]
        = [[call[p] EXCEPT !.seen = seen] EXCEPT !.pc = l]
  OBVIOUS
<1>4. [[op |-> call[p].op, pc |-> call[p].pc, agent |-> call[p].agent, now |-> call[p].now,
             mutex |-> call[p].mutex, conn |-> call[p].conn, seen |-> seen,
             rows |-> call[p].rows, seq |-> call[p].seq] EXCEPT !.pc = l]
        = [op |-> call[p].op, pc |-> l, agent |-> call[p].agent, now |-> call[p].now,
           mutex |-> call[p].mutex, conn |-> call[p].conn, seen |-> seen,
           rows |-> call[p].rows, seq |-> call[p].seq]
  OBVIOUS
<1>5. [call[p] EXCEPT !.seen = seen, !.pc = l]
        = [op |-> call[p].op, pc |-> l, agent |-> call[p].agent, now |-> call[p].now,
           mutex |-> call[p].mutex, conn |-> call[p].conn, seen |-> seen,
           rows |-> call[p].rows, seq |-> call[p].seq]
  BY <1>2, <1>3, <1>4
<1>6. [call[p] EXCEPT !.seen = seen, !.pc = l, !.conn = NoConn]
        = [[call[p] EXCEPT !.seen = seen, !.pc = l] EXCEPT !.conn = NoConn]
  OBVIOUS
<1>7. [[op |-> call[p].op, pc |-> l, agent |-> call[p].agent, now |-> call[p].now,
             mutex |-> call[p].mutex, conn |-> call[p].conn, seen |-> seen,
             rows |-> call[p].rows, seq |-> call[p].seq] EXCEPT !.conn = NoConn]
        = [op |-> call[p].op, pc |-> l, agent |-> call[p].agent, now |-> call[p].now,
           mutex |-> call[p].mutex, conn |-> NoConn, seen |-> seen,
           rows |-> call[p].rows, seq |-> call[p].seq]
  OBVIOUS
<1>8. [call[p] EXCEPT !.seen = seen, !.pc = l, !.conn = NoConn]
        = [op |-> call[p].op, pc |-> l, agent |-> call[p].agent, now |-> call[p].now,
           mutex |-> call[p].mutex, conn |-> NoConn, seen |-> seen,
           rows |-> call[p].rows, seq |-> call[p].seq]
  BY <1>5, <1>6, <1>7
<1>9. call' = [call EXCEPT ![p] = [call[p] EXCEPT !.seen = seen, !.pc = l, !.conn = NoConn]]
  BY <1>1 DEF Types, Call
<1>. QED
  BY <1>8, <1>9 DEF Becomes

\* Rows of a transaction.
LEMMA RowsBecomes ==
  ASSUME Types, NEW p \in Task, NEW l, NEW rows,
         call' = [call EXCEPT ![p] = [@ EXCEPT !.rows = rows, !.pc = l]]
  PROVE  Becomes(p, l, call[p].mutex, call[p].conn, call[p].seen, rows, call[p].seq)
<1>1. call[p] \in Call
  BY DEF Types
<1>2. [call[p] EXCEPT !.rows = rows]
        = [op |-> call[p].op, pc |-> call[p].pc, agent |-> call[p].agent, now |-> call[p].now,
           mutex |-> call[p].mutex, conn |-> call[p].conn, seen |-> call[p].seen,
           rows |-> rows, seq |-> call[p].seq]
  BY <1>1 DEF Call
<1>3. [call[p] EXCEPT !.rows = rows, !.pc = l]
        = [[call[p] EXCEPT !.rows = rows] EXCEPT !.pc = l]
  OBVIOUS
<1>4. [[op |-> call[p].op, pc |-> call[p].pc, agent |-> call[p].agent, now |-> call[p].now,
             mutex |-> call[p].mutex, conn |-> call[p].conn, seen |-> call[p].seen,
             rows |-> rows, seq |-> call[p].seq] EXCEPT !.pc = l]
        = [op |-> call[p].op, pc |-> l, agent |-> call[p].agent, now |-> call[p].now,
           mutex |-> call[p].mutex, conn |-> call[p].conn, seen |-> call[p].seen,
           rows |-> rows, seq |-> call[p].seq]
  OBVIOUS
<1>5. [call[p] EXCEPT !.rows = rows, !.pc = l]
        = [op |-> call[p].op, pc |-> l, agent |-> call[p].agent, now |-> call[p].now,
           mutex |-> call[p].mutex, conn |-> call[p].conn, seen |-> call[p].seen,
           rows |-> rows, seq |-> call[p].seq]
  BY <1>2, <1>3, <1>4
<1>6. call' = [call EXCEPT ![p] = [call[p] EXCEPT !.rows = rows, !.pc = l]]
  BY <1>1 DEF Types, Call
<1>. QED
  BY <1>5, <1>6 DEF Becomes

\* The next number.
LEMMA SeqBecomes ==
  ASSUME Types, NEW p \in Task, NEW l, NEW seq,
         call' = [call EXCEPT ![p] = [@ EXCEPT !.seq = seq, !.pc = l]]
  PROVE  Becomes(p, l, call[p].mutex, call[p].conn, call[p].seen, call[p].rows, seq)
<1>1. call[p] \in Call
  BY DEF Types
<1>2. [call[p] EXCEPT !.seq = seq]
        = [op |-> call[p].op, pc |-> call[p].pc, agent |-> call[p].agent, now |-> call[p].now,
           mutex |-> call[p].mutex, conn |-> call[p].conn, seen |-> call[p].seen,
           rows |-> call[p].rows, seq |-> seq]
  BY <1>1 DEF Call
<1>3. [call[p] EXCEPT !.seq = seq, !.pc = l]
        = [[call[p] EXCEPT !.seq = seq] EXCEPT !.pc = l]
  OBVIOUS
<1>4. [[op |-> call[p].op, pc |-> call[p].pc, agent |-> call[p].agent, now |-> call[p].now,
             mutex |-> call[p].mutex, conn |-> call[p].conn, seen |-> call[p].seen,
             rows |-> call[p].rows, seq |-> seq] EXCEPT !.pc = l]
        = [op |-> call[p].op, pc |-> l, agent |-> call[p].agent, now |-> call[p].now,
           mutex |-> call[p].mutex, conn |-> call[p].conn, seen |-> call[p].seen,
           rows |-> call[p].rows, seq |-> seq]
  OBVIOUS
<1>5. [call[p] EXCEPT !.seq = seq, !.pc = l]
        = [op |-> call[p].op, pc |-> l, agent |-> call[p].agent, now |-> call[p].now,
           mutex |-> call[p].mutex, conn |-> call[p].conn, seen |-> call[p].seen,
           rows |-> call[p].rows, seq |-> seq]
  BY <1>2, <1>3, <1>4
<1>6. call' = [call EXCEPT ![p] = [call[p] EXCEPT !.seq = seq, !.pc = l]]
  BY <1>1 DEF Types, Call
<1>. QED
  BY <1>5, <1>6 DEF Becomes

\* The end of a transaction.
LEMMA EndBecomes ==
  ASSUME Types, NEW p \in Task, NEW l,
         call' = [call EXCEPT ![p] = [@ EXCEPT !.pc = l, !.conn = NoConn, !.rows = {}]]
  PROVE  Becomes(p, l, call[p].mutex, NoConn, call[p].seen, {}, call[p].seq)
<1>1. call[p] \in Call
  BY DEF Types
<1>2. [call[p] EXCEPT !.pc = l]
        = [op |-> call[p].op, pc |-> l, agent |-> call[p].agent, now |-> call[p].now,
           mutex |-> call[p].mutex, conn |-> call[p].conn, seen |-> call[p].seen,
           rows |-> call[p].rows, seq |-> call[p].seq]
  BY <1>1 DEF Call
<1>3. [call[p] EXCEPT !.pc = l, !.conn = NoConn]
        = [[call[p] EXCEPT !.pc = l] EXCEPT !.conn = NoConn]
  OBVIOUS
<1>4. [[op |-> call[p].op, pc |-> l, agent |-> call[p].agent, now |-> call[p].now,
             mutex |-> call[p].mutex, conn |-> call[p].conn, seen |-> call[p].seen,
             rows |-> call[p].rows, seq |-> call[p].seq] EXCEPT !.conn = NoConn]
        = [op |-> call[p].op, pc |-> l, agent |-> call[p].agent, now |-> call[p].now,
           mutex |-> call[p].mutex, conn |-> NoConn, seen |-> call[p].seen,
           rows |-> call[p].rows, seq |-> call[p].seq]
  OBVIOUS
<1>5. [call[p] EXCEPT !.pc = l, !.conn = NoConn]
        = [op |-> call[p].op, pc |-> l, agent |-> call[p].agent, now |-> call[p].now,
           mutex |-> call[p].mutex, conn |-> NoConn, seen |-> call[p].seen,
           rows |-> call[p].rows, seq |-> call[p].seq]
  BY <1>2, <1>3, <1>4
<1>6. [call[p] EXCEPT !.pc = l, !.conn = NoConn, !.rows = {}]
        = [[call[p] EXCEPT !.pc = l, !.conn = NoConn] EXCEPT !.rows = {}]
  OBVIOUS
<1>7. [[op |-> call[p].op, pc |-> l, agent |-> call[p].agent, now |-> call[p].now,
             mutex |-> call[p].mutex, conn |-> NoConn, seen |-> call[p].seen,
             rows |-> call[p].rows, seq |-> call[p].seq] EXCEPT !.rows = {}]
        = [op |-> call[p].op, pc |-> l, agent |-> call[p].agent, now |-> call[p].now,
           mutex |-> call[p].mutex, conn |-> NoConn, seen |-> call[p].seen,
           rows |-> {}, seq |-> call[p].seq]
  OBVIOUS
<1>8. [call[p] EXCEPT !.pc = l, !.conn = NoConn, !.rows = {}]
        = [op |-> call[p].op, pc |-> l, agent |-> call[p].agent, now |-> call[p].now,
           mutex |-> call[p].mutex, conn |-> NoConn, seen |-> call[p].seen,
           rows |-> {}, seq |-> call[p].seq]
  BY <1>5, <1>6, <1>7
<1>9. call' = [call EXCEPT ![p] = [call[p] EXCEPT !.pc = l, !.conn = NoConn, !.rows = {}]]
  BY <1>1 DEF Types, Call
<1>. QED
  BY <1>8, <1>9 DEF Becomes

-----------------------------------------------------------------------------
(* What a step does, as far as the invariant goes.                         *)

Moves(p, l, m, seen, rows, seq) ==
  /\ call'[p].op = call[p].op /\ call'[p].agent = call[p].agent /\ call'[p].now = call[p].now
  /\ call'[p].pc = l /\ call'[p].mutex = m
  /\ call'[p].seen = seen /\ call'[p].rows = rows /\ call'[p].seq = seq
  /\ \A q \in Task \ {p} : call'[q] = call[q]

Starts(p) ==
  /\ clock' = clock + 1 /\ call[p].op = "none"
  /\ call'[p].op \in {"write", "query"} /\ call'[p].agent \in Agent /\ call'[p].now = clock'
  /\ call'[p].pc = IF call'[p].op = "write" THEN "lookup" ELSE "claims"
  /\ call'[p].mutex = Nobody /\ call'[p].seen = {} /\ call'[p].rows = {}
  /\ \A q \in Task \ {p} : call'[q] = call[q]
  /\ UNCHANGED <<file, advisory, locks>>

Returns(p) ==
  /\ call[p].pc \in {"answer", "return"} /\ call'[p] = Idle
  /\ \A q \in Task \ {p} : call'[q] = call[q]
  /\ UNCHANGED <<file, advisory, locks, clock>>

\* From one place to another, with the same in hand and nothing said to anybody.
Quiet(p) ==
  \E l : /\ Moves(p, l, call[p].mutex, call[p].seen, call[p].rows, call[p].seq)
         /\ \/ l = call[p].pc
            \/ l = "advisory" /\ call[p].pc = "begin"
            \/ l = "return" /\ call[p].pc \in Borrowing \cup {"rollback", "advisory"}
         /\ UNCHANGED <<file, advisory, locks, clock>>

\* On the way to the mutex.
Looks(p) ==
  /\ call[p].pc = "lookup"
  /\ Moves(p, IF Entry(p) = Nobody THEN "create" ELSE "mutex", Entry(p),
           call[p].seen, call[p].rows, call[p].seq)
  /\ UNCHANGED <<file, advisory, locks, clock>>
Creates(p) ==
  LET m == IF Entry(p) = Nobody THEN p ELSE Entry(p)
  IN  /\ call[p].pc = "create"
      /\ Moves(p, "mutex", m, call[p].seen, call[p].rows, call[p].seq)
      /\ locks' = [locks EXCEPT ![EngineOf[p]][call[p].agent] = m]
      /\ UNCHANGED <<file, advisory, clock>>
Acquires(p) ==
  /\ call[p].pc = "mutex" /\ ~Held(p)
  /\ Moves(p, "claims", call[p].mutex, call[p].seen, call[p].rows, call[p].seq)
  /\ UNCHANGED <<file, advisory, locks, clock>>

Loads(p) ==
  /\ \/ /\ call[p].pc = "claims"
        /\ Moves(p, "ledger", call[p].mutex, Found(p, "claims"), call[p].rows, call[p].seq)
     \/ /\ call[p].pc = "ledger"
        /\ Moves(p, IF call[p].op = "query" THEN "answer" ELSE "begin", call[p].mutex,
                 call[p].seen \cup Found(p, "ledger"), call[p].rows, call[p].seq)
  /\ UNCHANGED <<file, advisory, locks, clock>>

\* Within a transaction.
Enters(p) ==
  /\ call[p].pc = "advisory" /\ advisory[HashFor(p)] = Nobody
  /\ advisory' = [advisory EXCEPT ![HashFor(p)] = p]
  /\ Moves(p, "append", call[p].mutex, call[p].seen, call[p].rows, call[p].seq)
  /\ UNCHANGED <<file, locks, clock>>
Appends(p) ==
  /\ call[p].pc = "append"
  /\ \E rows \in {{}, {RowOf(p, "claims", 0)}} :
       Moves(p, "number", call[p].mutex, call[p].seen, rows, call[p].seq)
  /\ UNCHANGED <<file, advisory, locks, clock>>
Counts(p) ==
  /\ call[p].pc = "number"
  /\ Moves(p, "insert", call[p].mutex, call[p].seen, call[p].rows, Following(Seqs(p)))
  /\ UNCHANGED <<file, advisory, locks, clock>>
Inserts(p) ==
  /\ call[p].pc = "insert"
  /\ \E l \in {"number", "commit"} :
       Moves(p, l, call[p].mutex, call[p].seen,
             call[p].rows \cup {RowOf(p, "ledger", call[p].seq)}, call[p].seq)
  /\ UNCHANGED <<file, advisory, locks, clock>>

\* The end of a transaction: rows are committed only from "commit".
Ends(p) ==
  \E l \in {"return", "pending", "rollback"} :
    /\ Moves(p, l, call[p].mutex, call[p].seen, {}, call[p].seq)
    /\ call[p].pc \in {"append", "number", "insert", "commit"}
    /\ l = "pending" => /\ call[p].pc = "commit" /\ file' = file \cup call[p].rows
                        /\ call[p].rows # Entries(p)
    /\ l = "rollback" => file' = file
    /\ file' = file \/ (file' = file \cup call[p].rows /\ call[p].pc = "commit")
    /\ advisory' = [h \in Hash |-> IF advisory[h] = p THEN Nobody ELSE advisory[h]]
    /\ UNCHANGED <<locks, clock>>

Registers(p) ==
  /\ call[p].pc = "pending"
  /\ file' = file \cup {RowOf(p, "pending", 0)}
  /\ Moves(p, "return", call[p].mutex, call[p].seen, call[p].rows, call[p].seq)
  /\ UNCHANGED <<advisory, locks, clock>>

\* The death of a process leaves its tasks idle and the rows as they are.
Dies(e) ==
  /\ call' = [p \in Task |-> IF EngineOf[p] = e THEN Idle ELSE call[p]]
  /\ locks' = [locks EXCEPT ![e] = [a \in Agent |-> Nobody]]
  /\ advisory' = [h \in Hash |-> IF \E p \in Task : advisory[h] = p /\ EngineOf[p] = e
                                 THEN Nobody ELSE advisory[h]]
  /\ UNCHANGED <<file, clock>>

Step(p) ==
  \/ Starts(p) \/ Returns(p) \/ Quiet(p) \/ Looks(p) \/ Creates(p) \/ Acquires(p) \/ Loads(p)
  \/ Enters(p) \/ Appends(p) \/ Counts(p) \/ Inserts(p) \/ Ends(p) \/ Registers(p)

\* The number after 1, ..., n.
LEMMA FollowingIsNext ==
  ASSUME NEW n \in Nat
  PROVE  Following(1..n) = n + 1
<1> DEFINE Top(m) == \A k \in 1..n : k <= m
<1>1. n \in {0} \cup (1..n) /\ Top(n) /\ \A m \in {0} \cup (1..n) : Top(m) => m = n
  OBVIOUS
<1>2. (CHOOSE m \in {0} \cup (1..n) : Top(m)) = n
  <2> HIDE DEF Top
  <2>. QED
    BY <1>1
<1>3. Following(1..n) = 1 + n
  BY <1>2, Zenon DEF Following
<1>. QED
  BY <1>3

\* What a transaction counts are the numbers of its agent, committed and its own.
LEMMA SeqsAreNumbers ==
  ASSUME RowsInv, NEW p \in Task
  PROVE  Seqs(p) = {r.seq : r \in Numbers(p)}
BY DEF Seqs, Numbers, Committed, Entries, RowsInv

\* Every step is one of those above.
LEMMA FieldsMove ==
  ASSUME Types, NEW p \in Task, NEW l, NEW m, NEW k, NEW seen, NEW rows, NEW seq,
         Becomes(p, l, m, k, seen, rows, seq)
  PROVE  Moves(p, l, m, seen, rows, seq)
BY Fields DEF Moves

\* A row of a call that writes is a row.
LEMMA RowTyped ==
  ASSUME Types, NEW p \in Task, call[p].op # "none", StepInv, NEW seq \in Nat,
         NEW table \in {"claims", "ledger", "pending"}
  PROVE  RowOf(p, table, seq) \in Row
<1>1. call[p].agent \in Agent /\ call[p].now \in Instant
  BY PostgresStoreAssumption DEF StepInv, StepOf, Types, Instant
<1>. QED
  BY <1>1, PostgresStoreAssumption DEF RowOf, Row

\* A call that is not idle, its row and its place.
LEMMA CallTyped ==
  ASSUME Types, NEW p \in Task
  PROVE  /\ call[p] \in Call
         /\ call[p].mutex \in Task \cup {Nobody} /\ call[p].conn \in Conn \cup {NoConn}
         /\ call[p].seen \in SUBSET Row /\ call[p].rows \in SUBSET Row /\ call[p].seq \in Nat
         /\ call[p].op \in {"none", "write", "query"}
         /\ call[p].agent \in Agent \cup {Nobody}
BY DEF Types, Call

\* Steps that only move a call, with what it has, from one place to another.
LEMMA QuietSteps ==
  ASSUME IInv, NEW p \in Task,
         \/ \E k \in Conn : Borrow(p, k)
         \/ Timeout(p) \/ Refused(p) \/ Decline(p) \/ Begin(p) \/ Rollback(p)
         \/ (FailOutside(p) \/ FailLock(p)) /\ UNCHANGED <<locks, clock>>
  PROVE  Quiet(p) /\ call' \in [Task -> Call]
<1>. USE CallTyped DEF IInv
<1>1. ASSUME NEW l, Goto(p, l), l \in {"return", "advisory"}
      PROVE  /\ Moves(p, l, call[p].mutex, call[p].seen, call[p].rows, call[p].seq)
             /\ call' \in [Task -> Call]
  BY <1>1, GotoBecomes, FieldsMove, BecomesTyped
<1>2. ASSUME Release(p, "return")
      PROVE  /\ Moves(p, "return", call[p].mutex, call[p].seen, call[p].rows, call[p].seq)
             /\ call' \in [Task -> Call]
  BY <1>2, ReleaseBecomes, FieldsMove, BecomesTyped DEF Release
<1>3. ASSUME NEW k \in Conn, Borrow(p, k)
      PROVE  Quiet(p) /\ call' \in [Task -> Call]
  <2>1. Becomes(p, call[p].pc, call[p].mutex, k, call[p].seen, call[p].rows, call[p].seq)
    BY <1>3, BorrowBecomes DEF Borrow
  <2>2. /\ Moves(p, call[p].pc, call[p].mutex, call[p].seen, call[p].rows, call[p].seq)
        /\ call' \in [Task -> Call]
    BY <1>3, <2>1, FieldsMove, BecomesTyped DEF Borrow, Waiting
  <2>. QED
    BY <1>3, <2>2 DEF Borrow, Quiet
<1>4. CASE Timeout(p) \/ Decline(p) \/ Begin(p)
  BY <1>1, <1>4 DEF Timeout, Decline, Begin, Waiting, At, Quiet, Borrowing
<1>5. CASE Rollback(p) \/ ((FailOutside(p) \/ FailLock(p)) /\ UNCHANGED <<locks, clock>>)
  BY <1>2, <1>5 DEF Rollback, FailOutside, FailLock, Quiet
<1>6. CASE Refused(p)
  BY <1>2, <1>6 DEF Refused, Quiet
<1>. QED
  BY <1>3, <1>4, <1>5, <1>6

\* On the way to the mutex, and the loads.
LEMMA LoadingSteps ==
  ASSUME IInv, NEW p \in Task,
         LookUp(p) \/ Create(p) \/ AcquireMutex(p) \/ LoadClaims(p) \/ LoadLedger(p)
  PROVE  (Looks(p) \/ Creates(p) \/ Acquires(p) \/ Loads(p)) /\ call' \in [Task -> Call]
<1>. USE CallTyped DEF IInv
<1>1. CASE LookUp(p)
  <2> DEFINE l == IF Entry(p) = Nobody THEN "create" ELSE "mutex"
  <2>1. Becomes(p, l, Entry(p), call[p].conn, call[p].seen, call[p].rows, call[p].seq)
    BY <1>1, MutexBecomes DEF LookUp
  <2>2. call[p].op = "write" /\ call[p].agent \in Agent
    BY <1>1 DEF LookUp, StepInv, StepOf
  <2>3. Entry(p) \in Task \cup {Nobody}
    BY <2>2, PostgresStoreAssumption DEF Types, Entry
  <2>. QED
    BY <1>1, <2>1, <2>3, FieldsMove, BecomesTyped DEF LookUp, Looks
<1>2. CASE Create(p)
  <2> DEFINE m == IF Entry(p) = Nobody THEN p ELSE Entry(p)
  <2>1. Becomes(p, "mutex", m, call[p].conn, call[p].seen, call[p].rows, call[p].seq)
    BY <1>2, MutexBecomes DEF Create
  <2>2. call[p].op = "write" /\ call[p].agent \in Agent
    BY <1>2 DEF Create, StepInv, StepOf
  <2>3. m \in Task \cup {Nobody}
    BY <2>2, PostgresStoreAssumption DEF Types, Entry
  <2>. QED
    BY <1>2, <2>1, <2>3, FieldsMove, BecomesTyped DEF Create, Creates
<1>3. CASE AcquireMutex(p)
  <2>1. Becomes(p, "claims", call[p].mutex, call[p].conn, call[p].seen, call[p].rows, call[p].seq)
    BY <1>3, GotoBecomes DEF AcquireMutex
  <2>. QED
    BY <1>3, <2>1, FieldsMove, BecomesTyped DEF AcquireMutex, Acquires, Borrowing
<1>4. Found(p, "claims") \in SUBSET Row /\ Found(p, "ledger") \in SUBSET Row
  BY DEF Found, Types
<1>5. CASE LoadClaims(p)
  <2>1. Becomes(p, "ledger", call[p].mutex, NoConn, Found(p, "claims"), call[p].rows, call[p].seq)
    BY <1>5, LoadBecomes DEF LoadClaims
  <2>. QED
    BY <1>4, <1>5, <2>1, FieldsMove, BecomesTyped DEF LoadClaims, Loads, At, Borrowing
<1>6. CASE LoadLedger(p)
  <2> DEFINE l    == IF call[p].op = "query" THEN "answer" ELSE "begin"
             seen == call[p].seen \cup Found(p, "ledger")
  <2>1. Becomes(p, l, call[p].mutex, NoConn, seen, call[p].rows, call[p].seq)
    <3>1. call' = [call EXCEPT ![p] = [@ EXCEPT !.seen = seen, !.pc = l, !.conn = NoConn]]
      BY <1>6 DEF LoadLedger
    <3>. QED
      BY <3>1, LoadBecomes
  <2>2. seen \in SUBSET Row
    BY <1>4
  <2>. QED
    BY <1>6, <2>1, <2>2, FieldsMove, BecomesTyped DEF LoadLedger, Loads, At, Borrowing
<1>. QED
  BY <1>1, <1>2, <1>3, <1>5, <1>6

\* The steps of a transaction.
LEMMA TransactionSteps ==
  ASSUME IInv, NEW p \in Task,
         TakeLock(p) \/ Append(p) \/ Number(p) \/ Insert(p)
  PROVE  (Enters(p) \/ Appends(p) \/ Counts(p) \/ Inserts(p)) /\ call' \in [Task -> Call]
<1>. USE CallTyped DEF IInv
<1>1. call[p].op # "none" /\ call[p].pc \in {"advisory", "append", "number", "insert"}
  BY DEF TakeLock, Append, Number, Insert, StepInv, StepOf
<1>2. \A seq \in Nat : RowOf(p, "claims", seq) \in Row /\ RowOf(p, "ledger", seq) \in Row
  BY <1>1, RowTyped
<1>3. CASE TakeLock(p)
  BY <1>3, GotoBecomes, FieldsMove, BecomesTyped DEF TakeLock, Enters, InTxn
<1>4. CASE Append(p)
  <2>1. PICK rows \in {{}, {RowOf(p, "claims", 0)}} :
          call' = [call EXCEPT ![p] = [@ EXCEPT !.rows = rows, !.pc = "number"]]
    BY <1>4 DEF Append
  <2>2. Becomes(p, "number", call[p].mutex, call[p].conn, call[p].seen, rows, call[p].seq)
    BY <2>1, RowsBecomes
  <2>3. rows \in SUBSET Row
    BY <1>2
  <2>. QED
    BY <1>4, <2>2, <2>3, FieldsMove, BecomesTyped DEF Append, Appends, InTxn, Numbering
<1>5. CASE Number(p)
  <2>1. Following(Seqs(p)) \in Nat
    <3>1. Counted(Numbers(p))
      BY <1>5 DEF Number, NumberInv, InTxn, Numbering
    <3>2. Seqs(p) = 1..Cardinality(Numbers(p)) /\ Cardinality(Numbers(p)) \in Nat
      BY <3>1, SeqsAreNumbers, FS_CardinalityType DEF Counted
    <3>. QED
      BY <3>2, FollowingIsNext
  <2>2. Becomes(p, "insert", call[p].mutex, call[p].conn, call[p].seen, call[p].rows, Following(Seqs(p)))
    BY <1>5, SeqBecomes DEF Number
  <2>. QED
    BY <1>5, <2>1, <2>2, FieldsMove, BecomesTyped DEF Number, Counts, InTxn, Numbering
<1>6. CASE Insert(p)
  <2> DEFINE rows == call[p].rows \cup {RowOf(p, "ledger", call[p].seq)}
  <2>1. PICK l \in {"number", "commit"} :
          call' = [call EXCEPT ![p] = [@ EXCEPT !.rows = rows, !.pc = l]]
    BY <1>6 DEF Insert
  <2>2. Becomes(p, l, call[p].mutex, call[p].conn, call[p].seen, rows, call[p].seq)
    BY <2>1, RowsBecomes
  <2>3. rows \in SUBSET Row
    BY <1>2
  <2>. QED
    BY <1>6, <2>2, <2>3, FieldsMove, BecomesTyped DEF Insert, Inserts, InTxn, Numbering
<1>. QED
  BY <1>3, <1>4, <1>5, <1>6

\* The ends of a transaction, and what a call does after it.
LEMMA EndingSteps ==
  ASSUME IInv, NEW p \in Task,
         \/ Commit(p) \/ InsertPending(p)
         \/ (FailInside(p) \/ FailCommit(p)) /\ UNCHANGED <<locks, clock>>
  PROVE  (Ends(p) \/ Registers(p)) /\ call' \in [Task -> Call]
<1>. USE CallTyped DEF IInv
<1>1. ASSUME NEW l, EndTxn(p, l), l \in {"return", "pending"}
      PROVE  /\ Moves(p, l, call[p].mutex, call[p].seen, {}, call[p].seq)
             /\ call' \in [Task -> Call]
  BY <1>1, EndBecomes, FieldsMove, BecomesTyped DEF EndTxn, Borrowing
<1>2. CASE Commit(p)
  BY <1>1, <1>2 DEF Commit, EndTxn, Ends
<1>3. CASE FailCommit(p) /\ UNCHANGED <<locks, clock>>
  BY <1>1, <1>3 DEF FailCommit, EndTxn, Ends
<1>4. CASE FailInside(p) /\ UNCHANGED <<locks, clock>>
  <2>1. Becomes(p, "rollback", call[p].mutex, call[p].conn, call[p].seen, {}, call[p].seq)
    BY <1>4, RowsBecomes DEF FailInside
  <2>. QED
    BY <1>4, <2>1, FieldsMove, BecomesTyped DEF FailInside, Ends
<1>5. CASE InsertPending(p)
  BY <1>5, ReleaseBecomes, FieldsMove, BecomesTyped DEF InsertPending, Release, Registers, At
<1>. QED
  BY <1>2, <1>3, <1>4, <1>5

\* The first and the last step of a call.
LEMMA CallSteps ==
  ASSUME IInv, NEW p \in Task,
         Return(p) \/ \E op \in {"write", "query"}, a \in Agent : Start(p, op, a)
  PROVE  (Starts(p) \/ Returns(p)) /\ call' \in [Task -> Call]
<1>. USE PostgresStoreAssumption DEF IInv, Types
<1>1. ASSUME NEW op \in {"write", "query"}, NEW a \in Agent, Start(p, op, a)
      PROVE  Starts(p) /\ call' \in [Task -> Call]
  <2> DEFINE l == IF op = "write" THEN "lookup" ELSE "claims"
             c == [Idle EXCEPT !.op = op, !.agent = a, !.now = clock + 1, !.pc = l]
  <2>1. clock < MaxClock /\ clock \in 0..MaxClock /\ call' = [call EXCEPT ![p] = c]
    BY <1>1 DEF Start
  <2>2. clock + 1 \in 0..MaxClock /\ l \in Borrowing \cup {"lookup"}
    BY <2>1 DEF Borrowing
  <2>3. c \in Call
    <3> HIDE DEF l
    <3>. QED
      BY <2>2 DEF Idle, Call
  <2>4. call' \in [Task -> Call] /\ call'[p] = c /\ \A q \in Task \ {p} : call'[q] = call[q]
    <3> HIDE DEF c
    <3>. QED
      BY <2>1, <2>3
  <2>5. c.op = op /\ c.agent = a /\ c.now = clock + 1 /\ c.pc = l /\ c.mutex = Nobody
        /\ c.seen = {} /\ c.rows = {}
    BY DEF Idle
  <2>6. call[p].op = "none" /\ clock' = clock + 1 /\ UNCHANGED <<file, advisory, locks>>
    <3>1. call[p] = Idle /\ clock' = clock + 1 /\ UNCHANGED <<file, advisory, locks>>
      BY <1>1 DEF Start
    <3>. QED
      BY <3>1 DEF Idle
  <2> HIDE DEF c
  <2>. QED
    BY <2>4, <2>5, <2>6 DEF Starts
<1>2. CASE Return(p)
  <2>1. Idle \in Call
    BY DEF Idle, Call
  <2>2. call' = [call EXCEPT ![p] = Idle]
    BY <1>2 DEF Return
  <2>3. call' \in [Task -> Call] /\ call'[p] = Idle /\ \A q \in Task \ {p} : call'[q] = call[q]
    BY <2>1, <2>2
  <2>. QED
    BY <1>2, <2>3 DEF Return, Returns
<1>. QED
  BY <1>1, <1>2

\* A step of the store is one of those above, or nothing the invariant speaks of changes.
LEMMA StepsOfNext ==
  ASSUME IInv, [Next]_vars
  PROVE  /\ call' \in [Task -> Call]
         /\ \/ \E p \in Task : Step(p)
            \/ \E e \in Engine : Dies(e)
            \/ UNCHANGED <<file, advisory, locks, call, clock>>
<1>. USE DEF Step
<1>1. ASSUME NEW p \in Task,
             \/ Return(p) \/ \E op \in {"write", "query"}, a \in Agent : Start(p, op, a)
      PROVE  Step(p) /\ call' \in [Task -> Call]
  BY <1>1, CallSteps
<1>2. ASSUME NEW p \in Task,
             \/ \E k \in Conn : Borrow(p, k)
             \/ Timeout(p) \/ Refused(p) \/ Decline(p) \/ Begin(p) \/ Rollback(p)
      PROVE  Step(p) /\ call' \in [Task -> Call]
  BY <1>2, QuietSteps
<1>3. ASSUME NEW p \in Task,
             LookUp(p) \/ Create(p) \/ AcquireMutex(p) \/ LoadClaims(p) \/ LoadLedger(p)
      PROVE  Step(p) /\ call' \in [Task -> Call]
  BY <1>3, LoadingSteps
<1>4. ASSUME NEW p \in Task, TakeLock(p) \/ Append(p) \/ Number(p) \/ Insert(p)
      PROVE  Step(p) /\ call' \in [Task -> Call]
  BY <1>4, TransactionSteps
<1>5. ASSUME NEW p \in Task, Commit(p) \/ InsertPending(p)
      PROVE  Step(p) /\ call' \in [Task -> Call]
  BY <1>5, EndingSteps
<1>6. ASSUME NEW p \in Task, Fail(p)
      PROVE  Step(p) /\ call' \in [Task -> Call]
  <2>1. CASE (FailOutside(p) \/ FailLock(p)) /\ UNCHANGED <<locks, clock>>
    BY <2>1, QuietSteps
  <2>2. CASE (FailInside(p) \/ FailCommit(p)) /\ UNCHANGED <<locks, clock>>
    BY <2>2, EndingSteps
  <2>. QED
    BY <1>6, <2>1, <2>2 DEF Fail
<1>7. ASSUME NEW e \in Engine, Crash(e)
      PROVE  Dies(e) /\ call' \in [Task -> Call]
  <2>1. Idle \in Call
    BY PostgresStoreAssumption DEF Idle, Call
  <2>. QED
    BY <1>7, <2>1 DEF Crash, Dies, IInv, Types
<1>8. ASSUME \/ \E k \in Conn : Recycle(k)
             \/ UNCHANGED vars
      PROVE  UNCHANGED <<file, advisory, locks, call, clock>> /\ call' \in [Task -> Call]
  BY <1>8 DEF Recycle, vars, IInv, Types
<1>. QED
  <2> HIDE DEF Step
  <2>. QED
    BY <1>1, <1>2, <1>3, <1>4, <1>5, <1>6, <1>7, <1>8 DEF Next

\* The state of the store keeps its type.
LEMMA TypesPreserved ==
  ASSUME IInv, [Next]_vars
  PROVE  Types'
<1>. USE PostgresStoreAssumption, CallTyped DEF IInv
<1>1. call' \in [Task -> Call]
  BY StepsOfNext
<1>2. CASE UNCHANGED <<file, advisory, locks, call, clock>>
  BY <1>2 DEF Types
<1>3. ASSUME NEW e \in Engine, Dies(e)
      PROVE  Types'
  BY <1>1, <1>3 DEF Types, Dies
<1>4. ASSUME NEW p \in Task, Step(p)
      PROVE  Types'
  <2>1. CASE Starts(p)
    <3>1. clock' \in 0..MaxClock
      <4>1. call'[p] \in Call /\ clock' = call'[p].now
        BY <1>1, <2>1 DEF Starts
      <4>. QED
        BY <4>1 DEF Call
    <3>. QED
      BY <1>1, <2>1, <3>1 DEF Types, Starts
  <2>2. CASE Returns(p) \/ Quiet(p) \/ Looks(p) \/ Acquires(p) \/ Loads(p) \/ Appends(p)
             \/ Counts(p) \/ Inserts(p)
    BY <1>1, <2>2 DEF Types, Returns, Quiet, Looks, Acquires, Loads, Appends, Counts, Inserts
  <2>3. CASE Creates(p)
    <3>1. call[p].agent \in Agent
      BY <2>3 DEF Creates, StepInv, StepOf
    <3>2. Entry(p) \in Task \cup {Nobody}
      BY <3>1 DEF Types, Entry
    <3>. QED
      BY <1>1, <2>3, <3>1, <3>2 DEF Types, Creates
  <2>4. CASE Enters(p)
    BY <1>1, <2>4 DEF Types, Enters
  <2>5. CASE Ends(p)
    BY <1>1, <2>5 DEF Types, Ends
  <2>6. CASE Registers(p)
    <3>1. call[p].op # "none"
      BY <2>6 DEF Registers, StepInv, StepOf
    <3>2. RowOf(p, "pending", 0) \in Row
      BY <3>1, RowTyped
    <3>. QED
      BY <1>1, <2>6, <3>2 DEF Types, Registers
  <2>. QED
    BY <1>4, <2>1, <2>2, <2>3, <2>4, <2>5, <2>6 DEF Step
<1>. QED
  BY <1>2, <1>3, <1>4, StepsOfNext

-----------------------------------------------------------------------------
(* The invariant holds at first and is kept.                               *)

\* No entry is numbered without a gap.
LEMMA NoneCounted == Counted({})
<1>1. Cardinality({}) = 0 /\ IsFiniteSet({})
  BY FS_EmptySet
<1>2. {r.seq : r \in {}} = {} /\ 1..0 = {}
  OBVIOUS
<1>. QED
  BY <1>1, <1>2 DEF Counted

\* The empty store.
LEMMA InitEstablishes ==
  ASSUME Init
  PROVE  IInv
<1>. USE PostgresStoreAssumption DEF Init
<1>1. \A p \in Task : call[p] = Idle
  OBVIOUS
<1>2. Types
  <2>1. Idle \in Call
    BY DEF Idle, Call
  <2>. QED
    BY <2>1 DEF Types
<1>3. \A p \in Task : /\ call[p].op = "none" /\ call[p].pc = "idle" /\ call[p].mutex = Nobody
                      /\ call[p].rows = {}
  BY <1>1 DEF Idle
<1>4. StepInv /\ RowsInv /\ LoadInv /\ QueryInv
  BY <1>3 DEF StepInv, StepOf, RowsInv, LoadInv, QueryInv, InTxn, Numbering
<1>5. MutexInv /\ AdvisoryInv /\ FileInv
  BY <1>3 DEF MutexInv, AdvisoryInv, FileInv, InTxn, Numbering
<1>6. NumberInv
  <2>1. \A a : Committed(a) = {}
    BY DEF Committed
  <2>. QED
    BY <1>3, <2>1, NoneCounted DEF NumberInv, InTxn, Numbering
<1>. QED
  BY <1>2, <1>4, <1>5, <1>6 DEF IInv

\* A step of one task leaves the calls of the others alone.
LEMMA StepLeavesOthers ==
  ASSUME NEW p \in Task, Step(p)
  PROVE  /\ \A q \in Task \ {p} : call'[q] = call[q]
         /\ clock' = clock \/ clock' = clock + 1
<1>1. CASE Starts(p) \/ Returns(p) \/ Looks(p) \/ Acquires(p) \/ Loads(p) \/ Enters(p)
  BY <1>1 DEF Starts, Returns, Looks, Acquires, Loads, Enters, Moves
<1>2. CASE Quiet(p) \/ Creates(p) \/ Appends(p) \/ Counts(p)
  BY <1>2 DEF Quiet, Creates, Appends, Counts, Moves
<1>3. CASE Inserts(p) \/ Ends(p) \/ Registers(p)
  BY <1>3 DEF Inserts, Ends, Registers, Moves
<1>. QED
  BY <1>1, <1>2, <1>3 DEF Step

\* The death of a process makes its calls idle and leaves the others alone.
LEMMA DeathLeavesOthers ==
  ASSUME NEW e \in Engine, Dies(e)
  PROVE  \A q \in Task : /\ EngineOf[q] = e  => call'[q] = Idle
                         /\ EngineOf[q] # e => call'[q] = call[q]
BY DEF Dies

\* Which calls take which steps.
LEMMA StepKept ==
  ASSUME IInv, [Next]_vars
  PROVE  StepInv'
<1>. USE PostgresStoreAssumption DEF IInv
<1>1. CASE UNCHANGED <<file, advisory, locks, call, clock>>
  BY <1>1 DEF StepInv, StepOf
<1>2. ASSUME NEW c, StepOf(c), clock' \in Nat, clock' >= clock
      PROVE  StepOf(c)'
  BY <1>2 DEF Types, StepOf
<1>3. StepOf(Idle)'
  BY DEF Idle, StepOf, InTxn, Numbering
<1>4. clock \in Nat /\ clock + 1 \in Nat /\ clock + 1 >= clock
  BY DEF Types
<1>5. ASSUME NEW e \in Engine, Dies(e)
      PROVE  StepInv'
  <2>. SUFFICES ASSUME NEW q \in Task
                PROVE  StepOf(call[q])'
    BY DEF StepInv
  <2>1. StepOf(call[q]) /\ clock' = clock
    BY <1>5 DEF StepInv, Dies
  <2>2. StepOf(call[q])'
    BY <1>2, <1>3, <1>4, <1>5, <2>1, DeathLeavesOthers DEF StepOf
  <2>. QED
    BY <2>2
<1>6. ASSUME NEW p \in Task, Step(p)
      PROVE  StepInv'
  <2>1. StepOf(call[p])
    BY DEF StepInv
  <2>2. StepOf(call[p])'
    <3>. USE <2>1, CallTyped DEF StepOf, Moves, InTxn, Numbering, Borrowing
    <3>1. CASE Starts(p)
      <4>1. /\ call'[p].op \in {"write", "query"} /\ call'[p].agent \in Agent
            /\ call'[p].pc = IF call'[p].op = "write" THEN "lookup" ELSE "claims"
            /\ call'[p].now = clock' /\ clock' = clock + 1
            /\ call'[p].mutex = Nobody /\ call'[p].rows = {}
        BY <3>1 DEF Starts
      <4>2. clock' \in 1..clock'
        BY <1>4, <4>1
      <4>. QED
        BY <4>1, <4>2
    <3>2. CASE Returns(p)
      BY <1>3, <3>2 DEF Returns
    <3>3. CASE Quiet(p)
      BY <3>3 DEF Quiet
    <3>4. CASE Looks(p)
      BY <3>4 DEF Looks
    <3>5. CASE Creates(p)
      BY <3>5 DEF Creates
    <3>6. CASE Acquires(p)
      BY <3>6 DEF Acquires
    <3>7. CASE Loads(p)
      BY <3>7 DEF Loads
    <3>8. CASE Enters(p)
      BY <3>8 DEF Enters
    <3>9. CASE Appends(p) \/ Counts(p)
      BY <3>9 DEF Appends, Counts
    <3>10. CASE Inserts(p)
      BY <3>10 DEF Inserts
    <3>11. CASE Ends(p)
      BY <3>11 DEF Ends
    <3>12. CASE Registers(p)
      BY <3>12 DEF Registers
    <3>. QED
      BY <1>6, <3>1, <3>2, <3>3, <3>4, <3>5, <3>6, <3>7, <3>8, <3>9, <3>10, <3>11, <3>12 DEF Step
  <2>3. ASSUME NEW q \in Task \ {p}
        PROVE  StepOf(call[q])'
    <3>1. call'[q] = call[q] /\ (clock' = clock \/ clock' = clock + 1)
      BY <1>6, StepLeavesOthers
    <3>2. StepOf(call[q]) /\ clock' \in Nat /\ clock' >= clock
      BY <1>4, <3>1 DEF StepInv
    <3>. QED
      BY <1>2, <3>1, <3>2 DEF StepOf
  <2>. QED
    BY <2>2, <2>3 DEF StepInv
<1>. QED
  BY <1>1, <1>5, <1>6, StepsOfNext

\* One call of a process holds the mutex of an agent.
LEMMA MutexKept ==
  ASSUME IInv, [Next]_vars
  PROVE  MutexInv'
<1>. USE PostgresStoreAssumption, StepKept, CallTyped DEF IInv, Entry, Same
<1>1. CASE UNCHANGED <<file, advisory, locks, call, clock>>
  BY <1>1 DEF MutexInv
<1>2. ASSUME NEW e \in Engine, Dies(e)
      PROVE  MutexInv'
  <2>1. \A q \in Task : call'[q].mutex # Nobody => EngineOf[q] # e /\ call'[q] = call[q]
    BY <1>2, DeathLeavesOthers DEF Idle
  <2>2. \A f \in Engine \ {e} : locks'[f] = locks[f]
    BY <1>2 DEF Dies, Types
  <2>. QED
    BY <2>1, <2>2 DEF MutexInv
<1>3. ASSUME NEW p \in Task, Step(p)
      PROVE  MutexInv'
  <2>0. \A q \in Task \ {p} : call'[q] = call[q]
    BY <1>3, StepLeavesOthers
  <2>1. ASSUME UNCHANGED locks, call'[p].agent = call[p].agent, call'[p].mutex = call[p].mutex,
               call[p].pc = "mutex" => call'[p].pc = "mutex"
        PROVE  MutexInv'
    BY <2>0, <2>1 DEF MutexInv
  <2>2. CASE Starts(p) \/ Returns(p)
    <3>1. call'[p].mutex = Nobody /\ UNCHANGED locks
      BY <2>2 DEF Starts, Returns, Idle
    <3>. QED
      BY <2>0, <3>1 DEF MutexInv
  <2>3. CASE Quiet(p) \/ Loads(p)
    BY <2>1, <2>3 DEF Quiet, Loads, Moves, Borrowing
  <2>4. CASE Enters(p) \/ Appends(p) \/ Counts(p)
    BY <2>1, <2>4 DEF Enters, Appends, Counts, Moves
  <2>5. CASE Inserts(p) \/ Ends(p) \/ Registers(p)
    BY <2>1, <2>5 DEF Inserts, Ends, Registers, Moves
  <2>6. CASE Looks(p)
    <3>1. UNCHANGED locks /\ call'[p].agent = call[p].agent /\ call'[p].mutex = Entry(p)
          /\ (Entry(p) # Nobody => call'[p].pc = "mutex")
      BY <2>6 DEF Looks, Moves
    <3>. QED
      BY <2>0, <3>1 DEF MutexInv
  <2>7. CASE Creates(p)
    <3> DEFINE m == IF Entry(p) = Nobody THEN p ELSE Entry(p)
    <3>1. /\ call'[p].agent = call[p].agent /\ call'[p].mutex = m /\ call'[p].pc = "mutex"
          /\ locks' = [locks EXCEPT ![EngineOf[p]][call[p].agent] = m]
          /\ call[p].pc = "create"
      BY <2>7 DEF Creates, Moves
    <3>2. call[p].agent \in Agent
      BY <3>1 DEF StepInv, StepOf
    <3>3. locks'[EngineOf[p]][call[p].agent] = m
      BY <3>1, <3>2 DEF Types
    <3>4. ASSUME NEW q \in Task \ {p}, call[q].mutex # Nobody
          PROVE  locks'[EngineOf[q]][call[q].agent] = call[q].mutex
      <4>1. locks[EngineOf[q]][call[q].agent] = call[q].mutex /\ call[q].agent \in Agent
        BY <3>4 DEF MutexInv, StepInv, StepOf
      <4>2. CASE Same(p, q)
        BY <3>3, <3>4, <4>1, <4>2
      <4>3. CASE ~Same(p, q)
        BY <3>1, <3>2, <4>1, <4>3 DEF Types
      <4>. QED
        BY <4>2, <4>3
    <3> HIDE DEF m
    <3>. QED
      BY <2>0, <3>1, <3>3, <3>4 DEF MutexInv
  <2>8. CASE Acquires(p)
    <3>1. /\ call'[p].agent = call[p].agent /\ call'[p].mutex = call[p].mutex
          /\ ~Held(p) /\ UNCHANGED locks
      BY <2>8 DEF Acquires, Moves
    <3>2. ASSUME NEW q \in Task \ {p}, Same(p, q), call[p].mutex # Nobody, call[q].mutex # Nobody
          PROVE  call[q].pc = "mutex"
      BY <3>1, <3>2 DEF Held, MutexInv
    <3>. QED
      BY <2>0, <3>1, <3>2 DEF MutexInv
  <2>. QED
    BY <1>3, <2>2, <2>3, <2>4, <2>5, <2>6, <2>7, <2>8 DEF Step
<1>. QED
  BY <1>1, <1>2, <1>3, StepsOfNext

\* Transactions hold their agents' advisory locks.
LEMMA AdvisoryKept ==
  ASSUME IInv, [Next]_vars
  PROVE  AdvisoryInv'
<1>. USE PostgresStoreAssumption, CallTyped DEF IInv, HashFor
<1>1. CASE UNCHANGED <<file, advisory, locks, call, clock>>
  BY <1>1 DEF AdvisoryInv
<1>2. ASSUME NEW q \in Task, call[q].pc \in InTxn
      PROVE  call[q].agent \in Agent /\ HashFor(q) \in Hash /\ advisory[HashFor(q)] = q
  BY <1>2 DEF StepInv, StepOf, AdvisoryInv
<1>3. ASSUME NEW e \in Engine, Dies(e)
      PROVE  AdvisoryInv'
  <2>1. \A q \in Task : call'[q].pc \in InTxn => EngineOf[q] # e /\ call'[q] = call[q]
    BY <1>3, DeathLeavesOthers DEF Idle, InTxn, Numbering
  <2>2. \A h \in Hash : advisory'[h] = IF \E q \in Task : advisory[h] = q /\ EngineOf[q] = e
                                      THEN Nobody ELSE advisory[h]
    BY <1>3 DEF Dies
  <2>3. ASSUME NEW q \in Task, call'[q].pc \in InTxn
        PROVE  advisory'[HashOf[call'[q].agent]] = q
    BY <1>2, <2>1, <2>2, <2>3
  <2>4. ASSUME NEW h \in Hash, advisory'[h] # Nobody
        PROVE  call'[advisory'[h]].pc \in InTxn
    <3>1. /\ advisory'[h] = advisory[h] /\ advisory[h] \in Task
          /\ EngineOf[advisory[h]] # e
      BY <2>2, <2>4 DEF Types
    <3>2. call'[advisory[h]] = call[advisory[h]]
      BY <1>3, <3>1, DeathLeavesOthers
    <3>. QED
      BY <2>4, <3>1, <3>2 DEF AdvisoryInv
  <2>. QED
    BY <2>3, <2>4 DEF AdvisoryInv
<1>4. ASSUME NEW p \in Task, Step(p)
      PROVE  AdvisoryInv'
  <2>0. \A q \in Task \ {p} : call'[q] = call[q]
    BY <1>4, StepLeavesOthers
  <2>1. ASSUME UNCHANGED advisory, call'[p].agent = call[p].agent \/ call'[p].pc \notin InTxn,
               call'[p].pc \in InTxn <=> call[p].pc \in InTxn
        PROVE  AdvisoryInv'
    <3>1. \A h \in Hash : advisory[h] # Nobody => advisory[h] \in Task
      BY DEF Types
    <3>. QED
      BY <2>0, <2>1, <3>1 DEF AdvisoryInv
  <2>2. CASE Starts(p) \/ Returns(p)
    <3>1. call[p].pc \notin InTxn
      BY <2>2 DEF Starts, Returns, StepInv, StepOf, InTxn, Numbering
    <3>2. call'[p].pc \notin InTxn /\ UNCHANGED advisory
      BY <2>2 DEF Starts, Returns, Idle, InTxn, Numbering
    <3>. QED
      BY <2>1, <3>1, <3>2
  <2>3. CASE Quiet(p) \/ Loads(p) \/ Looks(p) \/ Creates(p) \/ Acquires(p)
    BY <2>1, <2>3 DEF Quiet, Loads, Looks, Creates, Acquires, Moves, Borrowing, InTxn, Numbering
  <2>4. CASE Appends(p) \/ Counts(p) \/ Inserts(p) \/ Registers(p)
    BY <2>1, <2>4 DEF Appends, Counts, Inserts, Registers, Moves, InTxn, Numbering
  <2>5. CASE Enters(p)
    <3>1. /\ advisory[HashFor(p)] = Nobody /\ advisory' = [advisory EXCEPT ![HashFor(p)] = p]
          /\ call'[p].agent = call[p].agent /\ call'[p].pc \in InTxn /\ call[p].pc = "advisory"
      BY <2>5 DEF Enters, Moves, InTxn
    <3>2. HashFor(p) \in Hash
      BY <3>1 DEF StepInv, StepOf
    <3>3. \A h \in Hash : advisory'[h] = IF h = HashFor(p) THEN p ELSE advisory[h]
      BY <3>1, <3>2 DEF Types
    <3>4. ASSUME NEW q \in Task, call'[q].pc \in InTxn
          PROVE  advisory'[HashOf[call'[q].agent]] = q
      <4>1. CASE q = p
        BY <3>1, <3>2, <3>3, <4>1 DEF HashFor
      <4>2. CASE q # p
        BY <1>2, <2>0, <3>1, <3>2, <3>3, <3>4, <4>2
      <4>. QED
        BY <4>1, <4>2
    <3>5. ASSUME NEW h \in Hash, advisory'[h] # Nobody
          PROVE  call'[advisory'[h]].pc \in InTxn
      <4>1. CASE h = HashFor(p)
        BY <3>1, <3>3, <4>1
      <4>2. CASE h # HashFor(p)
        <5>1. advisory'[h] = advisory[h] /\ advisory[h] \in Task /\ call[advisory[h]].pc \in InTxn
          BY <3>3, <3>5, <4>2 DEF AdvisoryInv, Types
        <5>2. advisory[h] # p
          BY <3>1, <5>1 DEF InTxn, Numbering
        <5>. QED
          BY <2>0, <5>1, <5>2
      <4>. QED
        BY <4>1, <4>2
    <3>. QED
      BY <3>4, <3>5 DEF AdvisoryInv
  <2>6. CASE Ends(p)
    <3>1. /\ advisory' = [h \in Hash |-> IF advisory[h] = p THEN Nobody ELSE advisory[h]]
          /\ call'[p].pc \notin InTxn
      BY <2>6 DEF Ends, Moves, InTxn, Numbering
    <3>2. ASSUME NEW q \in Task, call'[q].pc \in InTxn
          PROVE  advisory'[HashOf[call'[q].agent]] = q
      BY <1>2, <2>0, <3>1, <3>2
    <3>3. ASSUME NEW h \in Hash, advisory'[h] # Nobody
          PROVE  call'[advisory'[h]].pc \in InTxn
      <4>1. advisory'[h] = advisory[h] /\ advisory[h] \in Task \ {p}
        BY <3>1, <3>3 DEF Types
      <4>. QED
        BY <2>0, <3>3, <4>1 DEF AdvisoryInv
    <3>. QED
      BY <3>2, <3>3 DEF AdvisoryInv
  <2>. QED
    BY <1>4, <2>2, <2>3, <2>4, <2>5, <2>6 DEF Step
<1>. QED
  BY <1>1, <1>3, <1>4, StepsOfNext

\* A transaction holds rows of its own.
LEMMA RowsKept ==
  ASSUME IInv, [Next]_vars
  PROVE  RowsInv'
<1>. USE PostgresStoreAssumption DEF IInv, Entries
<1>1. CASE UNCHANGED <<file, advisory, locks, call, clock>>
  BY <1>1 DEF RowsInv
<1>2. ASSUME NEW e \in Engine, Dies(e)
      PROVE  RowsInv'
  <2>1. Idle.rows = {} /\ Idle.pc # "commit"
    BY DEF Idle
  <2>. QED
    BY <1>2, <2>1, DeathLeavesOthers DEF RowsInv
<1>3. ASSUME NEW p \in Task, Step(p)
      PROVE  RowsInv'
  <2>0. \A q \in Task \ {p} : call'[q] = call[q]
    BY <1>3, StepLeavesOthers
  <2>1. ASSUME call'[p].rows = {}, call'[p].pc # "commit"
        PROVE  RowsInv'
    BY <2>0, <2>1 DEF RowsInv
  <2>2. ASSUME call'[p].rows = call[p].rows, call'[p].pc = "commit" => call[p].pc = "commit",
               call'[p].agent = call[p].agent, call'[p].now = call[p].now
        PROVE  RowsInv'
    BY <2>0, <2>2 DEF RowsInv
  <2>3. CASE Starts(p) \/ Returns(p) \/ Ends(p)
    BY <2>1, <2>3 DEF Starts, Returns, Ends, Moves, Idle
  <2>4. CASE Quiet(p) \/ Loads(p) \/ Looks(p) \/ Creates(p) \/ Acquires(p)
    BY <2>2, <2>4 DEF Quiet, Loads, Looks, Creates, Acquires, Moves
  <2>5. CASE Enters(p) \/ Counts(p) \/ Registers(p)
    BY <2>2, <2>5 DEF Enters, Counts, Registers, Moves
  <2>6. CASE Appends(p)
    <3>1. RowOf(p, "claims", 0).agent = call[p].agent /\ RowOf(p, "claims", 0).at = call[p].now
          /\ RowOf(p, "claims", 0).by = EngineOf[p] /\ RowOf(p, "claims", 0).table = "claims"
      BY DEF RowOf
    <3>2. /\ call'[p].rows \subseteq {RowOf(p, "claims", 0)} /\ call'[p].pc = "number"
          /\ call'[p].agent = call[p].agent /\ call'[p].now = call[p].now
      BY <2>6 DEF Appends, Moves
    <3>. QED
      BY <2>0, <3>1, <3>2 DEF RowsInv
  <2>7. CASE Inserts(p)
    <3> DEFINE row == RowOf(p, "ledger", call[p].seq)
    <3>1. row.agent = call[p].agent /\ row.at = call[p].now
          /\ row.by = EngineOf[p] /\ row.table = "ledger"
      BY DEF RowOf
    <3>2. /\ call'[p].rows = call[p].rows \cup {row}
          /\ call'[p].agent = call[p].agent /\ call'[p].now = call[p].now
      BY <2>7 DEF Inserts, Moves
    <3> HIDE DEF row
    <3>. QED
      BY <2>0, <3>1, <3>2 DEF RowsInv
  <2>. QED
    BY <1>3, <2>3, <2>4, <2>5, <2>6, <2>7 DEF Step
<1>. QED
  BY <1>1, <1>2, <1>3, StepsOfNext

\* What steps do to the rows: nothing, or add those of a transaction, or one of a queue.
LEMMA RowsOfStep ==
  ASSUME NEW p \in Task, Step(p)
  PROVE  \/ file' = file
         \/ /\ Ends(p) /\ call[p].pc = "commit" /\ file' = file \cup call[p].rows
            /\ call'[p].pc \in {"return", "pending"}
         \/ /\ Registers(p) /\ file' = file \cup {RowOf(p, "pending", 0)}
            /\ call'[p].pc = "return"
<1>1. CASE Starts(p) \/ Returns(p) \/ Looks(p) \/ Acquires(p) \/ Loads(p) \/ Enters(p)
  BY <1>1 DEF Starts, Returns, Looks, Acquires, Loads, Enters
<1>2. CASE Quiet(p) \/ Creates(p) \/ Appends(p) \/ Counts(p) \/ Inserts(p)
  BY <1>2 DEF Quiet, Creates, Appends, Counts, Inserts
<1>3. CASE Ends(p)
  BY <1>3 DEF Ends, Moves
<1>4. CASE Registers(p)
  BY <1>4 DEF Registers, Moves
<1>. QED
  BY <1>1, <1>2, <1>3, <1>4 DEF Step

\* Claims come with entries, and no two calls stand for the same instant.
LEMMA FileKept ==
  ASSUME IInv, [Next]_vars
  PROVE  FileInv'
<1>. USE PostgresStoreAssumption, CallTyped DEF IInv
<1>1. CASE UNCHANGED <<file, advisory, locks, call, clock>>
  BY <1>1 DEF FileInv, Accompanied
<1>2. ASSUME NEW e \in Engine, Dies(e)
      PROVE  FileInv'
  <2>1. Idle.op = "none" /\ Idle.pc = "idle"
    BY DEF Idle
  <2>2. file' = file /\ clock' = clock
    BY <1>2 DEF Dies
  <2>. QED
    BY <1>2, <2>1, <2>2, DeathLeavesOthers DEF FileInv, Accompanied
<1>3. ASSUME NEW p \in Task, Step(p)
      PROVE  FileInv'
  <2>0. \A q \in Task \ {p} : call'[q] = call[q]
    BY <1>3, StepLeavesOthers
  <2>1. ASSUME UNCHANGED <<file, clock>>, call'[p].now = call[p].now, call'[p].op = call[p].op,
               call'[p].pc = "pending" => call[p].pc = "pending",
               call[p].pc \in {"return", "pending"} => call'[p].pc \in {"return", "pending"}
        PROVE  FileInv'
    BY <2>0, <2>1 DEF FileInv, Accompanied
  <2>2. CASE Starts(p)
    <3>1. /\ clock' = clock + 1 /\ call'[p].now = clock + 1 /\ file' = file
          /\ call'[p].pc \notin {"pending", "return"}
      BY <2>2 DEF Starts
    <3>2. \A q \in Task : call[q].op # "none" => call[q].now \in 1..clock
      BY DEF StepInv, StepOf
    <3>3. clock \in Nat /\ clock <= clock + 1 /\ \A n \in 1..clock : n # clock + 1
      BY DEF Types
    <3>4. \A r \in file : r.at \in Nat /\ r.at <= clock
      BY DEF FileInv, Types, Row, Instant
    <3>5. \A r \in file : r.at <= clock + 1 /\ r.at # clock + 1
      BY <3>3, <3>4
    <3>. QED
      BY <2>0, <3>1, <3>2, <3>3, <3>5 DEF FileInv, Accompanied
  <2>3. CASE Returns(p)
    <3>1. call'[p].op = "none" /\ call'[p].pc = "idle" /\ UNCHANGED <<file, clock>>
      BY <2>3 DEF Returns, Idle
    <3>. QED
      BY <2>0, <3>1 DEF FileInv, Accompanied
  <2>4. CASE Quiet(p)
    BY <2>1, <2>4 DEF Quiet, Moves
  <2>5. CASE Loads(p) \/ Looks(p) \/ Creates(p) \/ Acquires(p)
    BY <2>1, <2>5 DEF Loads, Looks, Creates, Acquires, Moves
  <2>6. CASE Enters(p) \/ Appends(p) \/ Counts(p) \/ Inserts(p)
    BY <2>1, <2>6 DEF Enters, Appends, Counts, Inserts, Moves
  <2>7. CASE Ends(p)
    <3>1. /\ call'[p].now = call[p].now /\ call'[p].op = call[p].op /\ clock' = clock
          /\ call'[p].pc \in {"return", "pending", "rollback"}
          /\ call'[p].pc = "pending" => /\ file' = file \cup call[p].rows
                                        /\ call[p].rows # Entries(p)
          /\ call'[p].pc = "rollback" => file' = file
          /\ call[p].pc \in {"append", "number", "insert", "commit"}
          /\ file' = file \/ (file' = file \cup call[p].rows /\ call[p].pc = "commit")
      BY <2>7 DEF Ends, Moves
    <3>2. call[p].op = "write" /\ call[p].now <= clock
      BY <3>1 DEF StepInv, StepOf, InTxn, Numbering, Types
    <3>3. \A r \in call[p].rows : /\ r.at = call[p].now /\ r.agent = call[p].agent
                                  /\ r.table \in {"claims", "ledger"}
      BY DEF RowsInv
    <3>4. \A r \in file' : r.at <= clock'
      BY <3>1, <3>2, <3>3 DEF FileInv
    <3>5. ASSUME NEW r \in file', r.table = "claims"
          PROVE  Accompanied(r)'
      <4>1. CASE r \in file
        BY <3>1, <3>5, <4>1 DEF FileInv, Accompanied
      <4>2. CASE r \notin file
        <5>1. r \in call[p].rows /\ call[p].pc = "commit" /\ file' = file \cup call[p].rows
          BY <3>1, <4>2
        <5>2. PICK s \in call[p].rows : s.table = "ledger"
          BY <5>1 DEF RowsInv, Entries
        <5>. QED
          BY <3>3, <5>1, <5>2 DEF Accompanied
      <4>. QED
        BY <4>1, <4>2
    <3>6. ASSUME NEW q \in Task, call'[q].op = "write", call'[q].pc \notin {"return", "pending"},
                 NEW r \in file'
          PROVE  r.at # call'[q].now
      <4>1. CASE q = p
        BY <3>1, <3>2, <3>6, <4>1 DEF FileInv
      <4>2. CASE q # p
        <5>1. call'[q] = call[q] /\ call[q].now # call[p].now
          BY <2>0, <3>2, <3>6, <4>2 DEF FileInv
        <5>. QED
          BY <3>1, <3>3, <3>6, <5>1 DEF FileInv
      <4>. QED
        BY <4>1, <4>2
    <3>7. ASSUME NEW q \in Task, call'[q].pc = "pending"
          PROVE  \E s \in file' : s.table = "claims" /\ s.at = call'[q].now
      <4>1. CASE q = p
        BY <3>1, <3>3, <3>7, <4>1 DEF Entries
      <4>2. CASE q # p
        BY <2>0, <3>1, <3>7, <4>2 DEF FileInv
      <4>. QED
        BY <4>1, <4>2
    <3>8. \A q, t \in Task : q # t /\ call'[q].op # "none" /\ call'[t].op # "none"
                               => call'[q].now # call'[t].now
      BY <2>0, <3>1 DEF FileInv
    <3>. QED
      BY <3>4, <3>5, <3>6, <3>7, <3>8 DEF FileInv
  <2>8. CASE Registers(p)
    <3> DEFINE row == RowOf(p, "pending", 0)
    <3>1. /\ call'[p].now = call[p].now /\ call'[p].op = call[p].op /\ clock' = clock
          /\ call'[p].pc = "return" /\ file' = file \cup {row} /\ call[p].pc = "pending"
      BY <2>8 DEF Registers, Moves
    <3>2. row.at = call[p].now /\ row.table = "pending"
      BY DEF RowOf
    <3>3. call[p].op = "write" /\ call[p].now <= clock
      BY <3>1 DEF StepInv, StepOf, Types
    <3> HIDE DEF row
    <3>4. \A q \in Task \ {p} : call[q].op # "none" => call[q].now # call[p].now
      BY <3>3 DEF FileInv
    <3>. QED
      BY <2>0, <3>1, <3>2, <3>3, <3>4 DEF FileInv, Accompanied
  <2>. QED
    BY <1>3, <2>2, <2>3, <2>4, <2>5, <2>6, <2>7, <2>8 DEF Step
<1>. QED
  BY <1>1, <1>2, <1>3, StepsOfNext

\* What a writer has loaded is all its process has committed.
LEMMA LoadKept ==
  ASSUME IInv, [Next]_vars
  PROVE  LoadInv'
<1>. USE PostgresStoreAssumption, CallTyped DEF IInv, Own, Found
<1>1. CASE UNCHANGED <<file, advisory, locks, call, clock>>
  BY <1>1 DEF LoadInv
<1>2. ASSUME NEW e \in Engine, Dies(e)
      PROVE  LoadInv'
  <2>1. Idle.op = "none" /\ file' = file
    BY <1>2 DEF Idle, Dies
  <2>. QED
    BY <1>2, <2>1, DeathLeavesOthers DEF LoadInv
<1>3. ASSUME NEW p \in Task, Step(p)
      PROVE  LoadInv'
  <2> DEFINE Claims == {"ledger", "begin", "advisory"} \cup InTxn
             Both   == {"begin", "advisory"} \cup InTxn
  <2>0. \A q \in Task \ {p} : call'[q] = call[q]
    BY <1>3, StepLeavesOthers
  <2>1. ASSUME file' = file,
               \/ /\ call'[p].op = call[p].op /\ call'[p].agent = call[p].agent
                  /\ call'[p].seen = call[p].seen
                  /\ call'[p].pc \in Claims => call[p].pc \in Claims
                  /\ call'[p].pc \in Both => call[p].pc \in Both
               \/ call'[p].op # "write" \/ call'[p].pc \notin Claims
        PROVE  LoadInv'
    BY <2>0, <2>1 DEF LoadInv
  <2>2. CASE Starts(p) \/ Returns(p)
    <3>1. file' = file /\ (call'[p].op # "write" \/ call'[p].pc \notin Claims)
      BY <2>2 DEF Starts, Returns, Idle, InTxn, Numbering
    <3> HIDE DEF Claims, Both
    <3>. QED
      BY <2>1, <3>1
  <2>3. CASE Quiet(p) \/ Looks(p) \/ Creates(p) \/ Acquires(p)
    <3>1. /\ file' = file
          /\ call'[p].op = call[p].op /\ call'[p].agent = call[p].agent
          /\ call'[p].seen = call[p].seen
          /\ call'[p].pc \in Claims => call[p].pc \in Claims
          /\ call'[p].pc \in Both => call[p].pc \in Both
      BY <2>3 DEF Quiet, Looks, Creates, Acquires, Moves, InTxn, Numbering
    <3> HIDE DEF Claims, Both
    <3>. QED
      BY <2>1, <3>1
  <2>4. CASE Enters(p) \/ Appends(p) \/ Counts(p) \/ Inserts(p)
    <3>1. /\ file' = file
          /\ call'[p].op = call[p].op /\ call'[p].agent = call[p].agent
          /\ call'[p].seen = call[p].seen
          /\ call'[p].pc \in Claims => call[p].pc \in Claims
          /\ call'[p].pc \in Both => call[p].pc \in Both
      BY <2>4 DEF Enters, Appends, Counts, Inserts, Moves, InTxn, Numbering
    <3> HIDE DEF Claims, Both
    <3>. QED
      BY <2>1, <3>1
  <2>5. CASE Loads(p)
    <3>1. /\ file' = file /\ call'[p].op = call[p].op /\ call'[p].agent = call[p].agent
          /\ \/ /\ call[p].pc = "claims" /\ call'[p].pc = "ledger"
                /\ call'[p].seen = Found(p, "claims")
             \/ /\ call[p].pc = "ledger"
                /\ call'[p].seen = call[p].seen \cup Found(p, "ledger")
      BY <2>5 DEF Loads, Moves
    <3>. QED
      BY <2>0, <3>1 DEF LoadInv, InTxn, Numbering
  <2>6. CASE Ends(p)
    <3>1. CASE file' = file
      <4>1. call'[p].pc \notin Claims
        BY <2>6 DEF Ends, Moves, InTxn, Numbering
      <4> HIDE DEF Claims, Both
      <4>. QED
        BY <2>1, <3>1, <4>1
    <3>2. CASE file' # file
      <4>1. /\ call[p].pc = "commit" /\ file' = file \cup call[p].rows
            /\ call'[p].pc \in {"return", "pending"}
        BY <1>3, <2>6, <3>2 DEF Ends, Moves
      <4>2. call[p].mutex # Nobody
        BY <4>1 DEF StepInv, StepOf, InTxn, Numbering
      <4>3. \A r \in call[p].rows : r.agent = call[p].agent /\ r.by = EngineOf[p]
        BY DEF RowsInv
      <4>4. ASSUME NEW q \in Task \ {p}, call[q].op = "write", call[q].pc \in Claims,
                   NEW r \in call[p].rows
            PROVE  r.agent # call[q].agent \/ r.by # EngineOf[q]
        <5>1. call[q].mutex # Nobody /\ call[q].pc # "mutex"
          BY <4>4 DEF StepInv, StepOf, InTxn, Numbering
        <5>. QED
          BY <4>1, <4>2, <4>3, <5>1 DEF MutexInv, Same
      <4>5. call'[p].pc \notin Claims /\ Both \subseteq Claims
        BY <4>1 DEF InTxn, Numbering
      <4>6. ASSUME NEW q \in Task \ {p}, call[q].op = "write", call[q].pc \in Claims
            PROVE  Own(q, "claims")' = Own(q, "claims") /\ Own(q, "ledger")' = Own(q, "ledger")
        BY <2>0, <4>1, <4>4, <4>6
      <4> HIDE DEF Own
      <4>7. ASSUME NEW q \in Task, call'[q].op = "write"
            PROVE  /\ call'[q].pc \in Claims => Own(q, "claims")' \subseteq call'[q].seen
                   /\ call'[q].pc \in Both => Own(q, "ledger")' \subseteq call'[q].seen
        <5> HIDE DEF Claims, Both
        <5>1. CASE q = p
          BY <4>5, <5>1
        <5>2. CASE q # p
          BY <2>0, <4>5, <4>6, <4>7, <5>2 DEF LoadInv, Claims, Both
        <5>. QED
          BY <5>1, <5>2
      <4>. QED
        BY <4>7 DEF LoadInv
    <3>. QED
      BY <3>1, <3>2
  <2>7. CASE Registers(p)
    <3>1. file' = file \cup {RowOf(p, "pending", 0)} /\ call'[p].pc = "return"
      BY <2>7 DEF Registers, Moves
    <3>2. RowOf(p, "pending", 0).table = "pending"
      BY DEF RowOf
    <3>3. \A q \in Task \ {p} : /\ Own(q, "claims")' = Own(q, "claims")
                                /\ Own(q, "ledger")' = Own(q, "ledger")
      BY <2>0, <3>1, <3>2
    <3> HIDE DEF Own
    <3>. QED
      BY <2>0, <3>1, <3>3 DEF LoadInv, InTxn, Numbering
  <2>. QED
    BY <1>3, <2>2, <2>3, <2>4, <2>5, <2>6, <2>7 DEF Step
<1>. QED
  BY <1>1, <1>2, <1>3, StepsOfNext

\* A query that has the claims finds their entries.
LEMMA QueryKept ==
  ASSUME IInv, [Next]_vars
  PROVE  QueryInv'
<1>. USE PostgresStoreAssumption, CallTyped DEF IInv, Found
<1>1. CASE UNCHANGED <<file, advisory, locks, call, clock>>
  BY <1>1 DEF QueryInv
<1>2. ASSUME NEW e \in Engine, Dies(e)
      PROVE  QueryInv'
  <2>1. Idle.op = "none" /\ file' = file
    BY <1>2 DEF Idle, Dies
  <2>. QED
    BY <1>2, <2>1, DeathLeavesOthers DEF QueryInv
<1>3. ASSUME NEW p \in Task, Step(p)
      PROVE  QueryInv'
  <2>0. \A q \in Task \ {p} : call'[q] = call[q]
    BY <1>3, StepLeavesOthers
  <2>1. file \subseteq file'
    BY <1>3, RowsOfStep
  <2>2. ASSUME \/ /\ call'[p].op = call[p].op /\ call'[p].agent = call[p].agent
                  /\ call'[p].seen = call[p].seen /\ call'[p].pc = call[p].pc
               \/ call'[p].op # "query"
               \/ call'[p].pc \notin {"ledger", "answer"}
        PROVE  QueryInv'
    BY <2>0, <2>1, <2>2 DEF QueryInv
  <2>3. CASE Starts(p) \/ Returns(p)
    BY <2>2, <2>3 DEF Starts, Returns, Idle
  <2>4. CASE Quiet(p) \/ Looks(p) \/ Creates(p) \/ Acquires(p)
    BY <2>2, <2>4 DEF Quiet, Looks, Creates, Acquires, Moves
  <2>5. CASE Enters(p) \/ Appends(p) \/ Counts(p) \/ Inserts(p)
    BY <2>2, <2>5 DEF Enters, Appends, Counts, Inserts, Moves
  <2>6. CASE Ends(p) \/ Registers(p)
    BY <2>2, <2>6 DEF Ends, Registers, Moves
  <2>7. CASE Loads(p)
    <3>1. /\ file' = file /\ call'[p].op = call[p].op /\ call'[p].agent = call[p].agent
          /\ \/ /\ call'[p].pc = "ledger" /\ call'[p].seen = Found(p, "claims")
             \/ /\ call[p].pc = "ledger" /\ call'[p].pc # "ledger"
                /\ call'[p].seen = call[p].seen \cup Found(p, "ledger")
      BY <2>7 DEF Loads, Moves
    <3>2. ASSUME call[p].op = "query", call[p].pc = "ledger",
                 NEW r \in call[p].seen \cup Found(p, "ledger"), r.table = "claims"
          PROVE  \E s \in Found(p, "ledger") : s.table = "ledger" /\ s.at = r.at
      <4>1. r \in file /\ r.agent = call[p].agent
        BY <3>2 DEF QueryInv
      <4>. QED
        BY <3>2, <4>1 DEF FileInv, Accompanied
    <3>. QED
      BY <2>0, <3>1, <3>2 DEF QueryInv
  <2>. QED
    BY <1>3, <2>3, <2>4, <2>5, <2>6, <2>7 DEF Step
<1>. QED
  BY <1>1, <1>2, <1>3, StepsOfNext

\* One more entry, with the next number.
LEMMA CountedGrows ==
  ASSUME NEW S, Counted(S), NEW row, row.seq = Cardinality(S) + 1
  PROVE  Counted(S \cup {row})
<1> DEFINE n == Cardinality(S)
<1>1. n \in Nat /\ IsFiniteSet(S) /\ {r.seq : r \in S} = 1..n
  BY FS_CardinalityType DEF Counted
<1>2. \A r \in S : r.seq \in 1..n
  BY <1>1
<1>3. row \notin S
  BY <1>1, <1>2
<1>4. IsFiniteSet(S \cup {row}) /\ Cardinality(S \cup {row}) = n + 1
  BY <1>1, <1>3, FS_AddElement
<1>5. {r.seq : r \in S \cup {row}} = {r.seq : r \in S} \cup {n + 1}
  OBVIOUS
<1>6. (1..n) \cup {n + 1} = 1..(n + 1)
  BY <1>1
<1>7. \A r, s \in S \cup {row} : r.seq = s.seq => r = s
  BY <1>1, <1>2 DEF Counted
<1>. QED
  BY <1>1, <1>4, <1>5, <1>6, <1>7 DEF Counted

\* Two transactions are never of the same agent.
LEMMA OneTransaction ==
  ASSUME IInv, NEW p \in Task, NEW q \in Task,
         call[p].pc \in InTxn, call[q].pc \in InTxn, call[p].agent = call[q].agent
  PROVE  p = q
BY DEF IInv, AdvisoryInv, HashFor

\* The numbers of an agent have no gaps, and nobody else takes the next one.
LEMMA NumbersKept ==
  ASSUME IInv, [Next]_vars
  PROVE  NumberInv'
<1>. USE PostgresStoreAssumption, CallTyped DEF IInv
<1>1. CASE UNCHANGED <<file, advisory, locks, call, clock>>
  BY <1>1 DEF NumberInv, Numbers, Committed, Entries
<1>2. ASSUME file' = file
      PROVE  \A a : Committed(a)' = Committed(a)
  BY <1>2 DEF Committed
<1>3. ASSUME NEW q \in Task, call'[q] = call[q], Committed(call[q].agent)' = Committed(call[q].agent)
      PROVE  Numbers(q)' = Numbers(q)
  BY <1>3 DEF Numbers, Entries, Committed
<1>4. ASSUME NEW e \in Engine, Dies(e)
      PROVE  NumberInv'
  <2>1. Idle.pc \notin InTxn /\ Idle.pc # "insert" /\ file' = file
    BY <1>4 DEF Idle, InTxn, Numbering, Dies
  <2>2. \A q \in Task : call'[q].pc \in InTxn \/ call'[q].pc = "insert"
          => call'[q] = call[q] /\ Numbers(q)' = Numbers(q)
    BY <1>2, <1>3, <1>4, <2>1, DeathLeavesOthers
  <2>. QED
    BY <1>2, <2>1, <2>2 DEF NumberInv
<1>5. ASSUME NEW p \in Task, Step(p)
      PROVE  NumberInv'
  <2>0. \A q \in Task \ {p} : call'[q] = call[q]
    BY <1>5, StepLeavesOthers
  \* What is left to show of a step that commits nothing.
  <2>1. ASSUME file' = file,
               call'[p].pc \in InTxn => Counted(Numbers(p)'),
               call'[p].pc = "insert" => call'[p].seq = Cardinality(Numbers(p)') + 1
        PROVE  NumberInv'
    <3>1. \A q \in Task \ {p} : Numbers(q)' = Numbers(q)
      BY <1>2, <1>3, <2>0, <2>1
    <3>2. \A a \in Agent : Counted(Committed(a)')
      BY <1>2, <2>1 DEF NumberInv
    <3>3. \A q \in Task : call'[q].pc \in InTxn => Counted(Numbers(q)')
      BY <2>0, <2>1, <3>1 DEF NumberInv
    <3>4. \A q \in Task : call'[q].pc = "insert" => call'[q].seq = Cardinality(Numbers(q)') + 1
      BY <2>0, <2>1, <3>1 DEF NumberInv
    <3>. QED
      BY <3>2, <3>3, <3>4 DEF NumberInv, Counted
  <2>2. CASE Starts(p) \/ Returns(p)
    BY <2>1, <2>2 DEF Starts, Returns, Idle, InTxn, Numbering
  <2>3. CASE Quiet(p)
    <3>1. /\ file' = file /\ call'[p].rows = call[p].rows /\ call'[p].agent = call[p].agent
          /\ call'[p].seq = call[p].seq
          /\ call'[p].pc \in InTxn \/ call'[p].pc = "insert" => call'[p].pc = call[p].pc
      BY <2>3 DEF Quiet, Moves, InTxn, Numbering
    <3>2. Numbers(p)' = Numbers(p)
      BY <3>1 DEF Numbers, Committed, Entries
    <3>. QED
      BY <2>1, <3>1, <3>2 DEF NumberInv
  <2>4. CASE Loads(p) \/ Looks(p) \/ Creates(p) \/ Acquires(p)
    BY <2>1, <2>4 DEF Loads, Looks, Creates, Acquires, Moves, InTxn, Numbering
  <2>5. CASE Enters(p) \/ Appends(p)
    <3>1. /\ file' = file /\ call'[p].agent = call[p].agent
          /\ call'[p].pc \in {"append", "number"} /\ call[p].pc \in {"advisory", "append"}
          /\ call'[p].rows \subseteq call[p].rows \cup {RowOf(p, "claims", 0)}
          /\ call[p].pc = "append" => call'[p].rows \subseteq {RowOf(p, "claims", 0)}
      BY <2>5 DEF Enters, Appends, Moves
    <3>2. call[p].pc = "advisory" => call[p].rows = {}
      BY DEF StepInv, StepOf, InTxn, Numbering
    <3>3. RowOf(p, "claims", 0).table # "ledger"
      BY DEF RowOf
    <3>4. Entries(p)' = {}
      BY <3>1, <3>2, <3>3 DEF Entries
    <3>5. Numbers(p)' = Committed(call[p].agent)
      BY <3>1, <3>4 DEF Numbers, Committed
    <3>6. Counted(Committed(call[p].agent))
      BY <3>1 DEF StepInv, StepOf, NumberInv
    <3>. QED
      BY <2>1, <3>1, <3>5, <3>6
  <2>6. CASE Counts(p)
    <3>1. /\ file' = file /\ call'[p].agent = call[p].agent /\ call'[p].rows = call[p].rows
          /\ call'[p].seq = Following(Seqs(p)) /\ call[p].pc = "number"
      BY <2>6 DEF Counts, Moves
    <3>2. Numbers(p)' = Numbers(p) /\ Counted(Numbers(p))
      BY <3>1 DEF Numbers, Committed, Entries, NumberInv, InTxn, Numbering
    <3>3. Seqs(p) = 1..Cardinality(Numbers(p)) /\ Cardinality(Numbers(p)) \in Nat
      BY <3>2, SeqsAreNumbers, FS_CardinalityType DEF Counted
    <3>4. Following(Seqs(p)) = Cardinality(Numbers(p)) + 1
      BY <3>3, FollowingIsNext
    <3>. QED
      BY <2>1, <3>1, <3>2, <3>4
  <2>7. CASE Inserts(p)
    <3> DEFINE row == RowOf(p, "ledger", call[p].seq)
    <3>1. /\ file' = file /\ call'[p].agent = call[p].agent /\ call'[p].rows = call[p].rows \cup {row}
          /\ call'[p].pc \in {"number", "commit"} /\ call[p].pc = "insert"
      BY <2>7 DEF Inserts, Moves
    <3>2. row.table = "ledger" /\ row.seq = call[p].seq
      BY DEF RowOf
    <3>3. Counted(Numbers(p)) /\ row.seq = Cardinality(Numbers(p)) + 1
      BY <3>1, <3>2 DEF NumberInv, InTxn, Numbering
    <3> HIDE DEF row
    <3>4. Numbers(p)' = Numbers(p) \cup {row}
      BY <3>1, <3>2 DEF Numbers, Committed, Entries
    <3>. QED
      BY <2>1, <3>1, <3>3, <3>4, CountedGrows
  <2>8. CASE Ends(p) \/ Registers(p)
    <3>1. call'[p].pc \notin InTxn /\ call'[p].pc # "insert"
      BY <2>8 DEF Ends, Registers, Moves, InTxn, Numbering
    <3>2. CASE file' = file
      BY <2>1, <3>1, <3>2
    <3>3. CASE call[p].pc = "commit" /\ file' = file \cup call[p].rows
      <4>1. \A r \in call[p].rows : r.agent = call[p].agent
        BY DEF RowsInv
      <4>2. call[p].pc \in InTxn
        BY <3>3 DEF InTxn, Numbering
      <4>3. \A a : a # call[p].agent => Committed(a)' = Committed(a)
        BY <3>3, <4>1 DEF Committed
      <4>4. \A a : a = call[p].agent => Committed(a)' = Numbers(p)
        BY <3>3, <4>1 DEF Committed, Numbers, Entries
      <4>5. ASSUME NEW a \in Agent
            PROVE  Counted(Committed(a)')
        BY <4>2, <4>3, <4>4 DEF NumberInv
      <4>6. ASSUME NEW q \in Task, call'[q].pc \in InTxn
            PROVE  call'[q] = call[q] /\ Numbers(q)' = Numbers(q)
        <5>1. q # p /\ call'[q] = call[q]
          BY <2>0, <3>1, <4>6
        <5>2. call[q].agent # call[p].agent
          BY <4>2, <4>6, <5>1, OneTransaction
        <5>. QED
          BY <1>3, <4>3, <5>1, <5>2
      <4>7. "insert" \in InTxn
        BY DEF InTxn, Numbering
      <4>. QED
        BY <4>5, <4>6, <4>7 DEF NumberInv, Counted
    <3>4. CASE file' = file \cup {RowOf(p, "pending", 0)}
      <4>1. \A a : Committed(a)' = Committed(a)
        BY <3>4 DEF Committed, RowOf
      <4>2. \A q \in Task \ {p} : Numbers(q)' = Numbers(q)
        BY <1>3, <2>0, <4>1
      <4>. QED
        BY <2>0, <3>1, <4>1, <4>2 DEF NumberInv
    <3>. QED
      BY <1>5, <3>2, <3>3, <3>4, RowsOfStep
  <2>. QED
    BY <1>5, <2>2, <2>3, <2>4, <2>5, <2>6, <2>7, <2>8 DEF Step
<1>. QED
  BY <1>1, <1>4, <1>5, StepsOfNext

-----------------------------------------------------------------------------
(* What follows.                                                           *)

\* The inductive invariant holds of every reachable state, however many processes, tasks,
\* connections and agents there are, and however often statements fail and processes die.
THEOREM StoreInvariant == Spec => []IInv
<1>1. Init => IInv
  BY InitEstablishes
<1>2. IInv /\ [Next]_vars => IInv'
  <2>. SUFFICES ASSUME IInv, [Next]_vars
                PROVE  IInv'
    OBVIOUS
  <2>. QED
    BY TypesPreserved, StepKept, MutexKept, AdvisoryKept, RowsKept, FileKept, LoadKept,
       QueryKept, NumbersKept DEF IInv
<1>. QED
  BY <1>1, <1>2, PTL DEF Spec

\* A writer decides on every row its own process has committed for the agent: no other of its
\* calls is between the loads and the commit, since they share the mutex that AgentWriteLockMap
\* gave them, although it was found or inserted before it was taken.
THEOREM MutexedDecisions == Spec => []DecidesOnCurrent
<1>1. IInv => DecidesOnCurrent
  <2>. SUFFICES ASSUME IInv, NEW p \in Task, call[p].pc \in InTxn, NEW r \in file,
                       r.agent = call[p].agent, r.table # "pending", r.by = EngineOf[p]
                PROVE  r \in call[p].seen
    BY DEF DecidesOnCurrent
  <2>1. call[p].op = "write" /\ r.table \in {"claims", "ledger"}
    BY DEF IInv, StepInv, StepOf, Types, Row
  <2>2. r \in Own(p, "claims") \/ r \in Own(p, "ledger")
    BY <2>1 DEF Own, Found
  <2>. QED
    BY <2>1, <2>2 DEF IInv, LoadInv
<1>. QED
  BY <1>1, StoreInvariant, PTL

\* No answer of a query has a claim without its ledger entry, whoever commits between the two
\* statements it reads with, and whichever connections these run on.
THEOREM WholeReads == Spec => []AnswersWhole
<1>1. IInv => AnswersWhole
  BY DEF IInv, AnswersWhole, QueryInv, StepInv, StepOf
<1>. QED
  BY <1>1, StoreInvariant, PTL

\* The entries of an agent, committed or not, are numbered without a gap and no number is used
\* twice, also when names of agents collide in hashtext, transactions are rolled back and
\* processes die in them.
THEOREM GaplessNumbers == Spec => []Numbered
<1>1. IInv => Numbered
  <2>. SUFFICES ASSUME IInv, NEW a \in Agent
                PROVE  {r.seq : r \in Ledger(a)} = 1..Cardinality(Ledger(a))
    BY DEF Numbered
  <2>1. \A p \in Task : call[p].rows # {} => call[p].pc \in InTxn
    BY DEF IInv, StepInv, StepOf
  <2>2. \A p \in Task : \A r \in call[p].rows : r.agent = call[p].agent
    BY DEF IInv, RowsInv
  <2>3. CASE \E p \in Task : call[p].pc \in InTxn /\ call[p].agent = a
    <3>1. PICK p \in Task : call[p].pc \in InTxn /\ call[p].agent = a
      BY <2>3
    <3>2. \A q \in Task : \A r \in call[q].rows : r.agent = a => q = p
      BY <2>1, <2>2, <3>1, OneTransaction
    <3>3. Ledger(a) = Numbers(p)
      BY <2>2, <3>1, <3>2 DEF Ledger, Numbers, Committed, Entries
    <3>. QED
      BY <3>1, <3>3 DEF IInv, NumberInv, Counted
  <2>4. CASE ~\E p \in Task : call[p].pc \in InTxn /\ call[p].agent = a
    <3>1. Ledger(a) = Committed(a)
      BY <2>1, <2>2, <2>4 DEF Ledger, Committed
    <3>. QED
      BY <3>1 DEF IInv, NumberInv, Counted
  <2>. QED
    BY <2>3, <2>4
<1>. QED
  BY <1>1, StoreInvariant, PTL

\* The calls of all processes never all wait: a mutex is held by a call that goes on or waits for
\* an advisory lock, and an advisory lock by a call that is in its transaction and waits for
\* nothing.
THEOREM NeverAllWaiting == Spec => []SomeoneGoesOn
<1>1. IInv => SomeoneGoesOn
  <2>. SUFFICES ASSUME IInv, NEW p \in Task, Waits(p)
                PROVE  \E q \in Task : call[q].op # "none" /\ ~Waits(q)
    BY DEF SomeoneGoesOn
  <2>. USE DEF IInv, StepInv, StepOf
  <2>1. ASSUME NEW q \in Task, call[q].pc = "advisory", advisory[HashFor(q)] # Nobody
        PROVE  \E t \in Task : call[t].op # "none" /\ ~Waits(t)
    <3>1. HashFor(q) \in Hash
      BY <2>1, PostgresStoreAssumption DEF HashFor
    <3>2. advisory[HashFor(q)] \in Task /\ call[advisory[HashFor(q)]].pc \in InTxn
      BY <2>1, <3>1 DEF Types, AdvisoryInv
    <3>. QED
      BY <3>2 DEF Waits, InTxn, Numbering
  <2>2. CASE call[p].pc = "mutex" /\ Held(p)
    <3>1. PICK q \in Task : call[q].pc # "mutex" /\ call[q].mutex = call[p].mutex
      BY <2>2 DEF Held
    <3>2. call[q].op # "none"
      BY <2>2, <3>1
    <3>3. Waits(q) => call[q].pc = "advisory" /\ advisory[HashFor(q)] # Nobody
      BY <3>1 DEF Waits
    <3>. QED
      BY <2>1, <3>2, <3>3
  <2>. QED
    BY <2>1, <2>2 DEF Waits
<1>. QED
  BY <1>1, StoreInvariant, PTL

\* The adapter keeps the contract of PersistencePort: what one call committed appears at once,
\* with a ledger entry and apart from what other calls committed, and the row of a pending
\* adjudication only after the claim of its call, whatever fails in between.
THEOREM ImplementsPort == Spec => KeepsPort
<1>1. Init => Port!Init
  BY DEF Init, Port!Init
<1>2. IInv /\ [Next]_vars => [Port!Next]_file
  <2>. SUFFICES ASSUME IInv, [Next]_vars, file' # file
                PROVE  Port!Next
    OBVIOUS
  <2>1. PICK p \in Task : Step(p)
    BY StepsOfNext DEF Dies
  <2>2. CASE call[p].pc = "commit" /\ file' = file \cup call[p].rows
    <3>1. \A r \in call[p].rows : r.at = call[p].now /\ r.table \in {"claims", "ledger"}
      BY DEF IInv, RowsInv
    <3>2. call[p].op = "write" /\ Entries(p) # {}
      BY <2>2 DEF IInv, RowsInv, StepInv, StepOf, InTxn, Numbering
    <3>3. \A r \in file : r.at # call[p].now
      BY <2>2, <3>2 DEF IInv, FileInv
    <3>4. file' \ file = call[p].rows
      BY <2>2, <3>1, <3>3
    <3>5. Port!Appended(call[p].rows)
      BY <3>1, <3>2, <3>3 DEF Port!Appended, Entries
    <3>. QED
      BY <2>2, <3>4, <3>5 DEF Port!Next
  <2>3. CASE Registers(p) /\ file' = file \cup {RowOf(p, "pending", 0)}
    <3> DEFINE row == RowOf(p, "pending", 0)
    <3>1. row.table = "pending" /\ row.at = call[p].now
      BY DEF RowOf
    <3>2. call[p].pc = "pending"
      BY <2>3 DEF Registers
    <3>3. \E s \in file : s.table = "claims" /\ s.at = row.at
      BY <3>1, <3>2 DEF IInv, FileInv
    <3> HIDE DEF row
    <3>4. file' \ file = {row} /\ file \subseteq file'
      BY <2>3 DEF row
    <3>5. Port!Registered({row})
      BY <3>1, <3>3 DEF Port!Registered
    <3>. QED
      BY <3>4, <3>5 DEF Port!Next
  <2>. QED
    BY <2>1, <2>2, <2>3, RowsOfStep
<1>. QED
  BY <1>1, <1>2, StoreInvariant, PTL DEF Spec, KeepsPort, Port!Spec
=============================================================================
