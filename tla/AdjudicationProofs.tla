-------------------------- MODULE AdjudicationProofs -------------------------
(***************************************************************************)
(* Adjudication, for every value of its constants: any number of tasks,    *)
(* claims and agents, with or without the store-wide lock, through errors  *)
(* and crashes; beyond the types, as long as no caller drops a running     *)
(* call.                                                                   *)
(*                                                                         *)
(* First the types; then which call is where and holds what, the part of   *)
(* the inductive invariant that does not read the ledger, and mutual       *)
(* exclusion; then the rest of it, IInv, and that an oracle's verdict on a *)
(* challenger is applied at most once; last, how challengers are settled.  *)
(*                                                                         *)
(* The argument for IInv: only the first entry of a claim queues it.       *)
(* A submit starts after that entry, so its verdict carries an instant     *)
(* that is not older, and outranks it.  So a claim that is queued has no   *)
(* verdict yet, and the guard that saw it queued still holds when the      *)
(* verdict is written, because every writer of the claim needs the same    *)
(* agent's lock.                                                           *)
(***************************************************************************)
EXTENDS Adjudication, SequenceTheorems, TLAPS

-----------------------------------------------------------------------------
(* Type correctness.                                                       *)

Pc == Inside \cup Reading \cup Waiting \cup {"next", "idle"}
Op == {"none", "ingest", "submit"} \cup Sweep

\* The clock starts inside the modelled time.
LEMMA ZeroIsTime == 0 \in Time
  BY AdjudicationAssumption DEF Time

\* The record of a task that runs no call is well typed.
LEMMA IdleType == Idle \in Task
  BY ZeroIsTime DEF Idle, Task, Disp, Verdict

\* A call waits first for one of the two locks.
LEMMA FirstLockType == FirstLock \in Waiting
  BY DEF FirstLock, Waiting

\* Moving the program counter keeps a task record well typed.
LEMMA TaskPc ==
  ASSUME NEW r \in Task, NEW l \in Pc
  PROVE  [r EXCEPT !.pc = l] \in Task
  BY DEF Task, Pc

\* A step that only moves a program counter keeps every task well typed.
LEMMA GotoType ==
  ASSUME task \in [Proc -> Task], NEW p \in Proc, NEW l \in Pc, Goto(p, l)
  PROVE  task' \in [Proc -> Task]
<1>1. [task[p] EXCEPT !.pc = l] \in Task
  BY TaskPc
<1>2. task' = [task EXCEPT ![p] = [task[p] EXCEPT !.pc = l]]
  BY DEF Goto
<1>. QED
  BY <1>1, <1>2

\* An entry a task writes about a claim is well typed.
LEMMA NoteType ==
  ASSUME task \in [Proc -> Task], NEW p \in Proc, NEW c \in Claim, NEW d \in Disp, NEW b \in Cause
  PROVE  Note(c, d, p, b) \in Entry
  BY DEF Note, Entry, Task

\* An engine that has just been opened is well typed.
LEMMA InitType == Init => TypeOK
<1>. SUFFICES ASSUME Init PROVE TypeOK
  OBVIOUS
<1>1. \A c \in Claim : <<[disp |-> "Cheap", at |-> 0, by |-> "ingest", about |-> c]>> \in Seq(Entry)
  BY ZeroIsTime DEF Entry, Disp, Cause
<1>2. ledger \in [Claim -> Seq(Entry)]
  BY <1>1 DEF Init
<1>3. NoRow \in Row
  BY AdjudicationAssumption DEF NoRow, Row, Never
<1>4. task \in [Proc -> Task] /\ pending \in [Claim -> Row]
  BY <1>3, IdleType DEF Init
<1>5. clock \in Time /\ faults \in 0..MaxFault /\ crashes \in 0..MaxCrash
  BY ZeroIsTime, AdjudicationAssumption DEF Init
<1>. QED
  BY <1>2, <1>4, <1>5 DEF Init, TypeOK

-----------------------------------------------------------------------------
\* A step of one task replaces its record and no other.
LEMMA TaskStep ==
  ASSUME task \in [Proc -> Task], ClaimInv, NEW p \in Proc, NEW r \in Task,
         r.pc \in Inside \cup Waiting \cup {"resolve"} => r.cur \in Claim,
         task' = [task EXCEPT ![p] = r]
  PROVE  task' \in [Proc -> Task] /\ ClaimInv'
  BY DEF ClaimInv

\* Moving the program counter of a call that has a claim keeps ClaimInv too.
LEMMA GotoStep ==
  ASSUME task \in [Proc -> Task], ClaimInv, NEW p \in Proc, NEW l \in Pc, Goto(p, l),
         task[p].pc \in Inside \cup Waiting \cup {"resolve"}
  PROVE  task' \in [Proc -> Task] /\ ClaimInv'
<1> DEFINE r == [task[p] EXCEPT !.pc = l]
<1>1. r \in Task /\ task' = [task EXCEPT ![p] = r]
  BY TaskPc DEF Goto
<1>2. r.cur = task[p].cur
  BY DEF Task
<1>3. r.cur \in Claim
  BY <1>2 DEF ClaimInv
<1>. QED
  BY <1>1, <1>3, TaskStep

\* Appending well-typed entries keeps the ledger well typed.
LEMMA LedgerAppend ==
  ASSUME NEW L \in [Claim -> Seq(Entry)], NEW c, NEW e \in Entry
  PROVE  [L EXCEPT ![c] = Append(@, e)] \in [Claim -> Seq(Entry)]
  BY AppendProperties

\* TypeOK is preserved with ClaimInv: an entry and a row name the claim worked on.
TypeInv == TypeOK /\ ClaimInv

\* Marking a row keeps every row well typed.
LEMMA MarkType ==
  ASSUME pending \in [Claim -> Row], NEW c \in Claim,
         NEW s \in {"none", "pending", "resolved", "expired"},
         pending' = [pending EXCEPT ![c].status = s]
  PROVE  pending' \in [Claim -> Row]
<1> DEFINE r == [pending[c] EXCEPT !.status = s]
<1>1. r \in Row
  BY DEF Row
<1>2. pending' = [pending EXCEPT ![c] = r]
  OBVIOUS
<1>. HIDE DEF r
<1>. QED
  BY <1>1, <1>2

\* Taking and dropping the guards keeps the types.
LEMMA LockType ==
  ASSUME TypeInv, NEW p \in Proc, AcquireStore(p) \/ AcquireAgent(p) \/ Release(p)
  PROVE  TypeInv'
<1>. USE DEF TypeInv
<1>1. CASE AcquireStore(p)
  <2>1. task' \in [Proc -> Task] /\ ClaimInv'
    BY <1>1, GotoStep DEF AcquireStore, Pc, Waiting, TypeOK
  <2>. QED
    BY <1>1, <2>1 DEF AcquireStore, TypeOK, durable, budget
<1>2. CASE AcquireAgent(p)
  <2>1. PICK l \in Inside : Goto(p, l)
    BY <1>2 DEF AcquireAgent, Inside
  <2>2. task' \in [Proc -> Task] /\ ClaimInv'
    BY <1>2, <2>1, GotoStep DEF AcquireAgent, Pc, Waiting, TypeOK
  <2>. QED
    BY <1>2, <2>2 DEF AcquireAgent, TypeOK, durable, budget
<1>3. CASE Release(p)
  <2> DEFINE r == IF task[p].pc = "done" /\ task[p].op \in Sweep /\ ~task[p].detached
                   THEN [task[p] EXCEPT !.pc = "next", !.cur = NoClaim] ELSE Idle
  <2>1. task' = [task EXCEPT ![p] = r]
    BY <1>3 DEF Release
  <2>2. ASSUME NEW t \in Task
        PROVE  /\ [t EXCEPT !.pc = "next", !.cur = NoClaim] \in Task
               /\ [t EXCEPT !.pc = "next", !.cur = NoClaim].pc = "next"
    BY DEF Task
  <2>3. r \in Task /\ r.pc \in {"next", "idle"}
    <3>1. task[p] \in Task /\ Idle \in Task /\ Idle.pc = "idle"
      BY IdleType DEF TypeOK, Idle
    <3>. QED
      BY <2>2, <3>1
  <2>4. task' \in [Proc -> Task] /\ ClaimInv'
    BY <2>1, <2>3, TaskStep DEF TypeOK, Inside, Waiting
  <2>. QED
    BY <1>3, <2>4 DEF Release, FreeLocksOf, TypeOK, durable, budget
<1>. QED
  BY <1>1, <1>2, <1>3

\* Every step of ingest_claim keeps the types.
LEMMA IngestType ==
  ASSUME TypeInv, NEW p \in Proc,
         \/ \E c \in Claim : BeginIngest(p, c)
         \/ IngestRead(p) \/ IngestCommit(p) \/ IngestAsk(p) \/ IngestInsert(p)
  PROVE  TypeInv'
<1>. USE DEF TypeInv
<1>1. ASSUME NEW c \in Claim, BeginIngest(p, c) PROVE TypeInv'
  <2> DEFINE r == [Idle EXCEPT !.op = "ingest", !.pc = FirstLock, !.now = clock, !.cur = c]
  <2>1. r \in Task /\ r.cur = c
    BY IdleType, FirstLockType DEF Task, TypeOK
  <2>2. task' \in [Proc -> Task] /\ ClaimInv'
    BY <1>1, <2>1, TaskStep DEF BeginIngest, TypeOK
  <2>. QED
    BY <1>1, <2>2 DEF BeginIngest, TypeOK, durable, locks, budget
<1>2. CASE IngestRead(p)
  <2>1. ASSUME NEW d \in {"Cheap", "Quarantined"},
               task' = [task EXCEPT ![p] = [@ EXCEPT !.pc = "commit", !.disp = d]]
        PROVE  TypeInv'
    <3> DEFINE r == [task[p] EXCEPT !.pc = "commit", !.disp = d]
    <3>1. r \in Task /\ r.cur = task[p].cur
      BY ZenonT(60) DEF Task, TypeOK, Inside, Disp
    <3>2. task' = [task EXCEPT ![p] = r]
      BY <2>1 DEF TypeOK
    <3>3. task[p].cur \in Claim
      BY <1>2 DEF IngestRead, ClaimInv, Inside
    <3>. HIDE DEF r
    <3>4. task' \in [Proc -> Task] /\ ClaimInv'
      BY <3>1, <3>2, <3>3, TaskStep DEF TypeOK
    <3>. QED
      BY <1>2, <3>4 DEF IngestRead, TypeOK, durable, locks, budget
  <2>2. ASSUME NEW i \in Claim,
               task' = [task EXCEPT ![p] = [@ EXCEPT !.pc = "commit", !.disp = "Queued", !.inc = i]]
        PROVE  TypeInv'
    <3> DEFINE r == [task[p] EXCEPT !.pc = "commit", !.disp = "Queued", !.inc = i]
    <3>1. r \in Task /\ r.cur = task[p].cur
      BY ZenonT(60) DEF Task, TypeOK, Inside, Disp
    <3>2. task' = [task EXCEPT ![p] = r]
      BY <2>2 DEF TypeOK
    <3>3. task[p].cur \in Claim
      BY <1>2 DEF IngestRead, ClaimInv, Inside
    <3>. HIDE DEF r
    <3>4. task' \in [Proc -> Task] /\ ClaimInv'
      BY <3>1, <3>2, <3>3, TaskStep DEF TypeOK
    <3>. QED
      BY <1>2, <3>4 DEF IngestRead, TypeOK, durable, locks, budget
  <2>. QED
    BY <1>2, <2>1, <2>2 DEF IngestRead, Incumbents, Live, Closed
<1>3. CASE IngestCommit(p)
  <2>1. PICK l \in Inside : Goto(p, l)
    BY <1>3 DEF IngestCommit, Inside
  <2>2. task' \in [Proc -> Task] /\ ClaimInv'
    BY <1>3, <2>1, GotoStep DEF IngestCommit, Pc, Inside, TypeOK
  <2>3. task[p].cur \in Claim /\ task[p].disp \in Disp
    BY <1>3 DEF IngestCommit, ClaimInv, Inside, TypeOK, Task
  <2>4. ledger' \in [Claim -> Seq(Entry)]
    BY <1>3, <2>3, NoteType, LedgerAppend DEF IngestCommit, TypeOK, Cause
  <2>. QED
    BY <1>3, <2>2, <2>4 DEF IngestCommit, TypeOK, locks, budget
<1>4. CASE IngestAsk(p)
  <2>1. task[p].cur \in Claim
    BY <1>4 DEF IngestAsk, ClaimInv, Inside
  <2>2. task' \in [Proc -> Task] /\ ClaimInv'
    BY <1>4, GotoStep DEF IngestAsk, Pc, Inside, TypeOK
  <2>. QED
    BY <1>4, <2>1, <2>2 DEF IngestAsk, TypeOK, locks, budget
<1>5. CASE IngestInsert(p)
  <2>1. task' \in [Proc -> Task] /\ ClaimInv'
    BY <1>5, GotoStep DEF IngestInsert, Pc, Inside, TypeOK
  <2>2. task[p].inc \in Claim \cup {NoClaim} /\ Deadline(task[p].now) \in Nat
    BY AdjudicationAssumption DEF TypeOK, Task, Deadline, Never, Time
  <2>3. pending' \in [Claim -> Row]
    BY <1>5, <2>2 DEF IngestInsert, TypeOK, Row
  <2>. QED
    BY <1>5, <2>1, <2>3 DEF IngestInsert, TypeOK, locks, budget
<1>. QED
  BY <1>1, <1>2, <1>3, <1>4, <1>5

\* Every step of submit_adjudication keeps the types.
LEMMA SubmitType ==
  ASSUME TypeInv, NEW p \in Proc,
         \/ \E c \in Claim, v \in Verdict : BeginSubmit(p, c, v)
         \/ SubmitResolve(p) \/ SubmitCheck(p) \/ SubmitApply(p) \/ SubmitMark(p)
  PROVE  TypeInv'
<1>. USE DEF TypeInv
<1>1. ASSUME NEW c \in Claim, NEW v \in Verdict, BeginSubmit(p, c, v) PROVE TypeInv'
  <2> DEFINE r == [Idle EXCEPT !.op = "submit", !.pc = "resolve", !.now = clock, !.cur = c,
                               !.verdict = v]
  <2>1. r \in Task /\ r.cur = c
    BY IdleType DEF Task, TypeOK, Reading
  <2>2. task' \in [Proc -> Task] /\ ClaimInv'
    BY <1>1, <2>1, TaskStep DEF BeginSubmit, TypeOK
  <2>. QED
    BY <1>1, <2>2 DEF BeginSubmit, TypeOK, durable, locks, budget
<1>2. CASE SubmitResolve(p)
  <2>1. CASE Goto(p, FirstLock)
    <3>1. task' \in [Proc -> Task] /\ ClaimInv'
      BY <1>2, <2>1, GotoStep, FirstLockType DEF SubmitResolve, Pc, TypeOK
    <3>. QED
      BY <1>2, <3>1 DEF SubmitResolve, TypeOK, durable, locks, budget
  <2>2. CASE task' = [task EXCEPT ![p] = Idle]
    <3>1. task' \in [Proc -> Task] /\ ClaimInv'
      BY <2>2, IdleType, TaskStep DEF TypeOK, Idle, Inside, Waiting
    <3>. QED
      BY <1>2, <3>1 DEF SubmitResolve, TypeOK, durable, locks, budget
  <2>. QED
    BY <1>2, <2>1, <2>2 DEF SubmitResolve
<1>3. CASE SubmitCheck(p)
  <2>1. PICK l \in Inside : Goto(p, l)
    BY <1>3 DEF SubmitCheck, Inside
  <2>2. task' \in [Proc -> Task] /\ ClaimInv'
    BY <1>3, <2>1, GotoStep DEF SubmitCheck, Pc, Inside, TypeOK
  <2>. QED
    BY <1>3, <2>2 DEF SubmitCheck, TypeOK, durable, locks, budget
<1>4. CASE SubmitApply(p)
  <2> DEFINE c == task[p].cur
             i == pending[c].incumbent
  <2>1. task' \in [Proc -> Task] /\ ClaimInv'
    BY <1>4, GotoStep DEF SubmitApply, Pc, Inside, TypeOK
  <2>2. c \in Claim /\ task[p].now \in Time
    BY <1>4 DEF SubmitApply, ClaimInv, Inside, TypeOK, Task
  <2>3. \A d \in Disp, b \in Cause : Note(c, d, p, b) \in Entry
    BY <2>2, NoteType DEF TypeOK
  <2>4. CASE Affirm(p, c, i)
    <3>1. ledger' \in [Claim -> Seq(Entry)]
      BY <2>3, <2>4, AppendProperties DEF Affirm, NoteOn, TypeOK, Disp, Cause, Verdict
    <3>2. bounds' \in [Claim -> SUBSET Time]
      BY <2>2, <2>4 DEF Affirm, TypeOK
    <3>. QED
      BY <1>4, <2>1, <3>1, <3>2 DEF SubmitApply, TypeOK, locks, budget
  <2>5. CASE Deny(p, c)
    <3>1. ledger' \in [Claim -> Seq(Entry)]
      BY <2>3, <2>5, AppendProperties DEF Deny, NoteOn, TypeOK, Disp, Cause, Verdict
    <3>2. bounds' \in [Claim -> SUBSET Time]
      BY <2>2, <2>5 DEF Deny, TypeOK
    <3>. QED
      BY <1>4, <2>1, <3>1, <3>2 DEF SubmitApply, TypeOK, locks, budget
  <2>6. CASE Abstain(p, c, i)
    <3>1. ledger' \in [Claim -> Seq(Entry)]
      BY <2>3, <2>6, AppendProperties DEF Abstain, NoteOn, TypeOK, Disp, Cause, Verdict
    <3>. QED
      BY <1>4, <2>1, <2>6, <3>1 DEF SubmitApply, Abstain, TypeOK, locks, budget
  <2>. QED
    BY <1>4, <2>4, <2>5, <2>6 DEF SubmitApply
<1>5. CASE SubmitMark(p)
  <2>1. task' \in [Proc -> Task] /\ ClaimInv'
    BY <1>5, GotoStep DEF SubmitMark, Pc, Inside, TypeOK
  <2>3. task[p].cur \in Claim
    BY <1>5 DEF SubmitMark, ClaimInv, Inside
  <2>2. pending' \in [Claim -> Row]
    BY <1>5, <2>3, MarkType DEF SubmitMark, TypeOK
  <2>. QED
    BY <1>5, <2>1, <2>2 DEF SubmitMark, TypeOK, locks, budget
<1>. QED
  BY <1>1, <1>2, <1>3, <1>4, <1>5


\* Every step of sweep_expired_adjudications keeps the types.
LEMMA SweepType ==
  ASSUME TypeInv, NEW p \in Proc,
         \/ BeginSweep(p) \/ SweepList(p) \/ SweepPick(p) \/ SweepPhaseEnd(p) \/ SweepCheck(p)
         \/ Revert(p) \/ MarkExpired(p)
  PROVE  TypeInv'
<1>. USE DEF TypeInv
<1>1. CASE BeginSweep(p)
  <2> DEFINE r == [Idle EXCEPT !.op = "expire", !.pc = "list", !.now = clock]
  <2>1. r \in Task /\ r.pc = "list"
    BY IdleType DEF Task, TypeOK, Reading, Sweep
  <2>2. task' \in [Proc -> Task] /\ ClaimInv'
    BY <1>1, <2>1, TaskStep DEF BeginSweep, TypeOK, Inside, Waiting
  <2>. QED
    BY <1>1, <2>2 DEF BeginSweep, TypeOK, durable, locks, budget
<1>2. CASE SweepList(p)
  <2> DEFINE S == {c \in Claim : IF task[p].op = "expire" THEN ListedExpired(c, task[p].now)
                                                          ELSE ListedOrphan(c)}
             r == [task[p] EXCEPT !.pc = "next", !.todo = S]
  <2>1. r \in Task /\ r.pc = "next"
    <3>1. ASSUME NEW t \in Task, NEW T \in SUBSET Claim
          PROVE  /\ [t EXCEPT !.pc = "next", !.todo = T] \in Task
                 /\ [t EXCEPT !.pc = "next", !.todo = T].pc = "next"
      BY DEF Task
    <3>2. task[p] \in Task /\ S \in SUBSET Claim
      BY DEF TypeOK
    <3>. QED
      BY <3>1, <3>2
  <2>2. task' = [task EXCEPT ![p] = r]
    BY <1>2 DEF SweepList, TypeOK
  <2>3. task' \in [Proc -> Task] /\ ClaimInv'
    BY <2>1, <2>2, TaskStep DEF TypeOK, Inside, Waiting
  <2>. QED
    BY <1>2, <2>3 DEF SweepList, TypeOK, durable, locks, budget
<1>3. CASE SweepPick(p)
  <2>1. PICK c \in task[p].todo :
          task' = [task EXCEPT ![p] = [@ EXCEPT !.pc = FirstLock, !.cur = c,
                                                !.todo = task[p].todo \ {c}]]
    BY <1>3 DEF SweepPick
  <2> DEFINE r == [task[p] EXCEPT !.pc = FirstLock, !.cur = c, !.todo = task[p].todo \ {c}]
  <2>2. c \in Claim
    BY DEF TypeOK, Task
  <2>3. r \in Task /\ r.cur = c
    BY ZenonT(60), <2>2, FirstLockType DEF Task, TypeOK
  <2>4. task' = [task EXCEPT ![p] = r]
    BY <2>1 DEF TypeOK
  <2>5. task' \in [Proc -> Task] /\ ClaimInv'
    BY <2>2, <2>3, <2>4, TaskStep DEF TypeOK
  <2>. QED
    BY <1>3, <2>5 DEF SweepPick, TypeOK, durable, locks, budget
<1>4. CASE SweepPhaseEnd(p)
  <2> DEFINE r == IF task[p].op = "expire"
                    THEN [task[p] EXCEPT !.op = "orphan", !.pc = "list"] ELSE Idle
  <2>1. [task[p] EXCEPT !.op = "orphan", !.pc = "list"] \in Task
    BY ZenonT(60) DEF TypeOK, Task, Sweep, Reading
  <2>2. r \in Task /\ r.pc \in {"list", "idle"}
    BY <2>1, IdleType DEF Idle, Task
  <2>3. task' = [task EXCEPT ![p] = r]
    BY <1>4 DEF SweepPhaseEnd
  <2>4. task' \in [Proc -> Task] /\ ClaimInv'
    BY <2>2, <2>3, TaskStep DEF TypeOK, Inside, Waiting
  <2>. QED
    BY <1>4, <2>4 DEF SweepPhaseEnd, TypeOK, durable, locks, budget
<1>5. CASE SweepCheck(p)
  <2>1. PICK l \in Inside : Goto(p, l)
    BY <1>5 DEF SweepCheck, Inside
  <2>2. task' \in [Proc -> Task] /\ ClaimInv'
    BY <1>5, <2>1, GotoStep DEF SweepCheck, Pc, Inside, TypeOK
  <2>. QED
    BY <1>5, <2>2 DEF SweepCheck, TypeOK, durable, locks, budget
<1>6. CASE Revert(p)
  <2>1. PICK l \in Inside : Goto(p, l)
    BY <1>6 DEF Revert, Inside
  <2>2. task' \in [Proc -> Task] /\ ClaimInv'
    BY <1>6, <2>1, GotoStep DEF Revert, Pc, Inside, TypeOK
  <2>3. task[p].cur \in Claim
    BY <1>6 DEF Revert, ClaimInv, Inside
  <2>4. ledger' \in [Claim -> Seq(Entry)]
    BY <1>6, <2>3, NoteType, LedgerAppend DEF Revert, TypeOK, Cause, Disp
  <2>. QED
    BY <1>6, <2>2, <2>4 DEF Revert, TypeOK, locks, budget
<1>7. CASE MarkExpired(p)
  <2>1. task' \in [Proc -> Task] /\ ClaimInv'
    BY <1>7, GotoStep DEF MarkExpired, Pc, Inside, TypeOK
  <2>3. task[p].cur \in Claim
    BY <1>7 DEF MarkExpired, ClaimInv, Inside
  <2>2. pending' \in [Claim -> Row]
    BY <1>7, <2>3, MarkType DEF MarkExpired, TypeOK
  <2>. QED
    BY <1>7, <2>1, <2>2 DEF MarkExpired, TypeOK, locks, budget
<1>. QED
  BY <1>1, <1>2, <1>3, <1>4, <1>5, <1>6, <1>7

\* Time, a crash, a failing call and a dropped future keep the types.
LEMMA FaultType ==
  ASSUME TypeInv, Tick \/ Crash \/ \E p \in Proc : Fail(p) \/ Cancel(p)
  PROVE  TypeInv'
<1>. USE DEF TypeInv
<1>1. CASE Tick
  BY <1>1, AdjudicationAssumption
  DEF Tick, TypeOK, ClaimInv, Time, durable, locks, budget
<1>2. CASE Crash
  <2>1. task' \in [Proc -> Task] /\ ClaimInv'
    BY <1>2, IdleType DEF Crash, ClaimInv, Idle, Inside, Waiting
  <2>. QED
    BY <1>2, <2>1, AdjudicationAssumption DEF Crash, TypeOK, durable
<1>3. ASSUME NEW p \in Proc, Fail(p) PROVE TypeInv'
  <2>1. task' \in [Proc -> Task] /\ ClaimInv'
    <3>1. CASE task[p].pc \in Inside /\ Goto(p, "failed")
      BY <3>1, GotoStep DEF TypeOK, Pc, Inside
    <3>2. CASE task' = [task EXCEPT ![p] = Idle]
      BY <3>2, TaskStep, IdleType DEF TypeOK, Idle, Inside, Waiting
    <3>. QED
      BY <1>3, <3>1, <3>2 DEF Fail
  <2>. QED
    BY <1>3, <2>1, AdjudicationAssumption DEF Fail, TypeOK, durable, locks
<1>4. ASSUME NEW p \in Proc, Cancel(p) PROVE TypeInv'
  <2> DEFINE r == IF task[p].pc \in Inside THEN [task[p] EXCEPT !.detached = TRUE] ELSE Idle
  <2>1. /\ [task[p] EXCEPT !.detached = TRUE] \in Task
        /\ [task[p] EXCEPT !.detached = TRUE].cur = task[p].cur
    <3>1. ASSUME NEW t \in Task
          PROVE  [t EXCEPT !.detached = TRUE] \in Task /\ [t EXCEPT !.detached = TRUE].cur = t.cur
      BY DEF Task
    <3>. QED
      BY <3>1 DEF TypeOK
  <2>2. r \in Task
    BY <2>1, IdleType
  <2>3. r.pc \in Inside \cup Waiting \cup {"resolve"} => r.cur \in Claim
    <3>1. task[p].pc \in Inside => task[p].cur \in Claim
      BY DEF ClaimInv
    <3>2. Idle.pc \notin Inside \cup Waiting \cup {"resolve"}
      BY DEF Idle, Inside, Waiting
    <3>. QED
      BY <2>1, <3>1, <3>2
  <2>4. task' = [task EXCEPT ![p] = r]
    BY <1>4 DEF Cancel
  <2>5. task' \in [Proc -> Task] /\ ClaimInv'
    BY <2>2, <2>3, <2>4, TaskStep DEF TypeOK
  <2>. QED
    BY <1>4, <2>5, AdjudicationAssumption DEF Cancel, FreeLocksOf, TypeOK, durable
<1>. QED
  BY <1>1, <1>2, <1>3, <1>4

\* Every step of the engine keeps the types.
LEMMA TypeStep == TypeInv /\ [Next]_vars => TypeInv'
<1>. SUFFICES ASSUME TypeInv, [Next]_vars PROVE TypeInv'
  OBVIOUS
<1>1. CASE UNCHANGED vars
  BY <1>1 DEF TypeInv, TypeOK, ClaimInv, vars, durable, locks, budget
<1>2. CASE Tick \/ Crash \/ \E p \in Proc : Fail(p) \/ Cancel(p)
  BY <1>2, FaultType
<1>3. ASSUME NEW p \in Proc,
             \/ Step(p) \/ BeginSweep(p)
             \/ \E c \in Claim : BeginIngest(p, c)
             \/ \E c \in Claim, v \in Verdict : BeginSubmit(p, c, v)
      PROVE  TypeInv'
  BY <1>3, LockType, IngestType, SubmitType, SweepType DEF Step
<1>. QED
  BY <1>1, <1>2, <1>3 DEF Next

\* Types: no interleaving of calls, errors, crashes and cancellations takes a call, a
\* lock, a ledger entry or a pending row outside the domain the code gives it.
THEOREM TypeCorrect == Spec => []TypeOK
<1>1. Init => TypeInv
  BY InitType DEF Init, TypeInv, ClaimInv, Idle, Inside, Waiting
<1>. QED
  BY <1>1, TypeStep, PTL DEF Spec, TypeInv

-----------------------------------------------------------------------------
(* Program counters and locks.                                             *)

\* What Goto does to the fields of the records.
LEMMA GotoFields ==
  ASSUME task \in [Proc -> Task], NEW p \in Proc, NEW l, Goto(p, l)
  PROVE  /\ task'[p].pc = l
         /\ task'[p].op = task[p].op /\ task'[p].now = task[p].now /\ task'[p].cur = task[p].cur
         /\ task'[p].disp = task[p].disp /\ task'[p].inc = task[p].inc
         /\ task'[p].detached = task[p].detached /\ task'[p].todo = task[p].todo
         /\ \A q \in Proc \ {p} : task'[q] = task[q]
  BY DEF Goto, Task

\* A task that runs no call satisfies the step invariant.
LEMMA IdleInStep == InStep(Idle)
  BY DEF InStep, Idle, Waiting

\* No call runs in an engine that has just been opened.
LEMMA StepInvInit == Init => StepInv
  BY IdleInStep DEF Init, StepInv

\* A step that replaces one task record by one that fits its operation keeps StepInv.
LEMMA StepInvRecord ==
  ASSUME task \in [Proc -> Task], StepInv, NEW p \in Proc, NEW r, InStep(r),
         task' = [task EXCEPT ![p] = r]
  PROVE  StepInv'
  BY DEF StepInv

\* The steps that only move the program counter stay in their operation.
LEMMA StepInvGoto ==
  ASSUME TypeInv, StepInv, NEW p \in Proc,
         \/ AcquireStore(p) \/ AcquireAgent(p) \/ IngestCommit(p) \/ IngestAsk(p)
         \/ IngestInsert(p) \/ SubmitCheck(p) \/ SubmitApply(p) \/ SubmitMark(p)
         \/ SweepCheck(p) \/ Revert(p) \/ MarkExpired(p)
  PROVE  StepInv'
<1>1. InStep(task[p])
  BY DEF StepInv
<1>2. ASSUME NEW l, Goto(p, l),
             InStep([pc |-> l, op |-> task[p].op, disp |-> task[p].disp])
      PROVE  StepInv'
  <2> DEFINE r == [task[p] EXCEPT !.pc = l]
  <2>1. r.pc = l /\ r.op = task[p].op /\ r.disp = task[p].disp
    BY DEF TypeInv, TypeOK, Task
  <2>2. task' = [task EXCEPT ![p] = r]
    BY <1>2 DEF Goto
  <2>. HIDE DEF r
  <2>3. InStep(r)
    BY <1>2, <2>1 DEF InStep
  <2>. QED
    BY <2>2, <2>3, StepInvRecord DEF TypeInv, TypeOK
<1>. USE <1>1, <1>2 DEF Waiting, InStep
<1>3. CASE AcquireStore(p)
  BY <1>3 DEF AcquireStore
<1>4. CASE AcquireAgent(p)
  BY <1>4 DEF AcquireAgent
<1>5. CASE IngestCommit(p)
  BY <1>5 DEF IngestCommit
<1>6. CASE IngestAsk(p) \/ IngestInsert(p)
  BY <1>6 DEF IngestAsk, IngestInsert
<1>7. CASE SubmitCheck(p)
  BY <1>7 DEF SubmitCheck
<1>8. CASE SubmitApply(p) \/ SubmitMark(p)
  BY <1>8 DEF SubmitApply, SubmitMark
<1>9. CASE SweepCheck(p)
  BY <1>9 DEF SweepCheck
<1>10. CASE Revert(p) \/ MarkExpired(p)
  BY <1>10 DEF Revert, MarkExpired
<1>. QED
  BY <1>3, <1>4, <1>5, <1>6, <1>7, <1>8, <1>9, <1>10

\* The steps that begin, return, or change a local variable stay in their operation.
LEMMA StepInvOther ==
  ASSUME TypeInv, StepInv, NEW p \in Proc,
         \/ Release(p) \/ BeginSweep(p) \/ SweepList(p) \/ SweepPick(p) \/ SweepPhaseEnd(p)
         \/ IngestRead(p) \/ SubmitResolve(p) \/ Fail(p) \/ Cancel(p)
         \/ \E c \in Claim : BeginIngest(p, c)
         \/ \E c \in Claim, v \in Verdict : BeginSubmit(p, c, v)
  PROVE  StepInv'
<1>1. InStep(task[p]) /\ task[p] \in Task /\ task \in [Proc -> Task]
  BY DEF StepInv, TypeInv, TypeOK
<1>2. SUFFICES \E r : task' = [task EXCEPT ![p] = r] /\ InStep(r)
  BY <1>1, StepInvRecord
<1>3. ASSUME task' = [task EXCEPT ![p] = Idle]
      PROVE  \E r : task' = [task EXCEPT ![p] = r] /\ InStep(r)
  BY <1>3, IdleInStep
<1>4. ASSUME NEW l, Goto(p, l)
      PROVE  \E r : task' = [task EXCEPT ![p] = r] /\ r.pc = l
                      /\ r.op = task[p].op /\ r.disp = task[p].disp
  <2>. WITNESS [task[p] EXCEPT !.pc = l]
  <2>. QED
    BY <1>1, <1>4 DEF Goto, Task
<1>5. CASE Release(p)
  <2>1. [task[p] EXCEPT !.pc = "next", !.cur = NoClaim].pc = "next"
    BY <1>1 DEF Task
  <2>2. ASSUME task[p].op \in Sweep
        PROVE  InStep([task[p] EXCEPT !.pc = "next", !.cur = NoClaim])
    BY <1>1, <2>2 DEF InStep, Task, Waiting, Sweep
  <2>. QED
    BY <1>3, <1>5, <2>2 DEF Release
<1>6. CASE BeginSweep(p)
  <2>. WITNESS [Idle EXCEPT !.op = "expire", !.pc = "list", !.now = clock]
  <2>. QED
    BY <1>6 DEF BeginSweep, InStep, Idle, Sweep, Waiting
<1>7. CASE SweepList(p)
  <2> DEFINE S == {c \in Claim : IF task[p].op = "expire" THEN ListedExpired(c, task[p].now)
                                                          ELSE ListedOrphan(c)}
             r == [task[p] EXCEPT !.pc = "next", !.todo = S]
  <2>1. task' = [task EXCEPT ![p] = r]
    BY <1>1, <1>7 DEF SweepList
  <2>2. r.pc = "next" /\ r.op = task[p].op /\ r.disp = task[p].disp
    BY <1>1 DEF Task
  <2>3. task[p].op \in Sweep /\ task[p].disp = "Cheap"
    BY <1>1, <1>7 DEF SweepList, InStep, Sweep
  <2>. HIDE DEF r
  <2>. QED
    BY <2>1, <2>2, <2>3 DEF InStep, Waiting, Sweep
<1>8. CASE SweepPick(p)
  <2>1. PICK c \in task[p].todo :
          task' = [task EXCEPT ![p] = [@ EXCEPT !.pc = FirstLock, !.cur = c,
                                                !.todo = task[p].todo \ {c}]]
    BY <1>8 DEF SweepPick
  <2> DEFINE r == [task[p] EXCEPT !.pc = FirstLock, !.cur = c, !.todo = task[p].todo \ {c}]
  <2>2. task' = [task EXCEPT ![p] = r]
    BY <1>1, <2>1 DEF Task
  <2>3. r.pc = FirstLock /\ r.op = task[p].op /\ r.disp = task[p].disp
    BY <1>1 DEF Task
  <2>4. task[p].op \in Sweep /\ task[p].disp = "Cheap"
    BY <1>1, <1>8 DEF SweepPick, InStep, Sweep
  <2>. HIDE DEF r
  <2>. QED
    BY <2>2, <2>3, <2>4, FirstLockType DEF InStep, Waiting, Sweep
<1>9. CASE SweepPhaseEnd(p)
  <2>1. CASE task[p].op = "expire"
    <3>. WITNESS [task[p] EXCEPT !.op = "orphan", !.pc = "list"]
    <3>. QED
      BY <1>1, <1>9, <2>1 DEF SweepPhaseEnd, InStep, Waiting, Sweep, Task
  <2>2. CASE task[p].op # "expire"
    BY <1>3, <1>9, <2>2 DEF SweepPhaseEnd
  <2>. QED
    BY <2>1, <2>2
<1>10. CASE IngestRead(p)
  <2>1. task[p].pc = "read" /\ task[p].op = "ingest" /\ task[p].disp = "Cheap"
    BY <1>1, <1>10 DEF IngestRead, InStep
  <2>2. ASSUME NEW d \in {"Cheap", "Quarantined"},
               task' = [task EXCEPT ![p] = [@ EXCEPT !.pc = "commit", !.disp = d]]
        PROVE  \E r : task' = [task EXCEPT ![p] = r] /\ InStep(r)
    <3> DEFINE r == [task[p] EXCEPT !.pc = "commit", !.disp = d]
    <3>1. task' = [task EXCEPT ![p] = r]
      BY <1>1, <2>2
    <3>2. r.pc = "commit" /\ r.op = task[p].op /\ r.disp = d
      BY <1>1 DEF Task
    <3>. HIDE DEF r
    <3>. QED
      BY <2>1, <3>1, <3>2 DEF InStep, Waiting
  <2>3. ASSUME NEW i, task' = [task EXCEPT ![p] = [@ EXCEPT !.pc = "commit", !.disp = "Queued",
                                                            !.inc = i]]
        PROVE  \E r : task' = [task EXCEPT ![p] = r] /\ InStep(r)
    <3> DEFINE r == [task[p] EXCEPT !.pc = "commit", !.disp = "Queued", !.inc = i]
    <3>1. task' = [task EXCEPT ![p] = r]
      BY <1>1, <2>3
    <3>2. r.pc = "commit" /\ r.op = task[p].op /\ r.disp = "Queued"
      BY <1>1 DEF Task
    <3>. HIDE DEF r
    <3>. QED
      BY <2>1, <3>1, <3>2 DEF InStep, Waiting
  <2>. QED
    BY <1>10, <2>2, <2>3 DEF IngestRead
<1>11. CASE SubmitResolve(p)
  <2>1. task[p].op = "submit" /\ task[p].disp = "Cheap"
    BY <1>1, <1>11 DEF SubmitResolve, InStep
  <2>2. CASE Goto(p, FirstLock)
    BY <1>4, <2>1, <2>2, FirstLockType DEF InStep, Waiting
  <2>. QED
    BY <1>3, <1>11, <2>2 DEF SubmitResolve
<1>12. CASE Fail(p)
  <2>1. CASE task[p].pc \in Inside /\ Goto(p, "failed")
    <3>1. task[p].pc # "idle"
      BY <2>1 DEF Inside
    <3>. QED
      BY <1>1, <1>4, <2>1, <3>1 DEF InStep, Waiting
  <2>. QED
    BY <1>3, <1>12, <2>1 DEF Fail
<1>13. CASE Cancel(p)
  <2> DEFINE r == [task[p] EXCEPT !.detached = TRUE]
  <2>1. r.pc = task[p].pc /\ r.op = task[p].op /\ r.disp = task[p].disp
    BY <1>1 DEF Task
  <2>2. task' = [task EXCEPT ![p] = r] \/ task' = [task EXCEPT ![p] = Idle]
    BY <1>13 DEF Cancel
  <2>. HIDE DEF r
  <2>. QED
    BY <1>1, <1>3, <2>1, <2>2 DEF InStep
<1>14. ASSUME NEW c \in Claim, BeginIngest(p, c)
       PROVE  \E r : task' = [task EXCEPT ![p] = r] /\ InStep(r)
  <2>. WITNESS [Idle EXCEPT !.op = "ingest", !.pc = FirstLock, !.now = clock, !.cur = c]
  <2>. QED
    BY <1>14, FirstLockType DEF BeginIngest, InStep, Idle, Waiting
<1>15. ASSUME NEW c \in Claim, NEW v \in Verdict, BeginSubmit(p, c, v)
       PROVE  \E r : task' = [task EXCEPT ![p] = r] /\ InStep(r)
  <2>. WITNESS [Idle EXCEPT !.op = "submit", !.pc = "resolve", !.now = clock, !.cur = c,
                            !.verdict = v]
  <2>. QED
    BY <1>15 DEF BeginSubmit, InStep, Idle, Waiting
<1>. QED
  BY <1>5, <1>6, <1>7, <1>8, <1>9, <1>10, <1>11, <1>12, <1>13, <1>14, <1>15

-----------------------------------------------------------------------------
(* What each step does to the record of its task.                          *)

\* Every task but p keeps its record.
Others(p) == \A q \in Proc \ {p} : task'[q] = task[q]

\* p goes on with the same call.
SameCall(p) ==
  /\ task'[p].op = task[p].op /\ task'[p].now = task[p].now /\ task'[p].cur = task[p].cur
  /\ task'[p].detached = task[p].detached /\ task'[p].todo = task[p].todo

\* The steps under the locks that only move the program counter.
UnderLocks(p) ==
  \/ IngestCommit(p) \/ IngestAsk(p) \/ IngestInsert(p)
  \/ SubmitCheck(p) \/ SubmitApply(p) \/ SubmitMark(p)
  \/ SweepCheck(p) \/ Revert(p) \/ MarkExpired(p)

\* What a step under the locks leaves alone in the task record.
LEMMA UnderLocksFields ==
  ASSUME TypeInv, NEW p \in Proc, UnderLocks(p)
  PROVE  /\ Others(p) /\ SameCall(p)
         /\ task'[p].disp = task[p].disp /\ task'[p].inc = task[p].inc
         /\ task[p].pc \in Inside /\ task'[p].pc \in Inside \ {"read", "commit"}
         /\ UNCHANGED <<clock, locks>>
<1>1. task[p].pc \in Inside
  BY DEF UnderLocks, IngestCommit, IngestAsk, IngestInsert, SubmitCheck, SubmitApply, SubmitMark,
         SweepCheck, Revert, MarkExpired, Inside
<1>2. PICK l \in Inside \ {"read", "commit"} : Goto(p, l)
  BY DEF UnderLocks, IngestCommit, IngestAsk, IngestInsert, SubmitCheck, SubmitApply, SubmitMark,
         SweepCheck, Revert, MarkExpired, Inside
<1>3. UNCHANGED <<clock, locks>>
  BY DEF UnderLocks, IngestCommit, IngestAsk, IngestInsert, SubmitCheck, SubmitApply, SubmitMark,
         SweepCheck, Revert, MarkExpired
<1>. QED
  BY <1>1, <1>2, <1>3, GotoFields DEF TypeInv, TypeOK, Others, SameCall

\* What the read of an ingest leaves alone, and that it queues only with an incumbent.
LEMMA ReadFields ==
  ASSUME TypeInv, NEW p \in Proc, IngestRead(p)
  PROVE  /\ Others(p) /\ SameCall(p)
         /\ task[p].pc = "read" /\ task'[p].pc = "commit"
         /\ \/ task'[p].disp # "Queued"
            \/ task'[p].inc \in Incumbents(task[p].cur, task[p].now)
         /\ UNCHANGED <<clock, durable, locks>>
<1>1. ASSUME NEW d \in {"Cheap", "Quarantined"},
             task' = [task EXCEPT ![p] = [@ EXCEPT !.pc = "commit", !.disp = d]]
      PROVE  /\ Others(p) /\ SameCall(p)
             /\ task'[p].pc = "commit" /\ task'[p].disp = d
  <2>1. task' = [task EXCEPT ![p] = [task[p] EXCEPT !.pc = "commit", !.disp = d]]
    BY <1>1 DEF TypeInv, TypeOK
  <2>. QED
    BY <2>1 DEF TypeInv, TypeOK, Task, Others, SameCall
<1>2. ASSUME NEW i \in Incumbents(task[p].cur, task[p].now),
             task' = [task EXCEPT ![p] = [@ EXCEPT !.pc = "commit", !.disp = "Queued", !.inc = i]]
      PROVE  /\ Others(p) /\ SameCall(p)
             /\ task'[p].pc = "commit" /\ task'[p].inc = i
  <2>1. task' = [task EXCEPT ![p] = [task[p] EXCEPT !.pc = "commit", !.disp = "Queued", !.inc = i]]
    BY <1>2 DEF TypeInv, TypeOK
  <2>. QED
    BY <2>1 DEF TypeInv, TypeOK, Task, Others, SameCall
<1>. QED
  BY <1>1, <1>2 DEF IngestRead

\* What an expiry still has to do: what it had before, or rows it has just found due.
Listed(p, r) ==
  r.op = "expire" =>
    \/ r.todo \subseteq WithRow /\ \A c \in r.todo : Expired(c, r.now)
    \/ task[p].op = "expire" /\ r.todo = task[p].todo /\ r.now = task[p].now

\* The steps after which a task holds and awaits no lock.
LEMMA OutsideFields ==
  ASSUME TypeInv, StepInv, NEW p \in Proc, ~task[p].detached,
         Release(p) \/ BeginSweep(p) \/ SweepList(p) \/ SweepPhaseEnd(p)
  PROVE  /\ Others(p)
         /\ task'[p].pc \in {"next", "idle", "list"} /\ ~task'[p].detached
         /\ task'[p].op \in {"none"} \cup Sweep
         /\ task'[p].now \in {0, task[p].now, clock}
         /\ Listed(p, task'[p])
         /\ UNCHANGED <<clock, durable>>
<1>1. task \in [Proc -> Task] /\ task[p] \in Task
  BY DEF TypeInv, TypeOK
<1>2. SUFFICES ASSUME NEW r, task' = [task EXCEPT ![p] = r],
                      r.pc \in {"next", "idle", "list"}, ~r.detached,
                      r.op \in {"none"} \cup Sweep, r.now \in {0, task[p].now, clock},
                      Listed(p, r)
               PROVE  Others(p) /\ task'[p] = r
  <2>1. CASE Release(p)
    <3>1. PICK r : /\ task' = [task EXCEPT ![p] = r]
                   /\ \/ r = Idle
                      \/ task[p].op \in Sweep /\ r = [task[p] EXCEPT !.pc = "next", !.cur = NoClaim]
      BY <2>1 DEF Release
    <3>2. r.pc \in {"next", "idle"} /\ ~r.detached /\ r.op \in {"none"} \cup Sweep
          /\ r.now \in {0, task[p].now} /\ Listed(p, r)
      <4>1. CASE r = Idle
        BY <4>1 DEF Idle, Listed
      <4>2. CASE task[p].op \in Sweep /\ r = [task[p] EXCEPT !.pc = "next", !.cur = NoClaim]
        <5>1. r.pc = "next" /\ r.detached = task[p].detached /\ r.op = task[p].op
              /\ r.now = task[p].now /\ r.todo = task[p].todo
          BY <1>1, <4>2 DEF Task
        <5>. QED
          BY <4>2, <5>1 DEF Listed
      <4>. QED
        BY <3>1, <4>1, <4>2
    <3>. QED
      BY <1>2, <2>1, <3>1, <3>2 DEF Release
  <2>2. CASE BeginSweep(p)
    <3>1. PICK r : /\ task' = [task EXCEPT ![p] = r]
                   /\ r = [Idle EXCEPT !.op = "expire", !.pc = "list", !.now = clock]
      BY <2>2 DEF BeginSweep
    <3>2. r.pc = "list" /\ ~r.detached /\ r.op \in Sweep /\ r.now = clock /\ Listed(p, r)
      BY <3>1 DEF Idle, Sweep, Listed
    <3>. QED
      BY <1>2, <2>2, <3>1, <3>2 DEF BeginSweep
  <2>3. CASE SweepList(p)
    <3>1. PICK S : /\ task' = [task EXCEPT ![p] = [task[p] EXCEPT !.pc = "next", !.todo = S]]
                   /\ task[p].op = "expire" =>
                        S \subseteq WithRow /\ \A c \in S : Expired(c, task[p].now)
      <4> DEFINE L == {c \in Claim : IF task[p].op = "expire" THEN ListedExpired(c, task[p].now)
                                                               ELSE ListedOrphan(c)}
      <4>1. task' = [task EXCEPT ![p] = [task[p] EXCEPT !.pc = "next", !.todo = L]]
        BY <1>1, <2>3 DEF SweepList
      <4>2. task[p].op = "expire" => L \subseteq WithRow /\ \A c \in L : Expired(c, task[p].now)
        BY DEF ListedExpired, WithRow
      <4>. HIDE DEF L
      <4>. QED
        BY <4>1, <4>2
    <3>2. PICK r : task' = [task EXCEPT ![p] = r] /\ r = [task[p] EXCEPT !.pc = "next", !.todo = S]
      BY <3>1
    <3>3. r.pc = "next" /\ ~r.detached /\ r.op = task[p].op /\ r.now = task[p].now /\ r.todo = S
      BY <1>1, <3>2 DEF Task
    <3>4. task[p].op \in Sweep /\ Listed(p, r)
      BY <2>3, <3>1, <3>3 DEF SweepList, StepInv, InStep, Listed
    <3>. QED
      BY <1>2, <2>3, <3>2, <3>3, <3>4 DEF SweepList
  <2>4. CASE SweepPhaseEnd(p)
    <3>1. PICK r : /\ task' = [task EXCEPT ![p] = r]
                   /\ r = Idle \/ r = [task[p] EXCEPT !.op = "orphan", !.pc = "list"]
      BY <2>4 DEF SweepPhaseEnd
    <3>2. r.pc \in {"list", "idle"} /\ ~r.detached /\ r.op \in {"none"} \cup Sweep
          /\ r.now \in {0, task[p].now} /\ Listed(p, r)
      <4>1. CASE r = Idle
        BY <4>1 DEF Idle, Listed
      <4>2. CASE r = [task[p] EXCEPT !.op = "orphan", !.pc = "list"]
        <5>1. r.pc = "list" /\ r.detached = task[p].detached /\ r.op = "orphan"
              /\ r.now = task[p].now
          BY <1>1, <4>2 DEF Task
        <5>. QED
          BY <5>1 DEF Sweep, Listed
      <4>. QED
        BY <3>1, <4>1, <4>2
    <3>. QED
      BY <1>2, <2>4, <3>1, <3>2 DEF SweepPhaseEnd
  <2>. QED
    BY <2>1, <2>2, <2>3, <2>4
<1>. QED
  BY <1>1, <1>2 DEF Others


\* The steps that bring a call to a lock, or past it.
LEMMA WaitingFields ==
  ASSUME TypeInv, NEW p \in Proc, ~task[p].detached
  PROVE  /\ \A c \in Claim : BeginIngest(p, c) =>
              /\ Others(p) /\ ~task'[p].detached /\ task'[p].op = "ingest"
              /\ task'[p].pc = FirstLock /\ task'[p].now = clock /\ task'[p].cur = c
         /\ \A c \in Claim, v \in Verdict : BeginSubmit(p, c, v) =>
              /\ Others(p) /\ ~task'[p].detached /\ task'[p].op = "submit"
              /\ task'[p].pc = "resolve" /\ task'[p].now = clock /\ task'[p].cur = c
         /\ SubmitResolve(p) =>
              /\ Others(p)
              /\ \/ task'[p] = Idle
                 \/ SameCall(p) /\ task'[p].pc = FirstLock /\ pending[task[p].cur].status # "none"
         /\ SweepPick(p) =>
              /\ Others(p) /\ ~task'[p].detached /\ task'[p].op = task[p].op
              /\ task'[p].now = task[p].now /\ task'[p].pc = FirstLock
              /\ task'[p].todo \subseteq task[p].todo /\ task'[p].cur \in task[p].todo
         /\ AcquireStore(p) => Others(p) /\ SameCall(p) /\ task'[p].pc = "agentLock"
         /\ AcquireAgent(p) =>
              /\ Others(p) /\ SameCall(p)
              /\ task'[p].pc = IF task[p].op = "ingest" THEN "read" ELSE "check"
         /\ Fail(p) =>
              /\ Others(p)
              /\ \/ task'[p] = Idle
                 \/ SameCall(p) /\ task[p].pc \in Inside /\ task'[p].pc = "failed"
<1>1. task \in [Proc -> Task] /\ task[p] \in Task
  BY DEF TypeInv, TypeOK
<1>2. \A r : task' = [task EXCEPT ![p] = r] => Others(p) /\ task'[p] = r
  BY <1>1 DEF Others
<1>3. \A l : Goto(p, l) => Others(p) /\ SameCall(p) /\ task'[p].pc = l
  BY <1>1, GotoFields DEF Others, SameCall
<1>4. ASSUME NEW c \in Claim, BeginIngest(p, c)
      PROVE  /\ Others(p) /\ ~task'[p].detached /\ task'[p].op = "ingest"
             /\ task'[p].pc = FirstLock /\ task'[p].now = clock /\ task'[p].cur = c
  BY ZenonT(60), <1>2, <1>4 DEF BeginIngest, Idle
<1>5. ASSUME NEW c \in Claim, NEW v \in Verdict, BeginSubmit(p, c, v)
      PROVE  /\ Others(p) /\ ~task'[p].detached /\ task'[p].op = "submit"
             /\ task'[p].pc = "resolve" /\ task'[p].now = clock /\ task'[p].cur = c
  <2>1. PICK r : /\ task' = [task EXCEPT ![p] = r]
                 /\ r = [Idle EXCEPT !.op = "submit", !.pc = "resolve", !.now = clock, !.cur = c,
                                     !.verdict = v]
    BY <1>5 DEF BeginSubmit
  <2>2. /\ ~r.detached /\ r.op = "submit" /\ r.pc = "resolve"
        /\ r.now = clock /\ r.cur = c
    BY <2>1 DEF Idle
  <2>. QED
    BY <1>2, <2>1, <2>2
<1>6. ASSUME SubmitResolve(p)
      PROVE  /\ Others(p)
             /\ \/ task'[p] = Idle
                \/ SameCall(p) /\ task'[p].pc = FirstLock /\ pending[task[p].cur].status # "none"
  BY <1>2, <1>3, <1>6 DEF SubmitResolve
<1>7. ASSUME SweepPick(p)
      PROVE  /\ Others(p) /\ ~task'[p].detached /\ task'[p].op = task[p].op
             /\ task'[p].now = task[p].now /\ task'[p].pc = FirstLock
             /\ task'[p].todo \subseteq task[p].todo /\ task'[p].cur \in task[p].todo
  <2>1. PICK c \in task[p].todo :
          task' = [task EXCEPT ![p] = [@ EXCEPT !.pc = FirstLock, !.cur = c,
                                                !.todo = task[p].todo \ {c}]]
    BY <1>7 DEF SweepPick
  <2>2. task' = [task EXCEPT ![p] =
                   [task[p] EXCEPT !.pc = FirstLock, !.cur = c, !.todo = task[p].todo \ {c}]]
    BY <1>1, <2>1 DEF Task
  <2>. QED
    BY <1>1, <1>2, <2>2 DEF Task
<1>8. AcquireStore(p) => Others(p) /\ SameCall(p) /\ task'[p].pc = "agentLock"
  BY <1>3 DEF AcquireStore
<1>9. AcquireAgent(p) =>
        /\ Others(p) /\ SameCall(p)
        /\ task'[p].pc = IF task[p].op = "ingest" THEN "read" ELSE "check"
  BY <1>3 DEF AcquireAgent
<1>10. Fail(p) =>
         /\ Others(p)
         /\ \/ task'[p] = Idle
            \/ SameCall(p) /\ task[p].pc \in Inside /\ task'[p].pc = "failed"
  BY <1>2, <1>3 DEF Fail
<1>. QED
  BY <1>4, <1>5, <1>6, <1>7, <1>8, <1>9, <1>10

-----------------------------------------------------------------------------
(* Locks.                                                                  *)

\* No guard is held in an engine that has just been opened.
LEMMA LockInvInit == Init => LockInv
  BY DEF Init, LockInv, Guarded, Idle, Inside

\* A step of p that takes no lock from another task concerns p alone.
LEMMA LockInvStep ==
  ASSUME LockInv, NEW p \in Proc, Others(p), Guarded(p)',
         \A q \in Proc \ {p} :
            /\ \A a \in Agent : agentLock[a] = q => agentLock'[a] = q
            /\ storeLock = q => storeLock' = q,
         TypeInv
  PROVE  LockInv'
<1>. SUFFICES ASSUME NEW q \in Proc \ {p} PROVE Guarded(q)'
  BY DEF LockInv
<1>1. task'[q] = task[q] /\ Guarded(q)
  BY DEF Others, LockInv
<1>2. task[q].pc \in Inside => AgentOf[task[q].cur] \in Agent
  BY AdjudicationAssumption DEF TypeInv, ClaimInv
<1>. QED
  BY <1>1, <1>2 DEF Guarded

\* Every step of a call that is not dropped keeps the guards with their calls.
LEMMA LockInvPreserved ==
  ASSUME Cancellable = FALSE, TypeInv, StepInv, LockInv, NEW p \in Proc,
         \/ Step(p) \/ Fail(p) \/ Cancel(p) \/ BeginSweep(p)
         \/ \E c \in Claim : BeginIngest(p, c)
         \/ \E c \in Claim, v \in Verdict : BeginSubmit(p, c, v)
  PROVE  LockInv'
<1>1. Guarded(p) /\ ~task[p].detached
  BY DEF LockInv, Guarded
<1>2. FirstLock \in Waiting /\ (FirstLock = "agentLock" => ~GlobalLock)
  BY DEF FirstLock, Waiting
<1>3. Guarded(p)' /\ UNCHANGED locks /\ Others(p) => LockInv'
  BY LockInvStep DEF locks
<1>4. CASE UnderLocks(p) \/ IngestRead(p)
  <2>1. /\ Others(p) /\ SameCall(p) /\ UNCHANGED locks
        /\ task[p].pc \in Inside /\ task'[p].pc \in Inside
    BY <1>4, UnderLocksFields, ReadFields DEF Inside
  <2>2. Guarded(p)'
    BY <1>1, <2>1 DEF Guarded, SameCall, locks
  <2>. QED
    BY <1>3, <2>1, <2>2
<1>5. CASE Release(p) \/ BeginSweep(p) \/ SweepList(p) \/ SweepPhaseEnd(p)
  <2>1. Others(p) /\ task'[p].pc \in {"next", "idle", "list"} /\ ~task'[p].detached
    BY <1>1, <1>5, OutsideFields
  <2>2. Guarded(p)'
    BY <2>1 DEF Guarded, Inside
  <2>3. \A q \in Proc \ {p} :
           /\ \A a \in Agent : agentLock[a] = q => agentLock'[a] = q
           /\ storeLock = q => storeLock' = q
    BY <1>5 DEF Release, FreeLocksOf, BeginSweep, SweepList, SweepPhaseEnd, locks
  <2>. QED
    BY <2>1, <2>2, <2>3, LockInvStep
<1>6. CASE AcquireStore(p)
  <2>1. Others(p) /\ SameCall(p) /\ task'[p].pc = "agentLock"
    BY <1>1, <1>6, WaitingFields
  <2>2. Guarded(p)'
    BY <1>1, <1>6, <2>1 DEF Guarded, SameCall, AcquireStore, Inside
  <2>3. \A q \in Proc \ {p} :
           /\ \A a \in Agent : agentLock[a] = q => agentLock'[a] = q
           /\ storeLock = q => storeLock' = q
    BY <1>6, AdjudicationAssumption DEF AcquireStore
  <2>. QED
    BY <2>1, <2>2, <2>3, LockInvStep
<1>7. CASE AcquireAgent(p)
  <2> DEFINE a == AgentOf[task[p].cur]
  <2>1. Others(p) /\ SameCall(p) /\ task'[p].pc \in Inside
    BY <1>1, <1>7, WaitingFields DEF Inside
  <2>2. a \in Agent
    BY <1>7, AdjudicationAssumption DEF AcquireAgent, TypeInv, ClaimInv, Waiting
  <2>3. agentLock'[a] = p /\ \A b \in Agent : agentLock[b] # Nobody => agentLock'[b] = agentLock[b]
    BY <1>7, <2>2 DEF AcquireAgent, TypeInv, TypeOK
  <2>4. Guarded(p)'
    BY <1>1, <1>7, <2>1, <2>3 DEF Guarded, SameCall, AcquireAgent
  <2>5. \A q \in Proc \ {p} :
           /\ \A b \in Agent : agentLock[b] = q => agentLock'[b] = q
           /\ storeLock = q => storeLock' = q
    BY <1>7, <2>3, AdjudicationAssumption DEF AcquireAgent
  <2>. QED
    BY <2>1, <2>4, <2>5, LockInvStep
<1>8. CASE SubmitResolve(p) \/ SweepPick(p)
           \/ (\E c \in Claim : BeginIngest(p, c))
           \/ (\E c \in Claim, v \in Verdict : BeginSubmit(p, c, v))
  <2>1. UNCHANGED locks
    BY <1>8 DEF SubmitResolve, SweepPick, BeginIngest, BeginSubmit
  <2>2. /\ Others(p) /\ ~task'[p].detached
        /\ task'[p].pc \in {"idle", "resolve", FirstLock}
    BY <1>1, <1>8, WaitingFields DEF SameCall, Idle
  <2>3. Guarded(p)'
    BY <1>2, <2>2 DEF Guarded, Inside, Waiting
  <2>. QED
    BY <1>3, <2>1, <2>2, <2>3
<1>9. CASE Fail(p)
  <2>1. UNCHANGED locks
    BY <1>9 DEF Fail
  <2>2. ASSUME SameCall(p), task[p].pc \in Inside, task'[p].pc = "failed" PROVE Guarded(p)'
    BY <1>1, <2>1, <2>2 DEF Guarded, SameCall, locks, Inside
  <2>3. ASSUME task'[p] = Idle PROVE Guarded(p)'
    BY <2>3 DEF Guarded, Idle, Inside
  <2>4. Others(p) /\ Guarded(p)'
    BY <1>1, <1>9, <2>2, <2>3, WaitingFields
  <2>. QED
    BY <1>3, <2>1, <2>4
<1>10. CASE Cancel(p)
  BY <1>10 DEF Cancel
<1>. QED
  BY <1>4, <1>5, <1>6, <1>7, <1>8, <1>9, <1>10 DEF Step, UnderLocks


\* The part of the invariant that is about locks and program counters only.
PathInv == TypeInv /\ StepInv /\ LockInv

\* Types, operations and guards are kept together by every step.
LEMMA PathInvStep ==
  ASSUME Cancellable = FALSE, PathInv, [Next]_vars
  PROVE  PathInv'
<1>1. TypeInv'
  BY TypeStep DEF PathInv
<1>2. CASE UNCHANGED vars
  <2>1. StepInv' /\ LockInv'
    BY <1>2 DEF PathInv, StepInv, LockInv, Guarded, vars, locks
  <2>. QED
    BY <1>1, <2>1 DEF PathInv
<1>3. CASE Tick
  <2>1. StepInv' /\ LockInv'
    BY <1>3 DEF PathInv, StepInv, LockInv, Guarded, Tick, locks
  <2>. QED
    BY <1>1, <2>1 DEF PathInv
<1>4. CASE Crash
  <2>1. \A p \in Proc : task'[p] = Idle
    BY <1>4 DEF Crash
  <2>2. StepInv' /\ LockInv'
    BY <2>1, IdleInStep DEF StepInv, LockInv, Guarded, Idle, Inside
  <2>. QED
    BY <1>1, <2>2 DEF PathInv
<1>5. ASSUME NEW p \in Proc,
             \/ Step(p) \/ Fail(p) \/ Cancel(p) \/ BeginSweep(p)
             \/ \E c \in Claim : BeginIngest(p, c)
             \/ \E c \in Claim, v \in Verdict : BeginSubmit(p, c, v)
      PROVE  PathInv'
  <2>1. StepInv'
    BY <1>5, StepInvGoto, StepInvOther DEF PathInv, Step
  <2>2. LockInv'
    BY <1>5, LockInvPreserved DEF PathInv
  <2>. QED
    BY <1>1, <2>1, <2>2 DEF PathInv
<1>. QED
  BY <1>2, <1>3, <1>4, <1>5 DEF Next

\* Mutual exclusion: with any number of tasks and agents, two calls are never both
\* between acquiring and dropping the guards of one agent (of any two agents, when the
\* adapter asks for store-wide serialization).
THEOREM Exclusion ==
  ASSUME Cancellable = FALSE
  PROVE  Spec => []MutualExclusion
<1>1. Init => PathInv
  BY InitType, StepInvInit, LockInvInit DEF PathInv, TypeInv, Init, ClaimInv, Idle, Inside, Waiting
<1>2. PathInv /\ [Next]_vars => PathInv'
  BY PathInvStep
<1>3. PathInv => MutualExclusion
  BY DEF PathInv, LockInv, Guarded, MutualExclusion
<1>. QED
  BY <1>1, <1>2, <1>3, PTL DEF Spec

-----------------------------------------------------------------------------
(* What a step appends to the ledger.                                      *)

Writer(p) == IngestCommit(p) \/ SubmitApply(p) \/ Revert(p)

\* Why p writes.
CauseOf(p) ==
  CASE task[p].pc = "apply"  -> task[p].verdict
    [] task[p].pc = "commit" -> "ingest"
    [] OTHER                 -> IF task[p].op = "orphan" THEN "orphan" ELSE "expiry"

\* p appends the entry e[d] to every claim d of D, and to no other.
Writes(p, D, e) ==
  /\ task[p].cur \in D /\ task[p].pc \in {"commit", "apply", "revert"}
  /\ \A d \in Claim : ledger'[d] = IF d \in D THEN Append(ledger[d], e[d]) ELSE ledger[d]
  /\ \A d \in D : /\ AgentOf[d] = AgentOf[task[p].cur]
                  /\ \/ d = task[p].cur
                     \/ task[p].pc = "apply" /\ d = pending[task[p].cur].incumbent
                  /\ e[d].at = task[p].now /\ e[d].about = task[p].cur
                  /\ ~Committed(d) => task[p].pc = "commit" /\ d = task[p].cur
                  /\ e[d].disp = "Queued" => ~Committed(d)
                  /\ e[d].by = CauseOf(p)

\* Only a committed claim is queued.
LEMMA QueuedCommitted ==
  ASSUME TypeOK, NEW c \in Claim, Queued(c)
  PROVE  Committed(c)
  BY DEF Queued, HasDisposition, IsLatest, Committed, TypeOK

\* Every step that writes to the ledger appends at most one entry to each claim.
LEMMA WriterWrites ==
  ASSUME IInv, NEW p \in Proc, Writer(p)
  PROVE  \E D \in SUBSET Claim, e \in [Claim -> Entry] : Writes(p, D, e)
<1> DEFINE c == task[p].cur
<1>1. c \in Claim
  BY DEF Writer, IngestCommit, SubmitApply, Revert, IInv, ClaimInv, Inside
<1>2. task \in [Proc -> Task] /\ ledger \in [Claim -> Seq(Entry)]
  BY DEF IInv, TypeOK
<1>3. \A d \in Disp, b \in Cause : Note(c, d, p, b) \in Entry
  BY <1>1, <1>2, NoteType
<1>4. CASE IngestCommit(p)
  <2> DEFINE e == [d \in Claim |-> Note(c, task[p].disp, p, "ingest")]
  <2>1. e \in [Claim -> Entry]
    BY <1>2, <1>3 DEF Task, Cause
  <2>2. ~Committed(c)
    BY <1>4 DEF IngestCommit, IInv, TaskInv, OnTime, StepInv, InStep
  <2>3. Writes(p, {c}, e)
    BY <1>1, <1>2, <1>4, <2>2 DEF Writes, IngestCommit, Note, CauseOf
  <2>. QED
    BY <1>1, <2>1, <2>3
<1>5. CASE Revert(p)
  <2> DEFINE b == IF task[p].op = "orphan" THEN "orphan" ELSE "expiry"
             e == [d \in Claim |-> Note(c, "Contested", p, b)]
  <2>1. e \in [Claim -> Entry]
    BY <1>3 DEF Disp, Cause
  <2>2. Committed(c)
    BY <1>1, <1>5, QueuedCommitted DEF Revert, IInv, GuardInv
  <2>3. Writes(p, {c}, e)
    BY <1>1, <1>2, <1>5, <2>2 DEF Writes, Revert, Note, CauseOf
  <2>. QED
    BY <1>1, <2>1, <2>3
<1>6. CASE SubmitApply(p)
  <2> DEFINE i == pending[c].incumbent
  <2>1. c \in WithRow /\ Committed(c) /\ task[p].pc = "apply"
    BY <1>6 DEF SubmitApply, IInv, TaskInv, OnTime, StepInv, InStep
  <2>2. i \in Claim /\ i # c /\ AgentOf[i] = AgentOf[c] /\ Committed(i)
    BY <1>1, <2>1, AdjudicationAssumption DEF IInv, IncumbentInv, Opposes
  <2>3. CASE task[p].verdict = "affirm" /\ Affirm(p, c, i)
    <3> DEFINE e == [d \in Claim |->
                       Note(c, IF d = c THEN "Cheap" ELSE "Superseded", p, "affirm")]
    <3>1. e \in [Claim -> Entry]
      BY <1>3 DEF Disp, Cause, Verdict
    <3>2. Writes(p, {c, i}, e)
      BY <1>1, <2>1, <2>2, <2>3 DEF Writes, Affirm, NoteOn, Note, CauseOf
    <3>. QED
      BY <1>1, <2>2, <3>1, <3>2
  <2>4. CASE task[p].verdict = "deny" /\ Deny(p, c)
    <3> DEFINE e == [d \in Claim |-> Note(c, "Superseded", p, "deny")]
    <3>1. e \in [Claim -> Entry]
      BY <1>3 DEF Disp, Cause, Verdict
    <3>2. Writes(p, {c}, e)
      BY <1>1, <2>1, <2>4 DEF Writes, Deny, NoteOn, Note, CauseOf
    <3>. QED
      BY <1>1, <3>1, <3>2
  <2>5. CASE task[p].verdict = "unknown" /\ Abstain(p, c, i)
    <3> DEFINE e == [d \in Claim |-> Note(c, "Contested", p, "unknown")]
    <3>1. e \in [Claim -> Entry]
      BY <1>3 DEF Disp, Cause, Verdict
    <3>2. Writes(p, {c, i}, e)
      BY <1>1, <2>1, <2>2, <2>5 DEF Writes, Abstain, NoteOn, Note, CauseOf
    <3>. QED
      BY <1>1, <2>2, <3>1, <3>2
  <2>. QED
    BY <1>6, <2>3, <2>4, <2>5 DEF SubmitApply
<1>. QED
  BY <1>4, <1>5, <1>6 DEF Writer

\* Appending leaves the old entries where they are.
LEMMA Appended ==
  ASSUME NEW s \in Seq(Entry), NEW e \in Entry
  PROVE  /\ DOMAIN Append(s, e) = DOMAIN s \cup {Len(s) + 1}
         /\ Len(s) + 1 \notin DOMAIN s
         /\ \A k \in DOMAIN s : Append(s, e)[k] = s[k]
         /\ Append(s, e)[Len(s) + 1] = e
         /\ Append(s, e) # <<>>
         /\ Len(s) \in Nat /\ DOMAIN s = 1..Len(s)
         /\ (s = <<>>) <=> (Len(s) = 0)
  BY AppendProperties, EmptySeq

\* The ledger only grows: a committed claim stays committed and keeps its first entry.
LEMMA LedgerGrows ==
  ASSUME TypeOK, NEW p \in Proc, NEW D \in SUBSET Claim, NEW e \in [Claim -> Entry],
         Writes(p, D, e), NEW c \in Claim, Committed(c)
  PROVE  Committed(c)' /\ ledger'[c][1] = ledger[c][1]
<1>1. ledger[c] \in Seq(Entry) /\ e[c] \in Entry
  BY DEF TypeOK
<1>2. 1 \in DOMAIN ledger[c]
  BY <1>1, Appended DEF Committed
<1>3. /\ Append(ledger[c], e[c]) # <<>>
      /\ Append(ledger[c], e[c])[1] = ledger[c][1]
  BY <1>1, <1>2, Appended
<1>4. ledger'[c] \in {ledger[c], Append(ledger[c], e[c])}
  BY DEF Writes
<1>. QED
  BY <1>3, <1>4 DEF Committed

\* The heart of the argument: a queued claim has had no verdict.
LEMMA QueuedUnanswered ==
  ASSUME TypeOK, LedgerInv, NEW c \in Claim, Queued(c)
  PROVE  Caused(c, Verdict) = {}
<1>1. PICK k \in DOMAIN ledger[c] : IsLatest(c, k) /\ ledger[c][k].disp = "Queued"
  BY DEF Queued, HasDisposition
<1>2. k = 1
  BY <1>1 DEF LedgerInv
<1>3. ledger[c] \in Seq(Entry)
  BY DEF TypeOK
<1>. SUFFICES ASSUME NEW j \in Caused(c, Verdict) PROVE FALSE
  OBVIOUS
<1>4. j \in DOMAIN ledger[c]
  BY DEF Caused
<1>5. j > 1 /\ ledger[c][1].at <= ledger[c][j].at
  BY <1>4 DEF LedgerInv
<1>6. ledger[c][j].at < ledger[c][1].at \/ (ledger[c][j].at = ledger[c][1].at /\ j <= 1)
  BY <1>1, <1>2, <1>4 DEF IsLatest
<1>7. ledger[c][1] \in Entry /\ ledger[c][j] \in Entry /\ j \in Nat
  BY <1>1, <1>2, <1>3, <1>4
<1>8. ledger[c][1].at \in Nat /\ ledger[c][j].at \in Nat
  BY <1>7, AdjudicationAssumption DEF Entry, Time
<1>. QED
  BY <1>5, <1>6, <1>7, <1>8

\* The entries of c with a verdict, after p has appended.
LEMMA CausedAfter ==
  ASSUME TypeOK, NEW p \in Proc, NEW D \in SUBSET Claim, NEW e \in [Claim -> Entry],
         Writes(p, D, e), NEW c \in Claim
  PROVE  \/ Caused(c, Verdict)' = Caused(c, Verdict)
         \/ /\ c \in D /\ c = task[p].cur /\ task[p].pc = "apply"
            /\ Caused(c, Verdict)' = Caused(c, Verdict) \cup {Len(ledger[c]) + 1}
<1>1. ledger[c] \in Seq(Entry) /\ e[c] \in Entry
  BY DEF TypeOK
<1>2. CASE c \notin D
  BY <1>2 DEF Writes, Caused
<1>3. CASE c \in D
  <2> DEFINE n == Len(ledger[c]) + 1
  <2>1. /\ DOMAIN ledger'[c] = DOMAIN ledger[c] \cup {n}
        /\ n \notin DOMAIN ledger[c]
        /\ \A k \in DOMAIN ledger[c] : ledger'[c][k] = ledger[c][k]
        /\ ledger'[c][n] = e[c]
    <3>1. ledger'[c] = Append(ledger[c], e[c])
      BY <1>3 DEF Writes
    <3>. QED
      BY <1>1, <3>1, Appended
  <2>2. CASE e[c].about = c /\ e[c].by \in Verdict
    <3>1. c = task[p].cur /\ task[p].pc = "apply"
      BY <1>3, <2>2 DEF Writes, CauseOf, Verdict
    <3>2. Caused(c, Verdict)' = Caused(c, Verdict) \cup {n}
      BY <2>1, <2>2 DEF Caused
    <3>. QED
      BY <1>3, <3>1, <3>2
  <2>3. CASE ~(e[c].about = c /\ e[c].by \in Verdict)
    BY <2>1, <2>3 DEF Caused
  <2>. QED
    BY <2>2, <2>3
<1>. QED
  BY <1>2, <1>3

\* A ledger write applies no verdict a second time.
LEMMA VerdictOnceStep ==
  ASSUME IInv, NEW p \in Proc, NEW D \in SUBSET Claim, NEW e \in [Claim -> Entry],
         Writes(p, D, e)
  PROVE  VerdictOnce'
<1>. SUFFICES ASSUME NEW c \in Claim PROVE (\A j, k \in Caused(c, Verdict) : j = k)'
  BY DEF VerdictOnce
<1>1. CASE Caused(c, Verdict)' = Caused(c, Verdict)
  BY <1>1 DEF IInv, VerdictOnce
<1>2. CASE /\ c \in D /\ c = task[p].cur /\ task[p].pc = "apply"
           /\ Caused(c, Verdict)' = Caused(c, Verdict) \cup {Len(ledger[c]) + 1}
  <2>1. Queued(c)
    BY <1>2 DEF IInv, GuardInv
  <2>2. Caused(c, Verdict) = {}
    BY <2>1, QueuedUnanswered DEF IInv
  <2>. QED
    BY <1>2, <2>2
<1>. QED
  BY <1>1, <1>2, CausedAfter DEF IInv

\* A ledger write keeps the shape of the ledger.
LEMMA LedgerInvStep ==
  ASSUME IInv, TypeOK', NEW p \in Proc, NEW D \in SUBSET Claim, NEW e \in [Claim -> Entry],
         Writes(p, D, e), clock' = clock
  PROVE  LedgerInv'
<1>. SUFFICES ASSUME NEW c \in Claim, NEW k \in DOMAIN ledger'[c]
              PROVE  /\ ledger'[c][k].at <= clock'
                     /\ ledger'[c][k].disp = "Queued" => k = 1
                     /\ k \in Caused(c, Verdict)' => k > 1 /\ ledger'[c][1].at <= ledger'[c][k].at
  BY DEF LedgerInv
<1>1. ledger[c] \in Seq(Entry) /\ e[c] \in Entry
  BY DEF IInv, TypeOK
<1>2. CASE k \in DOMAIN ledger[c]
  <2>1. ledger'[c][k] = ledger[c][k] /\ ledger[c] # <<>>
    <3>1. ledger'[c] \in {ledger[c], Append(ledger[c], e[c])}
      BY DEF Writes
    <3>2. Append(ledger[c], e[c])[k] = ledger[c][k] /\ ledger[c] # <<>>
      BY <1>1, <1>2, Appended
    <3>. QED
      BY <3>1, <3>2
  <2>2. ledger'[c][1] = ledger[c][1]
    BY <2>1, LedgerGrows DEF IInv, Committed
  <2>3. k \in Caused(c, Verdict)' => k \in Caused(c, Verdict)
    BY <1>2, <2>1 DEF Caused
  <2>. QED
    BY <1>2, <2>1, <2>2, <2>3 DEF IInv, LedgerInv
<1>3. CASE k \notin DOMAIN ledger[c]
  <2>1. c \in D /\ k = Len(ledger[c]) + 1 /\ ledger'[c][k] = e[c] /\ Len(ledger[c]) \in Nat
        /\ (Committed(c) <=> Len(ledger[c]) # 0)
    <3>1. c \in D
      BY <1>3 DEF Writes
    <3>2. ledger'[c] = Append(ledger[c], e[c])
      BY <3>1 DEF Writes
    <3>3. /\ DOMAIN Append(ledger[c], e[c]) = DOMAIN ledger[c] \cup {Len(ledger[c]) + 1}
          /\ Append(ledger[c], e[c])[Len(ledger[c]) + 1] = e[c]
          /\ Len(ledger[c]) \in Nat /\ ((ledger[c] = <<>>) <=> (Len(ledger[c]) = 0))
      BY <1>1, Appended
    <3>. QED
      BY <1>3, <3>1, <3>2, <3>3 DEF Committed
  <2>2. e[c].at = task[p].now /\ task[p].now <= clock
    BY <2>1 DEF Writes, IInv, TaskInv, OnTime
  <2>3. e[c].disp = "Queued" => k = 1
    BY <2>1 DEF Writes
  <2>4. ASSUME k \in Caused(c, Verdict)'
        PROVE  k > 1 /\ ledger'[c][1].at <= ledger'[c][k].at
    <3>1. c = task[p].cur /\ task[p].pc = "apply"
      BY <2>1, <2>4 DEF Writes, Caused, CauseOf, Verdict
    <3>2. Committed(c) /\ ledger[c][1].at <= task[p].now
      BY <3>1 DEF IInv, TaskInv, OnTime, StepInv, InStep
    <3>3. ledger'[c][1] = ledger[c][1]
      BY <3>2, LedgerGrows DEF IInv
    <3>. QED
      BY <2>1, <2>2, <3>2, <3>3
  <2>. QED
    BY <2>1, <2>2, <2>3, <2>4
<1>. QED
  BY <1>2, <1>3


-----------------------------------------------------------------------------
(* What a step of p may change for everybody else.                         *)

Calls(p) ==
  \/ Step(p) \/ Fail(p) \/ BeginSweep(p)
  \/ \E c \in Claim : BeginIngest(p, c)
  \/ \E c \in Claim, v \in Verdict : BeginSubmit(p, c, v)

\* Claims and rows only come into being; a claim does by the commit of its ingest.
Effects(p) ==
  /\ Others(p) /\ clock' = clock
  /\ \A c \in Claim : Committed(c) => Committed(c)' /\ ledger'[c][1] = ledger[c][1]
  /\ \A c \in Claim : Committed(c)' /\ ~Committed(c) => task[p].pc = "commit" /\ c = task[p].cur
  /\ WithRow \subseteq WithRow'

\* What a step of a call does to the pending table.
LEMMA PendingEffects ==
  ASSUME IInv, NEW p \in Proc, Calls(p)
  PROVE  \/ /\ WithRow' = WithRow
            /\ \A c \in Claim : pending'[c].incumbent = pending[c].incumbent
         \/ /\ task[p].pc = "insert" /\ WithRow' = WithRow \cup {task[p].cur}
            /\ \A c \in Claim : pending'[c].incumbent =
                  IF c = task[p].cur THEN task[p].inc ELSE pending[c].incumbent
<1>. USE DEF WithRow, TypeOK, Row
<1>1. CASE IngestInsert(p)
  <2>1. task[p].cur \in Claim
    BY <1>1 DEF IngestInsert, IInv, ClaimInv, Inside
  <2>. QED
    BY <1>1, <2>1 DEF IngestInsert, IInv
<1>2. CASE SubmitMark(p)
  <2>1. task[p].cur \in WithRow
    BY <1>2 DEF SubmitMark, IInv, TaskInv, OnTime, StepInv, InStep
  <2>. QED
    BY <1>2, <2>1 DEF SubmitMark, IInv
<1>3. CASE MarkExpired(p)
  <2>1. task[p].op \in {"submit", "expire"}
    BY <1>3 DEF MarkExpired, IInv, StepInv, InStep, Task, Sweep
  <2>2. task[p].cur \in WithRow
    BY <1>3, <2>1 DEF MarkExpired, IInv, TaskInv, OnTime, Inside
  <2>. QED
    BY <1>3, <2>2 DEF MarkExpired, IInv
<1>4. CASE UNCHANGED pending
  BY <1>4
<1>. QED
  BY <1>1, <1>2, <1>3, <1>4
  DEF Calls, Step, AcquireStore, AcquireAgent, Release, IngestRead, IngestCommit, IngestAsk,
      SubmitResolve, SubmitCheck, SubmitApply, SweepList, SweepPick, SweepPhaseEnd, SweepCheck,
      Revert, Fail, BeginSweep, BeginIngest, BeginSubmit, durable

\* A step of a call that is no writer leaves the ledger alone.
LEMMA LedgerEffects ==
  ASSUME IInv, NEW p \in Proc, Calls(p)
  PROVE  UNCHANGED ledger \/ Writer(p)
  BY DEF Writer, Calls, Step, AcquireStore, AcquireAgent, Release, IngestRead, IngestAsk, IngestInsert,
      SubmitResolve, SubmitCheck, SubmitMark, SweepList, SweepPick, SweepPhaseEnd, SweepCheck,
      MarkExpired, Fail, BeginSweep, BeginIngest, BeginSubmit, durable

\* A step of one call leaves the other calls and the clock alone.
LEMMA RecordEffects ==
  ASSUME IInv, NEW p \in Proc, Calls(p)
  PROVE  Others(p) /\ clock' = clock
<1>1. TypeInv /\ StepInv /\ ~task[p].detached
  BY DEF IInv, TypeInv, LockInv, Guarded
<1>2. CASE UnderLocks(p)
  BY <1>1, <1>2, UnderLocksFields
<1>3. CASE IngestRead(p)
  BY <1>1, <1>3, ReadFields
<1>4. CASE Release(p) \/ BeginSweep(p) \/ SweepList(p) \/ SweepPhaseEnd(p)
  BY <1>1, <1>4, OutsideFields
<1>5. CASE \/ SubmitResolve(p) \/ SweepPick(p) \/ AcquireStore(p) \/ AcquireAgent(p) \/ Fail(p)
           \/ \E c \in Claim : BeginIngest(p, c)
           \/ \E c \in Claim, v \in Verdict : BeginSubmit(p, c, v)
  <2>1. clock' = clock
    BY <1>5 DEF SubmitResolve, SweepPick, AcquireStore, AcquireAgent, Fail, BeginIngest, BeginSubmit
  <2>. QED
    BY <1>1, <1>5, <2>1, WaitingFields
<1>. QED
  BY <1>2, <1>3, <1>4, <1>5 DEF Calls, Step, UnderLocks

\* The three frames together.
LEMMA CallEffects ==
  ASSUME IInv, NEW p \in Proc, Calls(p)
  PROVE  Effects(p)
<1>1. Others(p) /\ clock' = clock /\ WithRow \subseteq WithRow'
  BY RecordEffects, PendingEffects DEF IInv
<1>2. CASE UNCHANGED ledger
  BY <1>1, <1>2 DEF Effects, Committed
<1>3. CASE Writer(p)
  <2>1. PICK D \in SUBSET Claim, e \in [Claim -> Entry] : Writes(p, D, e)
    BY <1>3, WriterWrites
  <2>2. \A c \in Claim : Committed(c) => Committed(c)' /\ ledger'[c][1] = ledger[c][1]
    BY <2>1, LedgerGrows DEF IInv
  <2>3. \A c \in Claim : Committed(c)' /\ ~Committed(c) => task[p].pc = "commit" /\ c = task[p].cur
    BY <2>1 DEF Writes, Committed
  <2>. QED
    BY <1>1, <2>2, <2>3 DEF Effects
<1>. QED
  BY <1>2, <1>3, LedgerEffects

-----------------------------------------------------------------------------
(* TaskInv.                                                                *)

\* What the tasks other than p know stays true.
LEMMA OthersOnTime ==
  ASSUME IInv, NEW p \in Proc, Effects(p), NEW q \in Proc \ {p}
  PROVE  OnTime(q)'
<1>1. OnTime(q) /\ task'[q] = task[q] /\ clock' = clock /\ WithRow \subseteq WithRow'
  BY DEF IInv, TaskInv, Effects, Others
<1>2. ASSUME task[q].op = "ingest", task[q].pc \in Waiting \cup {"read", "commit"}
      PROVE  ~Committed(task[q].cur)'
  <2>1. task[q].cur \in Claim /\ ~Committed(task[q].cur)
    BY <1>1, <1>2 DEF OnTime, IInv, ClaimInv, Inside
  <2>2. task[p].pc = "commit" => task[p].op = "ingest"
    BY DEF IInv, StepInv, InStep
  <2>3. task[p].op = "ingest" => task[p].cur # task[q].cur
    BY <1>2 DEF IInv, TaskInv, OneIngest
  <2>4. Committed(task[q].cur)' /\ ~Committed(task[q].cur)
          => task[p].pc = "commit" /\ task[q].cur = task[p].cur
    BY <1>1, <2>1 DEF Effects, Committed
  <2>. QED
    BY <2>1, <2>2, <2>3, <2>4
<1>3. ASSUME task[q].cur \in Claim, Committed(task[q].cur)
      PROVE  Committed(task[q].cur)' /\ ledger'[task[q].cur][1] = ledger[task[q].cur][1]
  BY <1>1, <1>3 DEF Effects, Committed
<1>4. task[q].pc \in {"ask", "insert"} => task[q].cur \in Claim
  BY DEF IInv, ClaimInv, Inside
<1>5. task[q].op = "submit" => task[q].cur \in Claim
  <2>1. task[q].op = "submit" => task[q].pc \notin {"list", "next", "idle"}
    BY DEF IInv, StepInv, InStep, Sweep
  <2>2. task[q].pc \in Pc
    BY DEF IInv, TypeOK, Task, Pc
  <2>. QED
    BY <2>1, <2>2 DEF IInv, ClaimInv, Pc, Reading
<1>. QED
  BY <1>1, <1>2, <1>3, <1>4, <1>5 DEF OnTime

\* A step under the locks keeps what its call knows of its claim.
LEMMA OnTimeUnderLocks ==
  ASSUME IInv, NEW p \in Proc, Effects(p), UnderLocks(p) \/ IngestRead(p)
  PROVE  OnTime(p)' /\ (task'[p].op = "ingest" => task[p].op = "ingest" /\ task'[p].cur = task[p].cur)
<1>1. TypeInv /\ OnTime(p) /\ task[p].cur \in Claim
  BY DEF IInv, TypeInv, TaskInv, ClaimInv, Inside, UnderLocks, IngestRead, IngestCommit, IngestAsk,
         IngestInsert, SubmitCheck, SubmitApply, SubmitMark, SweepCheck, Revert, MarkExpired
<1>2. /\ SameCall(p) /\ task[p].pc \in Inside /\ task'[p].pc \in Inside
      /\ task'[p].pc \in {"read", "commit"} => IngestRead(p)
  BY <1>1, UnderLocksFields, ReadFields DEF Inside
<1>3. /\ clock' = clock /\ WithRow \subseteq WithRow'
      /\ Committed(task[p].cur) => Committed(task[p].cur)'
                                   /\ ledger'[task[p].cur][1] = ledger[task[p].cur][1]
  BY <1>1, <1>2 DEF Effects, Committed, SameCall
<1>4. ASSUME IngestRead(p) PROVE Committed(task[p].cur)' = Committed(task[p].cur)
  BY <1>2, <1>4 DEF IngestRead, durable, Committed, SameCall
<1>5. ASSUME task'[p].pc \in {"ask", "insert"} PROVE Committed(task[p].cur)'
  <2>1. CASE IngestCommit(p)
    <3>1. Note(task[p].cur, task[p].disp, p, "ingest") \in Entry /\ ledger[task[p].cur] \in Seq(Entry)
      BY <1>1, NoteType DEF TypeInv, TypeOK, Task, Cause
    <3>2. ledger'[task[p].cur] =
            Append(ledger[task[p].cur], Note(task[p].cur, task[p].disp, p, "ingest"))
      BY <1>1, <2>1 DEF IngestCommit, TypeInv, TypeOK
    <3>. QED
      BY <1>2, <3>1, <3>2, Appended DEF Committed, SameCall
  <2>2. CASE IngestAsk(p)
    BY <1>1, <1>3, <2>2 DEF IngestAsk, OnTime
  <2>3. CASE ~IngestCommit(p) /\ ~IngestAsk(p)
    <3>1. \A l : Goto(p, l) => task'[p].pc = l
      BY <1>1, GotoFields DEF TypeInv, TypeOK
    <3>2. task'[p].pc \notin {"ask", "insert"}
      <4>1. CASE IngestRead(p)
        BY <1>1, <4>1, ReadFields
      <4>2. CASE UnderLocks(p)
        BY <3>1, <2>3, <4>2 DEF UnderLocks, IngestInsert, SubmitCheck, SubmitApply, SubmitMark, SweepCheck,
           Revert, MarkExpired
      <4>. QED
        BY <4>1, <4>2
    <3>. QED
      BY <1>5, <3>2
  <2>. QED
    BY <2>1, <2>2, <2>3
<1>6. (task[p].pc = "read" /\ IngestRead(p)) \/ ~IngestRead(p)
  BY DEF IngestRead
<1>7. task[p].pc # "resolve" /\ task'[p].pc \notin Waiting
  BY <1>2 DEF Inside, Waiting
<1>. QED
  BY <1>1, <1>2, <1>3, <1>4, <1>5, <1>6, <1>7 DEF OnTime, SameCall, Committed

\* A call that returns or lists knows nothing yet, or what it has listed.
LEMMA OnTimeOutside ==
  ASSUME IInv, NEW p \in Proc,
         Release(p) \/ BeginSweep(p) \/ SweepList(p) \/ SweepPhaseEnd(p)
  PROVE  OnTime(p)' /\ task'[p].op # "ingest"
<1>1. /\ TypeInv /\ StepInv /\ OnTime(p) /\ ~task[p].detached /\ clock \in Nat
  BY AdjudicationAssumption DEF IInv, TypeInv, TypeOK, Time, TaskInv, LockInv, Guarded
<1>2. /\ task'[p].pc \in {"next", "idle", "list"} /\ task'[p].op \in {"none"} \cup Sweep
      /\ task'[p].now \in {0, task[p].now, clock} /\ Listed(p, task'[p])
      /\ UNCHANGED <<clock, durable>>
  BY <1>1, OutsideFields
<1>3. task'[p].op = "expire" => task'[p].todo \subseteq WithRow'
  BY <1>1, <1>2 DEF Listed, OnTime, WithRow, durable
<1>4. task'[p].now <= clock'
  BY <1>1, <1>2 DEF OnTime
<1>. QED
  BY <1>2, <1>3, <1>4 DEF OnTime, Sweep, Inside, Waiting

\* A call on its way to the locks keeps what it knows of its claim.
LEMMA OnTimeWaiting ==
  ASSUME IInv, NEW p \in Proc, Effects(p),
         SubmitResolve(p) \/ SweepPick(p) \/ AcquireStore(p) \/ AcquireAgent(p) \/ Fail(p)
  PROVE  OnTime(p)' /\ (task'[p].op = "ingest" => task[p].op = "ingest" /\ task'[p].cur = task[p].cur)
<1>1. /\ TypeInv /\ OnTime(p) /\ InStep(task[p]) /\ ~task[p].detached /\ clock \in Nat
  BY AdjudicationAssumption
  DEF IInv, TypeInv, TypeOK, Time, TaskInv, LockInv, Guarded, StepInv
<1>2. clock' = clock /\ UNCHANGED durable /\ WithRow' = WithRow
      /\ \A c : Committed(c)' = Committed(c)
  BY DEF SubmitResolve, SweepPick, AcquireStore, AcquireAgent, Fail, durable, Committed, WithRow
<1>3. ledger' = ledger
  BY <1>2 DEF durable
<1>4. CASE task'[p] = Idle
  BY <1>1, <1>2, <1>4 DEF OnTime, Idle, Inside, Waiting
<1>5. CASE SubmitResolve(p) /\ SameCall(p) /\ task'[p].pc = FirstLock
           /\ pending[task[p].cur].status # "none"
  <2>1. task[p].pc = "resolve" /\ task[p].op = "submit" /\ task[p].cur \in WithRow
    BY <1>1, <1>5 DEF SubmitResolve, InStep, IInv, ClaimInv, WithRow
  <2>2. task'[p].pc \notin {"ask", "insert"}
    BY <1>5, FirstLockType DEF Waiting
  <2>. QED
    BY <1>1, <1>2, <1>3, <1>5, <2>1, <2>2 DEF OnTime, SameCall, Committed
<1>6. CASE SweepPick(p)
  <2>1. /\ task'[p].op = task[p].op /\ task'[p].now = task[p].now /\ task'[p].pc = FirstLock
        /\ task'[p].todo \subseteq task[p].todo /\ task'[p].cur \in task[p].todo
    BY <1>1, <1>6, WaitingFields
  <2>2. task[p].op \in Sweep /\ task'[p].pc \notin {"ask", "insert"}
    BY <1>1, <1>6, <2>1, FirstLockType DEF SweepPick, InStep, Waiting
  <2>. QED
    BY <1>1, <1>2, <2>1, <2>2 DEF OnTime, Sweep
<1>7. CASE AcquireStore(p) \/ AcquireAgent(p)
  <2>1. SameCall(p) /\ task[p].pc \in Waiting
        /\ task'[p].pc \in {"agentLock", "check"} \cup (IF task[p].op = "ingest" THEN {"read"} ELSE {})
    BY <1>1, <1>7, WaitingFields DEF AcquireStore, AcquireAgent, Waiting
  <2>2. task[p].pc # "resolve" /\ task'[p].pc \notin {"ask", "insert"}
    BY <2>1 DEF Waiting
  <2>. QED
    BY <1>1, <1>2, <1>3, <2>1, <2>2 DEF OnTime, SameCall, Committed
<1>8. CASE SameCall(p) /\ task[p].pc \in Inside /\ task'[p].pc = "failed"
  <2>1. task[p].pc # "resolve"
    BY <1>8 DEF Inside
  <2>. QED
    BY <1>1, <1>2, <1>3, <1>8, <2>1 DEF OnTime, SameCall, Committed, Waiting
<1>. QED
  BY <1>1, <1>4, <1>5, <1>6, <1>7, <1>8, WaitingFields

\* A call that begins reads the clock, and ingests a claim nobody else ingests.
LEMMA OnTimeBegin ==
  ASSUME IInv, NEW p \in Proc
  PROVE  /\ \A c \in Claim : BeginIngest(p, c) =>
              OnTime(p)' /\ \A q \in Proc \ {p} : task[q].op = "ingest" => task[q].cur # task'[p].cur
         /\ \A c \in Claim, v \in Verdict : BeginSubmit(p, c, v) =>
              OnTime(p)' /\ task'[p].op # "ingest"
<1>1. TypeInv /\ ~task[p].detached /\ clock \in Nat
  BY AdjudicationAssumption DEF IInv, TypeInv, TypeOK, Time, LockInv, Guarded
<1>2. ASSUME NEW c \in Claim, BeginIngest(p, c)
      PROVE  OnTime(p)' /\ \A q \in Proc \ {p} : task[q].op = "ingest" => task[q].cur # task'[p].cur
  <2>1. /\ task'[p].op = "ingest" /\ task'[p].pc = FirstLock /\ task'[p].now = clock
        /\ task'[p].cur = c
    BY <1>1, <1>2, WaitingFields
  <2>2. ~Committed(c) /\ clock' = clock /\ ledger' = ledger
        /\ \A q \in Proc : task[q].op = "ingest" => task[q].cur # c
    BY <1>2 DEF BeginIngest, durable
  <2>3. task'[p].pc \notin {"ask", "insert"}
    BY <2>1, FirstLockType DEF Waiting
  <2>. QED
    BY <1>1, <2>1, <2>2, <2>3 DEF OnTime, Committed
<1>3. ASSUME NEW c \in Claim, NEW v \in Verdict, BeginSubmit(p, c, v)
      PROVE  OnTime(p)' /\ task'[p].op # "ingest"
  <2>1. /\ task'[p].op = "submit" /\ task'[p].pc = "resolve" /\ task'[p].now = clock
        /\ task'[p].cur = c
    BY <1>1, <1>3, WaitingFields
  <2>2. c \in asked /\ clock' = clock /\ ledger' = ledger
    BY <1>3 DEF BeginSubmit, durable
  <2>3. Committed(c) /\ 1 \in DOMAIN ledger[c]
    BY <1>1, <2>2, EmptySeq DEF IInv, IncumbentInv, Committed, TypeInv, TypeOK
  <2>4. ledger[c][1].at <= clock
    BY <2>3 DEF IInv, LedgerInv
  <2>. QED
    BY <1>1, <2>1, <2>2, <2>3, <2>4 DEF OnTime, Committed
<1>. QED
  BY <1>2, <1>3

\* Every step of a call keeps what the calls know of their claims.
LEMMA TaskInvStep ==
  ASSUME IInv, NEW p \in Proc, Calls(p)
  PROVE  TaskInv'
<1>1. Effects(p)
  BY CallEffects
<1>2. \A q \in Proc \ {p} : OnTime(q)' /\ task'[q] = task[q]
  BY <1>1, OthersOnTime DEF Effects, Others
<1>3. /\ OnTime(p)'
      /\ \A q \in Proc \ {p} : task'[p].op = "ingest" /\ task[q].op = "ingest"
                                 => task'[p].cur # task[q].cur
  <2>1. \A q \in Proc \ {p} : OneIngest(p, q)
    BY DEF IInv, TaskInv
  <2>2. CASE UnderLocks(p) \/ IngestRead(p)
    BY <1>1, <2>1, <2>2, OnTimeUnderLocks DEF OneIngest
  <2>3. CASE Release(p) \/ BeginSweep(p) \/ SweepList(p) \/ SweepPhaseEnd(p)
    BY <2>3, OnTimeOutside
  <2>4. CASE SubmitResolve(p) \/ SweepPick(p) \/ AcquireStore(p) \/ AcquireAgent(p) \/ Fail(p)
    BY <1>1, <2>1, <2>4, OnTimeWaiting DEF OneIngest
  <2>5. CASE \/ \E c \in Claim : BeginIngest(p, c)
             \/ \E c \in Claim, v \in Verdict : BeginSubmit(p, c, v)
    BY <2>5, OnTimeBegin
  <2>. QED
    BY <2>2, <2>3, <2>4, <2>5 DEF Calls, Step, UnderLocks
<1>4. \A q, r \in Proc : OneIngest(q, r)'
  <2>. SUFFICES ASSUME NEW q \in Proc, NEW r \in Proc PROVE OneIngest(q, r)'
    OBVIOUS
  <2>1. CASE q # p /\ r # p
    BY <1>2, <2>1 DEF IInv, TaskInv, OneIngest
  <2>2. CASE q = p \/ r = p
    BY <1>2, <1>3, <2>2 DEF OneIngest
  <2>. QED
    BY <2>1, <2>2
<1>. QED
  BY <1>2, <1>3, <1>4 DEF TaskInv


-----------------------------------------------------------------------------
(* The guard of a write, and the incumbents.                               *)

\* No writer touches a claim that another call has checked under its lock.
LEMMA GuardInvStep ==
  ASSUME IInv, NEW p \in Proc, Calls(p)
  PROVE  GuardInv'
<1>. SUFFICES ASSUME NEW q \in Proc, task'[q].pc \in {"apply", "revert"}
              PROVE  Queued(task[q].cur)'
  BY DEF GuardInv
<1>1. TypeInv /\ StepInv /\ Effects(p) /\ ~task[p].detached
  BY CallEffects DEF IInv, TypeInv, LockInv, Guarded
<1>2. ASSUME task'[q].cur = task[q].cur, Queued(task[q].cur),
             ledger'[task[q].cur] = ledger[task[q].cur]
      PROVE  Queued(task[q].cur)'
  BY <1>2 DEF Queued, HasDisposition, IsLatest
<1>3. CASE q # p
  <2>1. task'[q] = task[q] /\ task[q].pc \in Inside /\ task[q].cur \in Claim
    BY <1>1, <1>3 DEF Effects, Others, Inside, IInv, ClaimInv
  <2>2. Queued(task[q].cur)
    BY <2>1 DEF IInv, GuardInv
  <2>3. CASE UNCHANGED ledger
    BY <1>2, <2>1, <2>2, <2>3
  <2>4. CASE Writer(p)
    <3>1. PICK D \in SUBSET Claim, e \in [Claim -> Entry] : Writes(p, D, e)
      BY <2>4, WriterWrites
    <3>2. task[p].pc \in Inside
      BY <2>4 DEF Writer, IngestCommit, SubmitApply, Revert, Inside
    <3>3. agentLock[AgentOf[task[p].cur]] = p /\ agentLock[AgentOf[task[q].cur]] = q
      BY <2>1, <3>2 DEF IInv, LockInv, Guarded
    <3>4. task[q].cur \notin D
      BY <1>3, <3>1, <3>3 DEF Writes
    <3>. QED
      BY <1>2, <2>1, <2>2, <3>1, <3>4 DEF Writes
  <2>. QED
    BY <2>3, <2>4, LedgerEffects
<1>4. CASE q = p
  <2>1. CASE UnderLocks(p)
    <3>1. SameCall(p)
      BY <1>1, <2>1, UnderLocksFields
    <3>2. \A l : Goto(p, l) => task'[p].pc = l
      BY <1>1, GotoFields DEF TypeInv, TypeOK
    <3>3. SubmitCheck(p) \/ SweepCheck(p)
      BY <1>4, <2>1, <3>2 DEF UnderLocks, IngestCommit, IngestAsk, IngestInsert, SubmitApply,
         SubmitMark, Revert, MarkExpired
    <3>4. Queued(task[p].cur) /\ ledger' = ledger
      BY <1>4, <3>2, <3>3 DEF SubmitCheck, SweepCheck, durable
    <3>. QED
      BY <1>2, <1>4, <3>1, <3>4 DEF SameCall
  <2>2. CASE IngestRead(p)
    BY <1>1, <1>4, <2>2, ReadFields
  <2>3. CASE Release(p) \/ BeginSweep(p) \/ SweepList(p) \/ SweepPhaseEnd(p)
    BY <1>1, <1>4, <2>3, OutsideFields
  <2>4. CASE \/ SubmitResolve(p) \/ SweepPick(p) \/ AcquireStore(p) \/ AcquireAgent(p) \/ Fail(p)
             \/ \E c \in Claim : BeginIngest(p, c)
             \/ \E c \in Claim, v \in Verdict : BeginSubmit(p, c, v)
    <3>1. task'[p].pc \in Waiting \cup {"idle", "resolve", "read", "check", "failed"}
      BY <1>1, <2>4, WaitingFields, FirstLockType DEF Idle, Waiting
    <3>. QED
      BY <1>4, <3>1 DEF Waiting
  <2>. QED
    BY <2>1, <2>2, <2>3, <2>4 DEF Calls, Step, UnderLocks
<1>. QED
  BY <1>3, <1>4

\* Every step keeps the incumbent of an adjudication a committed claim of the line.
LEMMA IncumbentInvStep ==
  ASSUME IInv, NEW p \in Proc, Calls(p)
  PROVE  IncumbentInv'
<1>1. TypeInv /\ StepInv /\ Effects(p) /\ ~task[p].detached
  BY CallEffects DEF IInv, TypeInv, LockInv, Guarded
<1>2. ASSUME NEW i, NEW c, Opposes(i, c) PROVE i \in Claim \ {c} /\ LineOf[i] = LineOf[c] /\ ledger'[i] # <<>>
  BY <1>1, <1>2 DEF Opposes, Effects, Committed
<1>3. ASSUME NEW q \in Proc, task'[q].pc \in {"commit", "ask", "insert"}, task'[q].disp = "Queued"
      PROVE  Opposes(task[q].inc, task[q].cur)'
  <2>1. ASSUME task'[q].inc = task[q].inc, task'[q].cur = task[q].cur,
               task[q].pc \in {"commit", "ask", "insert"}, task[q].disp = "Queued"
        PROVE  Opposes(task[q].inc, task[q].cur)'
    BY <1>2, <2>1 DEF IInv, IncumbentInv, Opposes, Committed
  <2>2. CASE q # p
    BY <1>1, <1>3, <2>1, <2>2 DEF Effects, Others
  <2>3. CASE q = p /\ UnderLocks(p)
    <3>1. SameCall(p) /\ task'[p].disp = task[p].disp /\ task'[p].inc = task[p].inc
      BY <1>1, <2>3, UnderLocksFields
    <3>2. \A l : Goto(p, l) => task'[p].pc = l
      BY <1>1, GotoFields DEF TypeInv, TypeOK
    <3>3. task[p].pc \in {"commit", "ask", "insert"}
      BY <1>3, <2>3, <3>2 DEF UnderLocks, IngestCommit, IngestAsk, IngestInsert, SubmitCheck,
         SubmitApply, SubmitMark, SweepCheck, Revert, MarkExpired
    <3>. QED
      BY <1>3, <2>1, <2>3, <3>1, <3>3 DEF SameCall
  <2>4. CASE q = p /\ IngestRead(p)
    <3>1. /\ SameCall(p) /\ UNCHANGED <<clock, durable>>
          /\ task'[p].disp # "Queued"
             \/ task'[p].inc \in Incumbents(task[p].cur, task[p].now)
      BY <1>1, <2>4, ReadFields
    <3>3. task'[p].inc \in Incumbents(task[p].cur, task[p].now)
      BY <1>3, <2>4, <3>1
    <3>4. Opposes(task'[p].inc, task[p].cur)
      BY <3>3 DEF Incumbents, Live, Closed, Opposes
    <3>. QED
      BY <2>4, <3>1, <3>4 DEF Opposes, SameCall, Committed, durable
  <2>5. CASE q = p /\ (Release(p) \/ BeginSweep(p) \/ SweepList(p) \/ SweepPhaseEnd(p))
    BY <1>1, <1>3, <2>5, OutsideFields
  <2>6. CASE /\ q = p
             /\ \/ SubmitResolve(p) \/ SweepPick(p) \/ AcquireStore(p) \/ AcquireAgent(p) \/ Fail(p)
                \/ \E c \in Claim : BeginIngest(p, c)
                \/ \E c \in Claim, v \in Verdict : BeginSubmit(p, c, v)
    <3>1. task'[p].pc \in Waiting \cup {"idle", "resolve", "read", "check", "failed"}
      BY <1>1, <2>6, WaitingFields, FirstLockType DEF Idle, Waiting
    <3>. QED
      BY <1>3, <2>6, <3>1 DEF Waiting
  <2>. QED
    BY <2>2, <2>3, <2>4, <2>5, <2>6 DEF Calls, Step, UnderLocks
<1>4. ASSUME NEW c \in WithRow' PROVE Opposes(pending[c].incumbent, c)'
  <2>1. CASE c \in WithRow /\ pending'[c].incumbent = pending[c].incumbent
    BY <1>2, <2>1 DEF IInv, IncumbentInv, Opposes, Committed
  <2>2. CASE /\ task[p].pc = "insert" /\ c = task[p].cur
             /\ pending'[c].incumbent = task[p].inc
    <3>1. Opposes(task[p].inc, task[p].cur)
      BY <2>2 DEF IInv, IncumbentInv, StepInv, InStep
    <3>. QED
      BY <1>2, <2>2, <3>1 DEF Opposes, Committed
  <2>3. c \in Claim
    BY DEF WithRow
  <2>. QED
    BY <2>1, <2>2, <2>3, PendingEffects
<1>5. ASSUME NEW c \in asked' PROVE Committed(c)'
  <2>1. c \in asked \/ (IngestAsk(p) /\ c = task[p].cur)
    BY DEF Calls, Step, AcquireStore, AcquireAgent, Release, IngestRead, IngestCommit, IngestAsk,
       IngestInsert, SubmitResolve, SubmitCheck, SubmitApply, SubmitMark, SweepList, SweepPick,
       SweepPhaseEnd, SweepCheck, Revert, MarkExpired, Fail, BeginSweep, BeginIngest, BeginSubmit,
       durable
  <2>2. c \in Claim /\ Committed(c)
    BY <2>1 DEF IInv, IncumbentInv, TypeOK, IngestAsk, TaskInv, OnTime, ClaimInv, Inside
  <2>. QED
    BY <1>1, <2>2 DEF Effects
<1>. QED
  BY <1>3, <1>4, <1>5 DEF IncumbentInv


-----------------------------------------------------------------------------
(* The invariant.                                                          *)

\* An engine that has just been opened satisfies the inductive invariant.
LEMMA InitIInv == Init => IInv
<1>. SUFFICES ASSUME Init PROVE IInv
  OBVIOUS
<1>1. TypeOK /\ StepInv /\ LockInv
  BY InitType, StepInvInit, LockInvInit
<1>2. \A p \in Proc : task[p] = Idle
  BY DEF Init
<1>3. ClaimInv /\ GuardInv
  BY <1>2 DEF ClaimInv, GuardInv, Idle, Inside, Waiting
<1>4. \A c \in Claim : ledger[c] = IF c \in Seed
        THEN <<[disp |-> "Cheap", at |-> 0, by |-> "ingest", about |-> c]>> ELSE <<>>
  BY DEF Init
<1>5. \A c \in Claim : Caused(c, Verdict) = {}
  <2>. SUFFICES ASSUME NEW c \in Claim, NEW k \in DOMAIN ledger[c]
                PROVE  ledger[c][k].by \notin Verdict
    BY DEF Caused
  <2>1. CASE c \in Seed
    <3>1. ledger[c] = <<[disp |-> "Cheap", at |-> 0, by |-> "ingest", about |-> c]>>
      BY <1>4, <2>1
    <3>2. k = 1
      BY <3>1
    <3>3. ledger[c][1].by = "ingest"
      BY <3>1
    <3>. QED
      BY <3>2, <3>3 DEF Verdict
  <2>2. CASE c \notin Seed
    <3>1. ledger[c] = <<>>
      BY <1>4, <2>2
    <3>. QED
      BY <3>1
  <2>. QED
    BY <2>1, <2>2
<1>6. LedgerInv /\ VerdictOnce
  BY <1>4, <1>5 DEF LedgerInv, VerdictOnce, Init
<1>7. WithRow = {} /\ asked = {}
  BY DEF WithRow, Init, NoRow
<1>8. TaskInv
  BY <1>2 DEF TaskInv, OnTime, OneIngest, Idle, Init, Inside, Waiting
<1>9. IncumbentInv
  BY <1>2, <1>7 DEF IncumbentInv, Idle
<1>. QED
  BY <1>1, <1>3, <1>6, <1>8, <1>9 DEF IInv

\* Every step of a call keeps the ledger in shape and applies no verdict twice.
LEMMA LedgerStep ==
  ASSUME IInv, TypeOK', NEW p \in Proc, Calls(p)
  PROVE  LedgerInv' /\ VerdictOnce'
<1>1. clock' = clock
  BY RecordEffects
<1>2. CASE UNCHANGED ledger
  <2>1. \A c \in Claim : Caused(c, Verdict)' = Caused(c, Verdict)
    BY <1>2 DEF Caused
  <2>. QED
    BY <1>1, <1>2, <2>1 DEF IInv, LedgerInv, VerdictOnce
<1>3. CASE Writer(p)
  <2>1. PICK D \in SUBSET Claim, e \in [Claim -> Entry] : Writes(p, D, e)
    BY <1>3, WriterWrites
  <2>. QED
    BY <1>1, <2>1, LedgerInvStep, VerdictOnceStep
<1>. QED
  BY <1>2, <1>3, LedgerEffects

\* Time passing, a crash and a stuttering step keep what is on disk.
LEMMA QuietStep ==
  ASSUME IInv, UNCHANGED <<ledger, pending, asked>>, clock' \in Nat, clock <= clock',
         \/ task' = task
         \/ \A p \in Proc : task'[p] = Idle
  PROVE  LedgerInv' /\ VerdictOnce' /\ TaskInv' /\ GuardInv' /\ IncumbentInv'
<1>1. \A c \in Claim : Caused(c, Verdict)' = Caused(c, Verdict)
  BY DEF Caused
<1>2. \A c \in Claim : \A k \in DOMAIN ledger[c] : ledger[c][k].at \in Nat
  <2>. SUFFICES ASSUME NEW c \in Claim, NEW k \in DOMAIN ledger[c]
                PROVE  ledger[c][k].at \in Nat
    OBVIOUS
  <2>1. ledger[c] \in Seq(Entry)
    BY DEF IInv, TypeOK
  <2>2. ledger[c][k] \in Entry
    BY <2>1
  <2>. QED
    BY <2>2, AdjudicationAssumption DEF Entry, Time
<1>3. LedgerInv' /\ VerdictOnce'
  <2>1. VerdictOnce'
    BY <1>1 DEF IInv, VerdictOnce
  <2>2. clock \in Nat
    BY AdjudicationAssumption DEF IInv, TypeOK, Time
  <2>. SUFFICES ASSUME NEW c \in Claim, NEW k \in DOMAIN ledger[c]
                PROVE  /\ ledger[c][k].at <= clock'
                       /\ ledger[c][k].disp = "Queued" => k = 1
                       /\ k \in Caused(c, Verdict)
                            => k > 1 /\ ledger[c][1].at <= ledger[c][k].at
    BY <1>1, <2>1 DEF LedgerInv
  <2>3. ledger[c][k].at <= clock
    BY DEF IInv, LedgerInv
  <2>4. ledger[c][k].at <= clock'
    BY <1>2, <2>2, <2>3
  <2>. QED
    BY <2>4 DEF IInv, LedgerInv
<1>4. WithRow' = WithRow
  BY DEF WithRow
<1>5. IncumbentInv' /\ TaskInv' /\ GuardInv'
  <2>1. CASE task' = task
    <3>1. GuardInv'
      BY <2>1 DEF IInv, GuardInv, Queued, HasDisposition, IsLatest
    <3>2. IncumbentInv'
      BY <1>4, <2>1 DEF IInv, IncumbentInv, Opposes, Committed
    <3>3. ASSUME NEW p \in Proc PROVE OnTime(p)' /\ \A q \in Proc : OneIngest(p, q)'
      <4>1. task[p].now \in Nat /\ clock \in Nat
        BY AdjudicationAssumption DEF IInv, TypeOK, Task, Time
      <4>2. OnTime(p) /\ \A q \in Proc : OneIngest(p, q)
        BY DEF IInv, TaskInv
      <4>. QED
        BY <1>4, <2>1, <4>1, <4>2 DEF OnTime, OneIngest, Committed
    <3>. QED
      BY <3>1, <3>2, <3>3 DEF TaskInv
  <2>2. CASE \A p \in Proc : task'[p] = Idle
    <3>1. GuardInv' /\ TaskInv'
      BY <2>2, AdjudicationAssumption
      DEF GuardInv, TaskInv, OnTime, OneIngest, Idle, Inside, Waiting, IInv, TypeOK, Time
    <3>2. IncumbentInv'
      BY <1>4, <2>2 DEF IInv, IncumbentInv, Opposes, Committed, Idle
    <3>. QED
      BY <3>1, <3>2
  <2>. QED
    BY <2>1, <2>2
<1>. QED
  BY <1>3, <1>5

\* Every step of the engine keeps the inductive invariant.
LEMMA NextIInv ==
  ASSUME Cancellable = FALSE, IInv, [Next]_vars
  PROVE  IInv'
<1>1. PathInv' /\ TypeOK' /\ ClaimInv'
  BY PathInvStep DEF IInv, PathInv, TypeInv
<1>2. ASSUME NEW p \in Proc, Calls(p) PROVE IInv'
  BY <1>1, <1>2, LedgerStep, TaskInvStep, GuardInvStep, IncumbentInvStep DEF IInv, PathInv
<1>3. CASE \E p \in Proc : Cancel(p)
  BY <1>3 DEF Cancel
<1>4. CASE UNCHANGED vars \/ Tick \/ Crash
  <2>1. clock \in Nat
    BY AdjudicationAssumption DEF IInv, TypeOK, Time
  <2>2. /\ UNCHANGED <<ledger, pending, asked>> /\ clock' \in Nat /\ clock <= clock'
        /\ task' = task \/ \A p \in Proc : task'[p] = Idle
    BY <1>4, <2>1 DEF vars, durable, Tick, Crash
  <2>. QED
    BY <1>1, <2>2, QuietStep DEF IInv, PathInv
<1>. QED
  BY <1>2, <1>3, <1>4 DEF Next, Calls

\* The verdict on a challenger is applied at most once, for any number of tasks, claims,
\* agents, deliveries, sweeps, errors and crashes, as long as no caller drops a running
\* call (the run AdjudicationCancel shows what happens when one does).
THEOREM VerdictAppliedOnce ==
  ASSUME Cancellable = FALSE
  PROVE  Spec => []VerdictOnce
<1>1. IInv /\ [Next]_vars => IInv'
  BY NextIInv
<1>2. IInv => VerdictOnce
  BY DEF IInv
<1>. QED
  BY InitIInv, <1>1, <1>2, PTL DEF Spec

-----------------------------------------------------------------------------
(* How a challenger is settled: by a verdict or by an expiry and never by  *)
(* both, with a pending table that tells no other outcome than the ledger, *)
(* and, when the verdict affirmed it, with its incumbent out of every      *)
(* later fold.                                                             *)
(*                                                                         *)
(* The argument: a row is due no earlier than its challenger was queued,   *)
(* and an expiry reverts only what is due at the instant it has read, so   *)
(* its entry outranks the one that queued the challenger, as a verdict's   *)
(* does.  Whatever settles a challenger finds it queued, and therefore     *)
(* unsettled.                                                              *)
(*                                                                         *)
(* The same facts show that the lifecycle implements AdjudicationOutcome:  *)
(* an appended entry moves the outcome of the claim it is about, and at    *)
(* most displaces the queued claim that was its incumbent.                 *)

\* A call that still has to mark a row has written what the mark says.
MarkInv ==
  \A p \in Proc :
    /\ task[p].pc = "mark" => Caused(task[p].cur, Verdict) # {}
    /\ task[p].pc = "markExpired" => Caused(task[p].cur, {"expiry"}) # {}

\* A row is due after its challenger was queued, and an expiry works on what is due.
Since(c, t) == Committed(c) /\ ledger[c][1].at <= t
Due(p) ==
  /\ task[p].pc \in {"ask", "insert"} => Since(task[p].cur, task[p].now)
  /\ task[p].op = "expire" =>
       /\ \A c \in task[p].todo : Since(c, task[p].now)
       /\ task[p].pc \in Inside \cup Waiting => Since(task[p].cur, task[p].now)
DueInv ==
  /\ \A c \in WithRow : Since(c, pending[c].expires)
  /\ \A p \in Proc : Due(p)

\* An expiry is never older than the entry that queued its challenger.
ExpiryInv ==
  \A c \in Claim : \A k \in Caused(c, {"expiry"}) : k > 1 /\ ledger[c][1].at <= ledger[c][k].at

\* The incumbent of an affirmed challenger is bounded; an ingest has no row yet.
Displaced(c) == \E t \in bounds[pending[c].incumbent] : t <= clock
AffirmInv ==
  /\ \A c \in Claim : Caused(c, {"affirm"}) # {} => c \in WithRow /\ Displaced(c)
  /\ \A p \in Proc : task[p].op = "ingest" /\ task[p].pc \notin {"done", "failed"}
                       => task[p].cur \notin WithRow

SettleInv ==
  /\ IInv
  /\ RowTellsOutcome /\ MarkInv
  /\ DueInv /\ ExpiryInv /\ ExpiryExcludesVerdict
  /\ AffirmInv

-----------------------------------------------------------------------------
(* The entries a claim has from each cause.                                *)

\* A queued claim has no entry that outranks the one that queued it.
LEMMA QueuedOutranked ==
  ASSUME TypeOK, LedgerInv, NEW c \in Claim, Queued(c), NEW B,
         \A k \in Caused(c, B) : k > 1 /\ ledger[c][1].at <= ledger[c][k].at
  PROVE  Caused(c, B) = {}
<1>1. PICK k \in DOMAIN ledger[c] : IsLatest(c, k) /\ ledger[c][k].disp = "Queued"
  BY DEF Queued, HasDisposition
<1>2. k = 1
  BY <1>1 DEF LedgerInv
<1>. SUFFICES ASSUME NEW j \in Caused(c, B) PROVE FALSE
  OBVIOUS
<1>3. j \in DOMAIN ledger[c] /\ j > 1 /\ ledger[c][1].at <= ledger[c][j].at
  BY DEF Caused
<1>4. ledger[c][j].at < ledger[c][1].at \/ (ledger[c][j].at = ledger[c][1].at /\ j <= 1)
  BY <1>1, <1>2, <1>3 DEF IsLatest
<1>5. ledger[c][1] \in Entry /\ ledger[c][j] \in Entry /\ j \in Nat
  BY <1>1, <1>2, <1>3 DEF TypeOK
<1>6. ledger[c][1].at \in Nat /\ ledger[c][j].at \in Nat
  BY <1>5, AdjudicationAssumption DEF Entry, Time
<1>. QED
  BY <1>3, <1>4, <1>5, <1>6

\* The entries of c from the causes B, after p has appended.
LEMMA CausedGrows ==
  ASSUME TypeOK, NEW p \in Proc, NEW D \in SUBSET Claim, NEW e \in [Claim -> Entry],
         Writes(p, D, e), NEW c \in Claim, NEW B
  PROVE  IF c = task[p].cur /\ CauseOf(p) \in B
           THEN Caused(c, B)' = Caused(c, B) \cup {Len(ledger[c]) + 1}
           ELSE Caused(c, B)' = Caused(c, B)
<1>1. ledger[c] \in Seq(Entry) /\ e[c] \in Entry
  BY DEF TypeOK
<1>2. CASE c \notin D
  BY <1>2 DEF Writes, Caused
<1>3. CASE c \in D
  <2> DEFINE n == Len(ledger[c]) + 1
  <2>1. /\ DOMAIN ledger'[c] = DOMAIN ledger[c] \cup {n}
        /\ n \notin DOMAIN ledger[c]
        /\ \A k \in DOMAIN ledger[c] : ledger'[c][k] = ledger[c][k]
        /\ ledger'[c][n] = e[c]
    <3>1. ledger'[c] = Append(ledger[c], e[c])
      BY <1>3 DEF Writes
    <3>. QED
      BY <1>1, <3>1, Appended
  <2>2. e[c].about = task[p].cur /\ e[c].by = CauseOf(p)
    BY <1>3 DEF Writes
  <2>. HIDE DEF n
  <2>3. CASE c = task[p].cur /\ CauseOf(p) \in B
    <3>1. Caused(c, B)' = Caused(c, B) \cup {n}
      BY <2>1, <2>2, <2>3 DEF Caused
    <3>. QED
      BY <2>3, <3>1 DEF n
  <2>4. CASE ~(c = task[p].cur /\ CauseOf(p) \in B)
    <3>1. Caused(c, B)' = Caused(c, B)
      BY <2>1, <2>2, <2>4 DEF Caused
    <3>. QED
      BY <2>4, <3>1
  <2>. QED
    BY <2>3, <2>4
<1>. QED
  BY <1>2, <1>3

\* No step of a call takes an entry away.
LEMMA CausesKept ==
  ASSUME IInv, NEW p \in Proc, Calls(p), NEW c \in Claim, NEW B
  PROVE  Caused(c, B) \subseteq Caused(c, B)'
<1>1. CASE UNCHANGED ledger
  BY <1>1 DEF Caused
<1>2. CASE Writer(p)
  BY <1>2, WriterWrites, CausedGrows DEF IInv
<1>. QED
  BY <1>1, <1>2, LedgerEffects

\* Who writes, and for what cause.
LEMMA WriterCause ==
  ASSUME IInv, NEW p \in Proc, task[p].pc \in {"commit", "apply", "revert"}
  PROVE  /\ task[p].cur \in Claim
         /\ CauseOf(p) \in Verdict => task[p].pc = "apply" /\ CauseOf(p) = task[p].verdict
         /\ CauseOf(p) = "expiry" => task[p].pc = "revert" /\ task[p].op \in {"submit", "expire"}
<1>1. task[p] \in Task /\ InStep(task[p])
  BY DEF IInv, TypeOK, StepInv
<1>2. task[p].cur \in Claim
  BY DEF IInv, ClaimInv, Inside
<1>3. task[p].verdict \in Verdict /\ task[p].op \in {"none", "ingest", "submit", "expire", "orphan"}
  BY <1>1 DEF Task, Sweep
<1>4. CASE task[p].pc = "apply"
  BY <1>2, <1>3, <1>4 DEF CauseOf, Verdict
<1>5. CASE task[p].pc = "commit"
  BY <1>2, <1>5 DEF CauseOf, Verdict
<1>6. CASE task[p].pc = "revert"
  BY <1>1, <1>2, <1>3, <1>6 DEF CauseOf, Verdict, InStep
<1>. QED
  BY <1>4, <1>5, <1>6

-----------------------------------------------------------------------------
(* What a step that appends does.                                          *)

\* An expiry is never older than the entry that queued its challenger.
LEMMA ExpiryInvStep ==
  ASSUME SettleInv, NEW p \in Proc, Calls(p)
  PROVE  ExpiryInv'
<1>1. IInv /\ TypeOK /\ ExpiryInv /\ OnTime(p) /\ Due(p) /\ Effects(p)
  BY CallEffects DEF SettleInv, IInv, TaskInv, DueInv
<1>2. CASE UNCHANGED ledger
  BY <1>1, <1>2 DEF ExpiryInv, Caused
<1>3. CASE Writer(p)
  <2>1. PICK D \in SUBSET Claim, e \in [Claim -> Entry] : Writes(p, D, e)
    BY <1>1, <1>3, WriterWrites
  <2>. SUFFICES ASSUME NEW c \in Claim, NEW k \in Caused(c, {"expiry"})'
                PROVE  k > 1 /\ ledger'[c][1].at <= ledger'[c][k].at
    BY DEF ExpiryInv
  <2>2. ledger[c] \in Seq(Entry) /\ e[c] \in Entry
    BY <1>1 DEF TypeOK
  <2>3. CASE k \in Caused(c, {"expiry"})
    <3>1. k \in DOMAIN ledger[c] /\ k > 1 /\ ledger[c][1].at <= ledger[c][k].at
      BY <1>1, <2>3 DEF ExpiryInv, Caused
    <3>2. Committed(c)
      BY <2>2, <3>1, Appended DEF Committed
    <3>3. ledger'[c][1] = ledger[c][1]
      BY <1>1, <3>2 DEF Effects
    <3>4. ledger'[c] \in {ledger[c], Append(ledger[c], e[c])}
      BY <2>1 DEF Writes
    <3>5. ledger'[c][k] = ledger[c][k]
      BY <2>2, <3>1, <3>4, Appended
    <3>. QED
      BY <3>1, <3>3, <3>5
  <2>4. CASE k \notin Caused(c, {"expiry"})
    <3>1. c = task[p].cur /\ CauseOf(p) = "expiry" /\ k = Len(ledger[c]) + 1
      BY <1>1, <2>1, <2>4, CausedGrows
    <3>2. task[p].pc = "revert" /\ task[p].op \in {"submit", "expire"}
      BY <1>1, <2>1, <3>1, WriterCause DEF Writes
    <3>3. Since(c, task[p].now)
      BY <1>1, <3>1, <3>2 DEF OnTime, Due, Since, Inside
    <3>4. ledger'[c][1] = ledger[c][1]
      BY <1>1, <3>3 DEF Effects, Since
    <3>5. ledger'[c][k] = e[c] /\ Len(ledger[c]) \in Nat /\ Len(ledger[c]) # 0
      <4>1. ledger'[c] = Append(ledger[c], e[c])
        BY <2>1, <3>1 DEF Writes
      <4>. QED
        BY <2>2, <3>1, <3>3, <4>1, Appended DEF Since, Committed
    <3>6. e[c].at = task[p].now
      BY <2>1, <3>1 DEF Writes
    <3>. QED
      BY <3>1, <3>3, <3>4, <3>5, <3>6 DEF Since
  <2>. QED
    BY <2>3, <2>4
<1>. QED
  BY <1>1, <1>2, <1>3, LedgerEffects

\* A verdict and an expiry never both settle a challenger.
LEMMA ExclusionStep ==
  ASSUME SettleInv, NEW p \in Proc, Calls(p)
  PROVE  ExpiryExcludesVerdict'
<1>1. IInv /\ TypeOK /\ LedgerInv /\ ExpiryInv /\ ExpiryExcludesVerdict
  BY DEF SettleInv, IInv
<1>. SUFFICES ASSUME NEW c \in Claim
              PROVE  (Caused(c, Verdict) = {} \/ Caused(c, {"expiry"}) = {})'
  BY DEF ExpiryExcludesVerdict
<1>2. Caused(c, Verdict) = {} \/ Caused(c, {"expiry"}) = {}
  BY <1>1 DEF ExpiryExcludesVerdict
<1>3. CASE UNCHANGED ledger
  BY <1>2, <1>3 DEF Caused
<1>4. CASE Writer(p)
  <2>1. PICK D \in SUBSET Claim, e \in [Claim -> Entry] : Writes(p, D, e)
    BY <1>1, <1>4, WriterWrites
  <2>2. task[p].pc \in {"commit", "apply", "revert"}
    BY <2>1 DEF Writes
  <2>3. Queued(c) => Caused(c, Verdict) = {} /\ Caused(c, {"expiry"}) = {}
    <3>1. Queued(c) => Caused(c, Verdict) = {}
      BY <1>1, QueuedUnanswered
    <3>2. \A k \in Caused(c, {"expiry"}) : k > 1 /\ ledger[c][1].at <= ledger[c][k].at
      BY <1>1 DEF ExpiryInv
    <3>3. Queued(c) => Caused(c, {"expiry"}) = {}
      BY <1>1, <3>2, QueuedOutranked
    <3>. QED
      BY <3>1, <3>3
  <2>4. CASE c = task[p].cur /\ CauseOf(p) \in Verdict
    <3>1. task[p].pc = "apply" /\ "expiry" \notin Verdict
      BY <1>1, <2>2, <2>4, WriterCause DEF Verdict
    <3>2. Queued(c)
      BY <1>1, <2>4, <3>1 DEF IInv, GuardInv
    <3>3. Caused(c, {"expiry"})' = Caused(c, {"expiry"})
      BY <1>1, <2>1, <2>4, <3>1, CausedGrows
    <3>. QED
      BY <2>3, <3>2, <3>3
  <2>5. CASE c = task[p].cur /\ CauseOf(p) = "expiry"
    <3>1. task[p].pc = "revert" /\ CauseOf(p) \notin Verdict
      BY <1>1, <2>2, <2>5, WriterCause DEF Verdict
    <3>2. Queued(c)
      BY <1>1, <2>5, <3>1 DEF IInv, GuardInv
    <3>3. Caused(c, Verdict)' = Caused(c, Verdict)
      BY <1>1, <2>1, <3>1, CausedGrows
    <3>. QED
      BY <2>3, <3>2, <3>3
  <2>6. CASE ~(c = task[p].cur /\ CauseOf(p) \in Verdict \cup {"expiry"})
    <3>1. Caused(c, Verdict)' = Caused(c, Verdict)
      BY <1>1, <2>1, <2>6, CausedGrows
    <3>2. Caused(c, {"expiry"})' = Caused(c, {"expiry"})
      BY <1>1, <2>1, <2>6, CausedGrows
    <3>. QED
      BY <1>2, <3>1, <3>2
  <2>. QED
    BY <2>4, <2>5, <2>6
<1>. QED
  BY <1>1, <1>3, <1>4, LedgerEffects

-----------------------------------------------------------------------------
(* The pending table.                                                      *)

\* Which step has what to mark.
LEMMA MarkSteps ==
  ASSUME IInv, NEW p \in Proc, Calls(p)
  PROVE  /\ task'[p].pc = "mark" => SubmitApply(p) /\ task[p].pc = "apply"
         /\ task'[p].pc = "markExpired" =>
              Revert(p) /\ task[p].pc = "revert" /\ task[p].op \in {"submit", "expire"}
         /\ task'[p].pc \in {"mark", "markExpired"} => task'[p].cur = task[p].cur
<1>1. TypeInv /\ StepInv /\ InStep(task[p]) /\ ~task[p].detached
  BY DEF IInv, TypeInv, LockInv, Guarded, StepInv
<1>2. \A l : Goto(p, l) => task'[p].pc = l
  BY <1>1, GotoFields DEF TypeInv, TypeOK
<1>3. CASE UnderLocks(p)
  <2>1. SameCall(p)
    BY <1>1, <1>3, UnderLocksFields
  <2>2. task[p].op \in {"none", "ingest", "submit", "expire", "orphan"}
    BY <1>1 DEF TypeInv, TypeOK, Task, Sweep
  <2>3. CASE SubmitApply(p)
    BY <1>2, <2>1, <2>3 DEF SubmitApply, SameCall
  <2>4. CASE Revert(p)
    BY <1>1, <1>2, <2>1, <2>2, <2>4 DEF Revert, SameCall, InStep
  <2>5. CASE ~SubmitApply(p) /\ ~Revert(p)
    <3>1. task'[p].pc \notin {"mark", "markExpired"}
      BY <1>2, <1>3, <2>5 DEF UnderLocks, IngestCommit, IngestAsk, IngestInsert, SubmitCheck,
         SubmitMark, SweepCheck, MarkExpired
    <3>. QED
      BY <3>1
  <2>. QED
    BY <2>3, <2>4, <2>5
<1>4. CASE ~UnderLocks(p)
  <2>1. task'[p].pc \notin {"mark", "markExpired"}
    <3>1. CASE IngestRead(p)
      BY <1>1, <3>1, ReadFields
    <3>2. CASE Release(p) \/ BeginSweep(p) \/ SweepList(p) \/ SweepPhaseEnd(p)
      BY <1>1, <3>2, OutsideFields
    <3>3. CASE \/ SubmitResolve(p) \/ SweepPick(p) \/ AcquireStore(p) \/ AcquireAgent(p) \/ Fail(p)
               \/ \E c \in Claim : BeginIngest(p, c)
               \/ \E c \in Claim, v \in Verdict : BeginSubmit(p, c, v)
      BY <1>1, <3>3, WaitingFields, FirstLockType DEF Waiting, Idle
    <3>. QED
      BY <1>4, <3>1, <3>2, <3>3 DEF Calls, Step, UnderLocks
  <2>. QED
    BY <2>1
<1>. QED
  BY <1>3, <1>4

\* What is still to be marked has been written.
LEMMA MarkInvStep ==
  ASSUME SettleInv, NEW p \in Proc, Calls(p)
  PROVE  MarkInv'
<1>1. IInv /\ TypeOK /\ MarkInv /\ Others(p)
  BY RecordEffects DEF SettleInv, IInv
<1>2. ASSUME NEW q \in Proc, task'[q].pc \in {"mark", "markExpired"}
      PROVE  task'[q].cur \in Claim /\ task'[q].cur = task[q].cur
  <2>1. CASE q = p
    <3>1. task'[p].cur = task[p].cur /\ task[p].pc \in {"apply", "revert"}
      BY <1>1, <1>2, <2>1, MarkSteps
    <3>. QED
      BY <1>1, <2>1, <3>1 DEF IInv, ClaimInv, Inside
  <2>2. CASE q # p
    BY <1>1, <1>2, <2>2 DEF Others, IInv, ClaimInv, Inside
  <2>. QED
    BY <2>1, <2>2
<1>3. ASSUME NEW q \in Proc, NEW d \in Claim, d = task'[q].cur
      PROVE  /\ task'[q].pc = "mark" => Caused(d, Verdict)' # {}
             /\ task'[q].pc = "markExpired" => Caused(d, {"expiry"})' # {}
  <2>1. CASE q # p
    <3>1. task'[q] = task[q] /\ d = task[q].cur
      BY <1>1, <1>3, <2>1 DEF Others
    <3>2. /\ task[q].pc = "mark" => Caused(d, Verdict) # {}
          /\ task[q].pc = "markExpired" => Caused(d, {"expiry"}) # {}
      BY <1>1, <3>1 DEF MarkInv
    <3>3. /\ Caused(d, Verdict) \subseteq Caused(d, Verdict)'
          /\ Caused(d, {"expiry"}) \subseteq Caused(d, {"expiry"})'
      BY <1>1, CausesKept
    <3>. QED
      BY <3>1, <3>2, <3>3
  <2>2. CASE q = p /\ task'[p].pc \in {"mark", "markExpired"}
    <3>1. d = task[p].cur /\ Writer(p)
      BY <1>1, <1>2, <1>3, <2>2, MarkSteps DEF Writer
    <3>2. PICK D \in SUBSET Claim, e \in [Claim -> Entry] : Writes(p, D, e)
      BY <1>1, <3>1, WriterWrites
    <3>3. task[p].verdict \in Verdict
      BY <1>1 DEF TypeOK, Task
    <3>4. task'[p].pc = "mark" => CauseOf(p) \in Verdict
      BY <1>1, <3>3, MarkSteps DEF CauseOf
    <3>5. task'[p].pc = "markExpired" => CauseOf(p) \in {"expiry"}
      BY <1>1, MarkSteps DEF CauseOf
    <3>6. CauseOf(p) \in Verdict => Caused(d, Verdict)' = Caused(d, Verdict) \cup {Len(ledger[d]) + 1}
      BY <1>1, <3>1, <3>2, CausedGrows
    <3>7. CauseOf(p) \in {"expiry"}
            => Caused(d, {"expiry"})' = Caused(d, {"expiry"}) \cup {Len(ledger[d]) + 1}
      BY <1>1, <3>1, <3>2, CausedGrows
    <3>. QED
      BY <2>2, <3>4, <3>5, <3>6, <3>7
  <2>. QED
    BY <2>1, <2>2
<1>. QED
  BY <1>2, <1>3 DEF MarkInv

\* What a step of a call writes to the rows.
LEMMA RowSteps ==
  ASSUME IInv, NEW p \in Proc, Calls(p)
  PROVE  /\ \/ task[p].pc = "insert" /\ IngestInsert(p)
            \/ WithRow' = WithRow /\ \A c \in Claim : pending'[c].expires = pending[c].expires
         /\ \A c \in Claim :
              \/ pending'[c].status \in {"pending", pending[c].status}
              \/ /\ c = task[p].cur /\ task[p].pc = "mark" /\ pending'[c].status = "resolved"
              \/ /\ c = task[p].cur /\ task[p].pc = "markExpired" /\ pending'[c].status = "expired"
<1>1. TypeOK
  BY DEF IInv
<1>2. CASE IngestInsert(p)
  <2>1. task[p].cur \in Claim
    BY <1>2 DEF IngestInsert, IInv, ClaimInv, Inside
  <2>. QED
    BY <1>1, <1>2, <2>1 DEF IngestInsert, TypeOK
<1>3. CASE SubmitMark(p)
  <2>1. task[p].cur \in WithRow
    BY <1>3 DEF SubmitMark, IInv, TaskInv, OnTime, StepInv, InStep
  <2>. QED
    BY <1>1, <1>3, <2>1 DEF SubmitMark, WithRow, TypeOK, Row
<1>4. CASE MarkExpired(p)
  <2>1. task[p].op \in {"submit", "expire"}
    BY <1>4 DEF MarkExpired, IInv, StepInv, InStep, TypeOK, Task, Sweep
  <2>2. task[p].cur \in WithRow
    BY <1>4, <2>1 DEF MarkExpired, IInv, TaskInv, OnTime, Inside
  <2>. QED
    BY <1>1, <1>4, <2>2 DEF MarkExpired, WithRow, TypeOK, Row
<1>5. CASE UNCHANGED pending
  BY <1>5 DEF WithRow
<1>. QED
  BY <1>2, <1>3, <1>4, <1>5
  DEF Calls, Step, AcquireStore, AcquireAgent, Release, IngestRead, IngestCommit, IngestAsk,
      SubmitResolve, SubmitCheck, SubmitApply, SweepList, SweepPick, SweepPhaseEnd, SweepCheck,
      Revert, Fail, BeginSweep, BeginIngest, BeginSubmit, durable

\* No row tells an outcome that the ledger does not hold.
LEMMA RowTellsStep ==
  ASSUME SettleInv, NEW p \in Proc, Calls(p)
  PROVE  RowTellsOutcome'
<1>1. IInv /\ RowTellsOutcome /\ MarkInv
  BY DEF SettleInv
<1>. SUFFICES ASSUME NEW c \in Claim
              PROVE  /\ pending'[c].status = "resolved" => Caused(c, Verdict)' # {}
                     /\ pending'[c].status = "expired" => Caused(c, {"expiry"})' # {}
  BY DEF RowTellsOutcome
<1>2. /\ pending'[c].status = "resolved" => Caused(c, Verdict) # {}
      /\ pending'[c].status = "expired" => Caused(c, {"expiry"}) # {}
  BY <1>1, RowSteps DEF RowTellsOutcome, MarkInv
<1>3. /\ Caused(c, Verdict) \subseteq Caused(c, Verdict)'
      /\ Caused(c, {"expiry"}) \subseteq Caused(c, {"expiry"})'
  BY <1>1, CausesKept
<1>. QED
  BY <1>2, <1>3

-----------------------------------------------------------------------------
(* What is due.                                                            *)

\* The first entry of a claim carries an instant.
LEMMA FirstInstant ==
  ASSUME TypeOK, NEW c \in Claim, Committed(c)
  PROVE  ledger[c][1].at \in Nat
<1>1. ledger[c] \in Seq(Entry) /\ 1 \in DOMAIN ledger[c]
  BY EmptySeq DEF TypeOK, Committed
<1>2. ledger[c][1] \in Entry
  BY <1>1
<1>. QED
  BY <1>2, AdjudicationAssumption DEF Entry, Time

\* What was due stays due.
LEMMA SinceKept ==
  ASSUME IInv, NEW p \in Proc, Calls(p), NEW c \in Claim, NEW t, Since(c, t)
  PROVE  ledger'[c] # <<>> /\ ledger'[c][1].at <= t
  BY CallEffects DEF Since, Effects, Committed

\* A call that is about to ask the oracle has queued its claim at the instant it has read.
LEMMA AskSince ==
  ASSUME SettleInv, NEW p \in Proc, Calls(p), UnderLocks(p) \/ IngestRead(p)
  PROVE  task'[p].pc \in {"ask", "insert"}
           => ledger'[task[p].cur] # <<>> /\ ledger'[task[p].cur][1].at <= task[p].now
<1>1. IInv /\ TypeInv /\ Due(p) /\ OnTime(p) /\ InStep(task[p])
  BY DEF SettleInv, IInv, TypeInv, DueInv, TaskInv, StepInv
<1>2. \A l : Goto(p, l) => task'[p].pc = l
  BY <1>1, GotoFields DEF TypeInv, TypeOK
<1>3. CASE IngestCommit(p)
  <2>1. task[p].cur \in Claim /\ ~Committed(task[p].cur)
    BY <1>1, <1>3 DEF IngestCommit, OnTime, InStep, TypeInv, ClaimInv, Inside
  <2>. DEFINE n == Note(task[p].cur, task[p].disp, p, "ingest")
  <2>2. n \in Entry /\ n.at = task[p].now /\ task[p].now \in Nat
    <3>1. n \in Entry
      BY <1>1, <2>1, NoteType DEF TypeInv, TypeOK, Task, Cause
    <3>2. n.at = task[p].now
      BY DEF Note
    <3>3. n.at \in Nat
      <4>. HIDE DEF n
      <4>. QED
        BY <3>1, AdjudicationAssumption DEF Entry, Time
    <3>. QED
      BY <3>1, <3>2, <3>3
  <2>3. ledger'[task[p].cur] = Append(ledger[task[p].cur], n)
    BY <1>1, <1>3, <2>1 DEF IngestCommit, TypeInv, TypeOK
  <2>4. ledger[task[p].cur] \in Seq(Entry) /\ ledger[task[p].cur] = <<>>
    BY <1>1, <2>1 DEF TypeInv, TypeOK, Committed
  <2>. HIDE DEF n
  <2>5. Append(ledger[task[p].cur], n) # <<>> /\ Append(ledger[task[p].cur], n)[1] = n
    <3>1. Len(ledger[task[p].cur]) + 1 = 1
      BY <2>4
    <3>. QED
      BY <2>2, <2>4, <3>1, Appended
  <2>. QED
    BY <2>2, <2>3, <2>5
<1>4. CASE IngestAsk(p)
  <2>1. task[p].cur \in Claim /\ Since(task[p].cur, task[p].now)
    BY <1>1, <1>4 DEF IngestAsk, Due, TypeInv, ClaimInv, Inside
  <2>. QED
    BY <1>1, <2>1, SinceKept
<1>5. CASE ~IngestCommit(p) /\ ~IngestAsk(p)
  <2>1. task'[p].pc \notin {"ask", "insert"}
    <3>1. CASE IngestRead(p)
      BY <1>1, <3>1, ReadFields
    <3>2. CASE UnderLocks(p)
      BY <1>2, <1>5, <3>2 DEF UnderLocks, IngestInsert, SubmitCheck, SubmitApply, SubmitMark, SweepCheck,
         Revert, MarkExpired
    <3>. QED
      BY <3>1, <3>2
  <2>. QED
    BY <2>1
<1>. QED
  BY <1>3, <1>4, <1>5

\* What p knows to be due.
LEMMA OwnDue ==
  ASSUME SettleInv, NEW p \in Proc, Calls(p)
  PROVE  Due(p)'
<1>1. /\ IInv /\ TypeInv /\ TypeOK /\ StepInv /\ Due(p) /\ OnTime(p) /\ InStep(task[p])
      /\ ~task[p].detached /\ \A c \in WithRow : Since(c, pending[c].expires)
  BY DEF SettleInv, IInv, TypeInv, DueInv, TaskInv, StepInv, LockInv, Guarded
<1>2. task[p].todo \subseteq Claim /\ WithRow \subseteq Claim
  BY <1>1 DEF TypeOK, Task, WithRow
<1>3. \A c \in Claim : \A t : Since(c, t) => ledger'[c] # <<>> /\ ledger'[c][1].at <= t
  BY <1>1, SinceKept
<1>. SUFFICES /\ task'[p].pc \in {"ask", "insert"} =>
                   ledger'[task'[p].cur] # <<>> /\ ledger'[task'[p].cur][1].at <= task'[p].now
              /\ task'[p].op = "expire" =>
                   /\ \A c \in task'[p].todo : ledger'[c] # <<>> /\ ledger'[c][1].at <= task'[p].now
                   /\ task'[p].pc \in Inside \cup Waiting =>
                        ledger'[task'[p].cur] # <<>> /\ ledger'[task'[p].cur][1].at <= task'[p].now
  BY DEF Due, Since, Committed
<1>4. CASE UnderLocks(p) \/ IngestRead(p)
  <2>1. SameCall(p) /\ task[p].pc \in Inside
    BY <1>1, <1>4, UnderLocksFields, ReadFields DEF Inside
  <2>2. task[p].cur \in Claim
    BY <1>1, <2>1 DEF TypeInv, ClaimInv
  <2>. QED
    BY <1>1, <1>2, <1>3, <1>4, <2>1, <2>2, AskSince DEF Due, SameCall
<1>5. CASE Release(p) \/ BeginSweep(p) \/ SweepList(p) \/ SweepPhaseEnd(p)
  <2>1. task'[p].pc \in {"next", "idle", "list"} /\ Listed(p, task'[p])
    BY <1>1, <1>5, OutsideFields
  <2>2. ASSUME task'[p].op = "expire", NEW c \in task'[p].todo
        PROVE  Since(c, task'[p].now) /\ c \in Claim
    <3>1. CASE task'[p].todo \subseteq WithRow /\ \A d \in task'[p].todo : Expired(d, task'[p].now)
      <4>1. c \in Claim /\ Since(c, pending[c].expires) /\ pending[c].expires <= task'[p].now
        BY <1>1, <1>2, <2>2, <3>1 DEF Expired
      <4>2. ledger[c][1].at \in Nat /\ pending[c].expires \in Nat
        BY <1>1, <4>1, FirstInstant DEF Since, TypeOK, Row
      <4>3. task'[p].now \in Nat
        <5>1. task'[p].now \in {0, task[p].now, clock}
          BY <1>1, <1>5, OutsideFields
        <5>. QED
          BY <1>1, <5>1, AdjudicationAssumption DEF TypeOK, Task, Time
      <4>. QED
        BY <4>1, <4>2, <4>3 DEF Since
    <3>2. CASE task[p].op = "expire" /\ task'[p].todo = task[p].todo /\ task'[p].now = task[p].now
      BY <1>1, <1>2, <2>2, <3>2 DEF Due
    <3>. QED
      BY <2>1, <2>2, <3>1, <3>2 DEF Listed
  <2>. QED
    BY <1>3, <2>1, <2>2 DEF Inside, Waiting
<1>6. CASE SubmitResolve(p) \/ SweepPick(p) \/ AcquireStore(p) \/ AcquireAgent(p) \/ Fail(p)
  <2>1. CASE task'[p] = Idle
    BY <2>1 DEF Idle
  <2>2. CASE SweepPick(p)
    <3>1. /\ task'[p].op = task[p].op /\ task'[p].now = task[p].now /\ task'[p].pc = FirstLock
          /\ task'[p].todo \subseteq task[p].todo /\ task'[p].cur \in task[p].todo
      BY <1>1, <2>2, WaitingFields
    <3>2. task'[p].pc \notin {"ask", "insert"}
      BY <3>1, FirstLockType DEF Waiting
    <3>. QED
      BY <1>1, <1>2, <1>3, <3>1, <3>2 DEF Due
  <2>3. CASE /\ SubmitResolve(p) /\ SameCall(p) /\ task'[p].pc = FirstLock
    <3>1. task[p].op = "submit" /\ task'[p].pc \notin {"ask", "insert"}
      BY <1>1, <2>3, FirstLockType DEF SubmitResolve, InStep, Waiting
    <3>. QED
      BY <2>3, <3>1 DEF SameCall
  <2>4. CASE (AcquireStore(p) \/ AcquireAgent(p)) /\ SameCall(p)
    <3>1. task[p].pc \in Waiting /\ task'[p].pc \notin {"ask", "insert"} /\ task[p].cur \in Claim
      BY <1>1, <2>4, WaitingFields DEF AcquireStore, AcquireAgent, Waiting, TypeInv, ClaimInv
    <3>. QED
      BY <1>1, <1>2, <1>3, <2>4, <3>1 DEF Due, SameCall
  <2>5. CASE SameCall(p) /\ task[p].pc \in Inside /\ task'[p].pc = "failed"
    <3>1. task[p].cur \in Claim
      BY <1>1, <2>5 DEF TypeInv, ClaimInv
    <3>. QED
      BY <1>1, <1>2, <1>3, <2>5, <3>1 DEF Due, SameCall
  <2>. QED
    BY <1>1, <1>6, <2>1, <2>2, <2>3, <2>4, <2>5, WaitingFields
<1>7. CASE \/ \E c \in Claim : BeginIngest(p, c)
           \/ \E c \in Claim, v \in Verdict : BeginSubmit(p, c, v)
  <2>1. task'[p].op # "expire" /\ task'[p].pc \in {FirstLock, "resolve"}
    BY <1>1, <1>7, WaitingFields
  <2>. QED
    BY <2>1, FirstLockType DEF Waiting
<1>. QED
  BY <1>4, <1>5, <1>6, <1>7 DEF Calls, Step, UnderLocks

\* Every step of a call keeps what is known to be due.
LEMMA DueInvStep ==
  ASSUME SettleInv, NEW p \in Proc, Calls(p)
  PROVE  DueInv'
<1>1. IInv /\ TypeOK /\ DueInv /\ Others(p)
  BY RecordEffects DEF SettleInv, IInv
<1>2. \A c \in Claim : \A t : Since(c, t) => ledger'[c] # <<>> /\ ledger'[c][1].at <= t
  BY <1>1, SinceKept
<1>3. ASSUME NEW q \in Proc, q # p
      PROVE  Due(q)'
  <2>1. task'[q] = task[q] /\ Due(q)
    BY <1>1, <1>3 DEF Others, DueInv
  <2>2. /\ task[q].todo \subseteq Claim
        /\ task[q].pc \in Inside \cup Waiting => task[q].cur \in Claim
    BY <1>1 DEF IInv, TypeOK, Task, ClaimInv
  <2>3. task[q].pc \in {"ask", "insert"} => task[q].pc \in Inside
    BY DEF Inside
  <2>. QED
    BY <1>2, <2>1, <2>2, <2>3 DEF Due, Since, Committed
<1>4. ASSUME NEW c \in WithRow'
      PROVE  Since(c, pending[c].expires)'
  <2>1. CASE WithRow' = WithRow /\ pending'[c].expires = pending[c].expires
    <3>1. c \in Claim /\ Since(c, pending[c].expires)
      BY <1>1, <1>4, <2>1 DEF DueInv, WithRow
    <3>. QED
      BY <1>2, <2>1, <3>1 DEF Since, Committed
  <2>2. CASE IngestInsert(p) /\ task[p].pc = "insert" /\ c # task[p].cur
    <3>1. c \in WithRow /\ c \in Claim /\ pending'[c] = pending[c]
      BY <1>1, <1>4, <2>2 DEF WithRow, IngestInsert, TypeOK
    <3>2. Since(c, pending[c].expires)
      BY <1>1, <3>1 DEF DueInv
    <3>. QED
      BY <1>2, <3>1, <3>2 DEF Since, Committed
  <2>3. CASE IngestInsert(p) /\ task[p].pc = "insert" /\ c = task[p].cur
    <3>1. Since(c, task[p].now) /\ c \in Claim
      BY <1>1, <1>4, <2>3 DEF DueInv, Due, WithRow
    <3>2. pending'[c].expires = Deadline(task[p].now)
      BY <1>1, <2>3, <3>1 DEF IngestInsert, TypeOK
    <3>3. task[p].now \in 0..MaxTime /\ ledger[c][1].at \in Nat
      BY <1>1, <3>1, FirstInstant DEF TypeOK, Task, Time, Since
    <3>4. Since(c, Deadline(task[p].now))
      BY <3>1, <3>3, AdjudicationAssumption DEF Since, Deadline, Never
    <3>. QED
      BY <1>2, <3>1, <3>2, <3>4 DEF Since, Committed
  <2>4. c \in Claim
    BY <1>4 DEF WithRow
  <2>. QED
    BY <1>1, <2>1, <2>2, <2>3, <2>4, RowSteps
<1>. QED
  BY <1>3, <1>4, OwnDue DEF DueInv

-----------------------------------------------------------------------------
(* What an affirmation displaces.                                          *)

\* Bounds are never taken back.
LEMMA BoundsKept ==
  ASSUME IInv, NEW p \in Proc, Calls(p), NEW i \in Claim
  PROVE  bounds[i] \subseteq bounds'[i]
<1>1. CASE UNCHANGED bounds
  BY <1>1
<1>2. CASE SubmitApply(p)
  BY <1>2 DEF SubmitApply, Affirm, Deny, Abstain, IInv, TypeOK
<1>. QED
  BY <1>1, <1>2
  DEF Calls, Step, AcquireStore, AcquireAgent, Release, IngestRead, IngestCommit, IngestAsk,
      IngestInsert, SubmitResolve, SubmitCheck, SubmitMark, SweepList, SweepPick, SweepPhaseEnd,
      SweepCheck, Revert, MarkExpired, Fail, BeginSweep, BeginIngest, BeginSubmit, durable

\* An ingest that goes on is the one that was under way; one that begins has a new claim.
LEMMA IngestGoesOn ==
  ASSUME SettleInv, NEW p \in Proc, Calls(p), task'[p].op = "ingest",
         task'[p].pc \notin {"done", "failed"}
  PROVE  /\ task[p].pc # "insert" /\ task'[p].cur \notin WithRow
<1>1. /\ IInv /\ TypeInv /\ StepInv /\ Effects(p) /\ InStep(task[p]) /\ ~task[p].detached
      /\ DueInv
      /\ task[p].op = "ingest" /\ task[p].pc \notin {"done", "failed"} => task[p].cur \notin WithRow
  BY CallEffects DEF SettleInv, AffirmInv, IInv, TypeInv, StepInv, LockInv, Guarded
<1>2. CASE UnderLocks(p) \/ IngestRead(p)
  <2>1. task[p].op = "ingest" /\ task'[p].cur = task[p].cur
    BY <1>1, <1>2, UnderLocksFields, ReadFields DEF SameCall
  <2>2. task[p].pc \notin {"done", "failed"}
    BY <1>2 DEF UnderLocks, IngestRead, IngestCommit, IngestAsk, IngestInsert, SubmitCheck, SubmitApply,
       SubmitMark, SweepCheck, Revert, MarkExpired
  <2>3. task[p].pc = "insert" => task'[p].pc = "done"
    <3>1. \A l : Goto(p, l) => task'[p].pc = l
      BY <1>1, GotoFields DEF TypeInv, TypeOK
    <3>. QED
      BY <1>2, <3>1 DEF UnderLocks, IngestRead, IngestCommit, IngestAsk, IngestInsert, SubmitCheck,
         SubmitApply, SubmitMark, SweepCheck, Revert, MarkExpired
  <2>. QED
    BY <1>1, <2>1, <2>2, <2>3
<1>3. CASE Release(p) \/ BeginSweep(p) \/ SweepList(p) \/ SweepPhaseEnd(p)
  BY <1>1, <1>3, OutsideFields DEF Sweep
<1>4. CASE SubmitResolve(p) \/ SweepPick(p) \/ AcquireStore(p) \/ AcquireAgent(p) \/ Fail(p)
  <2>1. task[p].op = "ingest" /\ task'[p].cur = task[p].cur
    BY <1>1, <1>4, OnTimeWaiting
  <2>2. task[p].pc \in Waiting
    <3>1. ~SubmitResolve(p) /\ ~SweepPick(p)
      BY <1>1, <2>1 DEF SubmitResolve, SweepPick, InStep, Sweep
    <3>2. ~Fail(p)
      BY <1>1, <2>1, WaitingFields DEF Idle
    <3>. QED
      BY <1>4, <3>1, <3>2 DEF AcquireStore, AcquireAgent, Waiting
  <2>. QED
    BY <1>1, <2>1, <2>2 DEF Waiting
<1>5. ASSUME NEW c \in Claim, BeginIngest(p, c)
      PROVE  task[p].pc # "insert" /\ task'[p].cur \notin WithRow
  <2>1. task'[p].cur = c
    BY <1>1, <1>5, WaitingFields
  <2>2. c \notin WithRow /\ task[p] = Idle
    BY <1>1, <1>5 DEF BeginIngest, DueInv, Since
  <2>. QED
    BY <2>1, <2>2 DEF Idle
<1>6. ASSUME NEW c \in Claim, NEW v \in Verdict, BeginSubmit(p, c, v)
      PROVE  FALSE
  BY <1>1, <1>6, WaitingFields
<1>. QED
  BY <1>2, <1>3, <1>4, <1>5, <1>6 DEF Calls, Step, UnderLocks

\* Every step of a call keeps the incumbents of affirmed challengers out.
LEMMA AffirmInvStep ==
  ASSUME SettleInv, NEW p \in Proc, Calls(p)
  PROVE  AffirmInv'
<1>1. IInv /\ TypeOK /\ AffirmInv /\ Others(p) /\ clock' = clock
  BY RecordEffects DEF SettleInv, IInv
<1>2. \/ /\ WithRow' = WithRow
         /\ \A c \in Claim : pending'[c].incumbent = pending[c].incumbent
      \/ /\ task[p].pc = "insert" /\ WithRow' = WithRow \cup {task[p].cur}
         /\ \A c \in Claim : pending'[c].incumbent =
               IF c = task[p].cur THEN task[p].inc ELSE pending[c].incumbent
  BY <1>1, PendingEffects
<1>3. task[p].pc = "insert" => task[p].op = "ingest" /\ task[p].cur \notin WithRow
  BY <1>1 DEF AffirmInv, IInv, StepInv, InStep
<1>4. ASSUME NEW c \in Claim, Caused(c, {"affirm"}) # {}
      PROVE  c \in WithRow' /\ Displaced(c)'
  <2>1. c \in WithRow /\ Displaced(c)
    BY <1>1, <1>4 DEF AffirmInv
  <2>2. c \in WithRow' /\ pending'[c].incumbent = pending[c].incumbent
    BY <1>2, <1>3, <2>1
  <2>3. pending[c].incumbent \in Claim
    BY <1>1, <2>1 DEF IInv, IncumbentInv, Opposes
  <2>4. bounds[pending[c].incumbent] \subseteq bounds'[pending[c].incumbent]
    BY <1>1, <2>3, BoundsKept
  <2>. QED
    BY <1>1, <2>1, <2>2, <2>4 DEF Displaced
<1>5. ASSUME NEW c \in Claim, Caused(c, {"affirm"}) = {}, Caused(c, {"affirm"})' # {}
      PROVE  c \in WithRow' /\ Displaced(c)'
  <2>1. Writer(p)
    BY <1>1, <1>5, LedgerEffects DEF Caused
  <2>2. PICK D \in SUBSET Claim, e \in [Claim -> Entry] : Writes(p, D, e)
    BY <1>1, <2>1, WriterWrites
  <2>3. c = task[p].cur /\ CauseOf(p) = "affirm"
    BY <1>1, <1>5, <2>2, CausedGrows
  <2>4. task[p].pc = "apply" /\ task[p].verdict = "affirm"
    BY <1>1, <2>2, <2>3, WriterCause DEF Writes, Verdict
  <2>5. SubmitApply(p)
    BY <2>1, <2>4 DEF Writer, IngestCommit, Revert
  <2>. DEFINE i == pending[c].incumbent
  <2>6. Affirm(p, c, i) /\ pending' = pending
    BY <2>3, <2>4, <2>5 DEF SubmitApply
  <2>7. c \in WithRow /\ task[p].now <= clock
    BY <1>1, <2>3, <2>4 DEF IInv, StepInv, InStep, TaskInv, OnTime
  <2>8. i \in Claim
    BY <1>1, <2>7 DEF IInv, IncumbentInv, Opposes
  <2>9. task[p].now \in bounds'[i]
    BY <1>1, <2>6, <2>8 DEF Affirm, TypeOK
  <2>. QED
    BY <1>1, <2>6, <2>7, <2>9 DEF Displaced, WithRow
<1>6. ASSUME NEW q \in Proc, task'[q].op = "ingest", task'[q].pc \notin {"done", "failed"}
      PROVE  task'[q].cur \notin WithRow'
  <2>1. CASE q = p
    BY <1>2, <1>6, <2>1, IngestGoesOn
  <2>2. CASE q # p
    <3>1. task'[q] = task[q] /\ task[q].cur \notin WithRow
      BY <1>1, <1>6, <2>2 DEF Others, AffirmInv
    <3>2. task[p].op = "ingest" => task[p].cur # task[q].cur
      BY <1>1, <1>6, <2>2, <3>1 DEF IInv, TaskInv, OneIngest
    <3>. QED
      BY <1>2, <1>3, <3>1, <3>2
  <2>. QED
    BY <2>1, <2>2
<1>. QED
  BY <1>4, <1>5, <1>6 DEF AffirmInv

-----------------------------------------------------------------------------
(* The invariant, and what follows.                                        *)

\* Nothing is settled in an engine that has just been opened.
LEMMA SettleInit == Init => SettleInv
<1>. SUFFICES ASSUME Init PROVE SettleInv
  OBVIOUS
<1>1. IInv /\ WithRow = {} /\ \A p \in Proc : task[p] = Idle
  BY InitIInv DEF Init, WithRow, NoRow
<1>2. \A c \in Claim : Caused(c, Verdict \cup {"expiry"}) = {}
  <2>. SUFFICES ASSUME NEW c \in Claim, NEW k \in DOMAIN ledger[c]
                PROVE  ledger[c][k].by \notin Verdict \cup {"expiry"}
    BY DEF Caused
  <2>1. c \in Seed
    BY EmptySeq DEF Init
  <2>2. ledger[c] = <<[disp |-> "Cheap", at |-> 0, by |-> "ingest", about |-> c]>>
    BY <2>1 DEF Init
  <2>3. k = 1
    BY <2>2
  <2>. QED
    BY <2>2, <2>3 DEF Verdict
<1>3. \A c \in Claim : /\ Caused(c, Verdict) = {} /\ Caused(c, {"expiry"}) = {}
                       /\ Caused(c, {"affirm"}) = {}
  BY <1>2 DEF Caused, Verdict
<1>4. RowTellsOutcome
  BY DEF Init, RowTellsOutcome, NoRow
<1>5. MarkInv /\ DueInv
  BY <1>1 DEF MarkInv, DueInv, Due, Idle
<1>6. ExpiryInv /\ ExpiryExcludesVerdict /\ AffirmInv
  BY <1>1, <1>3 DEF ExpiryInv, ExpiryExcludesVerdict, AffirmInv, Idle
<1>. QED
  BY <1>1, <1>4, <1>5, <1>6 DEF SettleInv

\* Time, a crash and a step of nobody settle nothing.
LEMMA SettleQuiet ==
  ASSUME SettleInv, IInv', UNCHANGED <<ledger, bounds, pending>>, clock <= clock', clock' \in Nat,
         \/ task' = task
         \/ \A p \in Proc : task'[p] = Idle
  PROVE  SettleInv'
<1>1. /\ \A c, B : Caused(c, B)' = Caused(c, B)
      /\ WithRow' = WithRow
  BY DEF Caused, WithRow
<1>2. RowTellsOutcome' /\ ExpiryInv' /\ ExpiryExcludesVerdict'
  BY DEF SettleInv, RowTellsOutcome, ExpiryInv, ExpiryExcludesVerdict, Caused
<1>3. \A c \in Claim : Caused(c, {"affirm"})' # {} => c \in WithRow' /\ Displaced(c)'
  <2>. SUFFICES ASSUME NEW c \in Claim, Caused(c, {"affirm"})' # {}
                PROVE  c \in WithRow' /\ Displaced(c)'
    OBVIOUS
  <2>1. c \in WithRow /\ Displaced(c)
    BY <1>1 DEF SettleInv, AffirmInv
  <2>2. pending[c].incumbent \in Claim
    BY <2>1 DEF SettleInv, IInv, IncumbentInv, Opposes
  <2>3. bounds[pending[c].incumbent] \subseteq Nat /\ clock \in Nat
    BY <2>2, AdjudicationAssumption DEF SettleInv, IInv, TypeOK, Time
  <2>. QED
    BY <1>1, <2>1, <2>3 DEF Displaced
<1>4. CASE task' = task
  <2>1. MarkInv' /\ DueInv'
    BY <1>1, <1>4 DEF SettleInv, MarkInv, DueInv, Due, Since, Committed, Caused
  <2>2. AffirmInv'
    BY <1>1, <1>3, <1>4 DEF SettleInv, AffirmInv
  <2>. QED
    BY <1>2, <2>1, <2>2 DEF SettleInv
<1>5. CASE \A p \in Proc : task'[p] = Idle
  <2>1. MarkInv' /\ DueInv'
    BY <1>1, <1>5 DEF SettleInv, MarkInv, DueInv, Due, Since, Committed, Idle
  <2>2. AffirmInv'
    BY <1>3, <1>5 DEF AffirmInv, Idle
  <2>. QED
    BY <1>2, <2>1, <2>2 DEF SettleInv
<1>. QED
  BY <1>4, <1>5

\* Every step of the engine keeps the invariant.
LEMMA NextSettle ==
  ASSUME Cancellable = FALSE, SettleInv, [Next]_vars
  PROVE  SettleInv'
<1>1. IInv /\ IInv'
  BY NextIInv DEF SettleInv
<1>2. ASSUME NEW p \in Proc, Calls(p) PROVE SettleInv'
  BY <1>1, <1>2, RowTellsStep, MarkInvStep, DueInvStep, ExpiryInvStep, ExclusionStep, AffirmInvStep
  DEF SettleInv
<1>3. CASE \E p \in Proc : Cancel(p)
  BY <1>3 DEF Cancel
<1>4. CASE UNCHANGED vars \/ Tick \/ Crash
  <2>1. clock \in Nat
    BY <1>1, AdjudicationAssumption DEF IInv, TypeOK, Time
  <2>2. /\ UNCHANGED <<ledger, bounds, pending>> /\ clock' \in Nat /\ clock <= clock'
        /\ task' = task \/ \A p \in Proc : task'[p] = Idle
    BY <1>4, <2>1 DEF vars, durable, Tick, Crash
  <2>. QED
    BY <1>1, <2>2, SettleQuiet
<1>. QED
  BY <1>2, <1>3, <1>4 DEF Next, Calls

\* The invariant holds as long as no caller drops a running call.
LEMMA Settles ==
  ASSUME Cancellable = FALSE
  PROVE  Spec => []SettleInv
<1>1. SettleInv /\ [Next]_vars => SettleInv'
  BY NextSettle
<1>. QED
  BY SettleInit, <1>1, PTL DEF Spec

\* A late answer and a TTL expiry never both settle a challenger: submit, sweep and the lazy
\* expiry of submit all look at the disposition again under the agent's lock.
THEOREM SettledOneWay ==
  ASSUME Cancellable = FALSE
  PROVE  Spec => []ExpiryExcludesVerdict
<1>1. SettleInv => ExpiryExcludesVerdict
  BY DEF SettleInv
<1>. QED
  BY Settles, <1>1, PTL

\* The pending table is written after the ledger and outside its transaction, and still never
\* claims an outcome that the ledger does not hold (mark_resolved, mark_expired).
THEOREM RowsFollowLedger ==
  ASSUME Cancellable = FALSE
  PROVE  Spec => []RowTellsOutcome
<1>1. SettleInv => RowTellsOutcome
  BY DEF SettleInv
<1>. QED
  BY Settles, <1>1, PTL

\* The incumbent of an affirmed challenger is out of every later fold.
THEOREM AffirmedDisplaces ==
  ASSUME Cancellable = FALSE
  PROVE  Spec => []AffirmDisplaces
<1>1. SettleInv => AffirmDisplaces
  BY DEF SettleInv, AffirmInv, Displaced, AffirmDisplaces, Live, ActiveBound
<1>. QED
  BY Settles, <1>1, PTL

\* A verdict that is written settles a queued challenger: its entry becomes the latest one,
\* although it carries the instant that was read before the locks were taken.
THEOREM VerdictSettles ==
  ASSUME Cancellable = FALSE
  PROVE  Spec => VerdictTakesEffect
<1>1. TypeOK /\ LedgerInv => \A c \in Claim : Queued(c) => Caused(c, Verdict) = {}
  BY QueuedUnanswered
<1>2. (TypeOK /\ LedgerInv => \A c \in Claim : Queued(c) => Caused(c, Verdict) = {})'
  BY <1>1, PTL
<1>3. ASSUME IInv, IInv', [Next]_vars
      PROVE  [\A c \in Claim : Caused(c, Verdict)' # Caused(c, Verdict) => Queued(c) /\ ~Queued(c)']_ledger
  <2>1. CASE UNCHANGED ledger
    BY <2>1
  <2>2. ASSUME NEW p \in Proc, Writer(p), NEW c \in Claim, Caused(c, Verdict)' # Caused(c, Verdict)
        PROVE  Queued(c) /\ ~Queued(c)'
    <3>1. PICK D \in SUBSET Claim, e \in [Claim -> Entry] : Writes(p, D, e)
      BY <1>3, <2>2, WriterWrites
    <3>2. /\ c = task[p].cur /\ CauseOf(p) \in Verdict
          /\ Caused(c, Verdict)' = Caused(c, Verdict) \cup {Len(ledger[c]) + 1}
      BY <1>3, <2>2, <3>1, CausedGrows DEF IInv
    <3>3. task[p].pc = "apply"
      BY <1>3, <3>1, <3>2, WriterCause DEF Writes
    <3>4. Queued(c)
      BY <1>3, <3>2, <3>3 DEF IInv, GuardInv
    <3>5. Queued(c)' => Caused(c, Verdict)' = {}
      BY <1>2, <1>3 DEF IInv
    <3>. QED
      BY <3>2, <3>4, <3>5
  <2>3. UNCHANGED ledger \/ \E p \in Proc : Writer(p)
    <3>1. CASE UNCHANGED vars \/ Tick \/ Crash \/ \E p \in Proc : Cancel(p)
      BY <3>1 DEF vars, durable, Tick, Crash, Cancel
    <3>2. CASE \E p \in Proc : Calls(p)
      BY <1>3, <3>2, LedgerEffects
    <3>. QED
      BY <1>3, <3>1, <3>2 DEF Next, Calls
  <2>. QED
    BY <2>1, <2>2, <2>3
<1>4. IInv /\ [Next]_vars => IInv'
  BY NextIInv
<1>. QED
  BY InitIInv, <1>3, <1>4, PTL DEF Spec, VerdictTakesEffect

-----------------------------------------------------------------------------
(* The refinement of AdjudicationOutcome.                                  *)

\* The first entry of a claim is its ingest's.
FirstInv == \A c \in Claim : Committed(c) => ledger[c][1].by = "ingest"

\* A claim is queued as long as nothing later, or as late, was noted after its first entry.
Outranks(c, j) == j > 1 /\ ledger[c][1].at <= ledger[c][j].at
QueuedFacts ==
  \A c \in Claim :
    Committed(c) => /\ Queued(c) <=> /\ ledger[c][1].disp = "Queued"
                                     /\ \A j \in DOMAIN ledger[c] : ~Outranks(c, j)
                    /\ Queued(c) => Caused(c, Verdict) = {} /\ Reverted(c) = {}

\* What a claim's outcome is read from.
OutcomeFacts ==
  \A c \in Claim :
    /\ ~Committed(c) => OutcomeOf(c) = "absent"
    /\ Committed(c) /\ Queued(c) => OutcomeOf(c) = "queued"
    /\ Committed(c) /\ ~Queued(c) =>
         /\ Caused(c, Verdict) # {} /\ Reverted(c) = {} => OutcomeOf(c) = "answered"
         /\ Caused(c, Verdict) = {} /\ Reverted(c) # {} => OutcomeOf(c) = "reverted"
         /\ Caused(c, Verdict) = {} /\ Reverted(c) = {} =>
              OutcomeOf(c) = IF ledger[c][1].disp = "Queued" THEN "displaced" ELSE "accepted"

\* OutcomeOf, case by case.
LEMMA OutcomeCases == OutcomeFacts
<1>. SUFFICES ASSUME NEW c \in Claim
              PROVE  /\ ~Committed(c) => OutcomeOf(c) = "absent"
                     /\ Committed(c) /\ Queued(c) => OutcomeOf(c) = "queued"
                     /\ Committed(c) /\ ~Queued(c) =>
                          /\ Caused(c, Verdict) # {} /\ Reverted(c) = {} => OutcomeOf(c) = "answered"
                          /\ Caused(c, Verdict) = {} /\ Reverted(c) # {} => OutcomeOf(c) = "reverted"
                          /\ Caused(c, Verdict) = {} /\ Reverted(c) = {} =>
                               OutcomeOf(c) = IF ledger[c][1].disp = "Queued" THEN "displaced" ELSE "accepted"
  BY DEF OutcomeFacts
<1>1. ~Committed(c) => OutcomeOf(c) = "absent"
  BY DEF OutcomeOf
<1>2. Committed(c) /\ Queued(c) => OutcomeOf(c) = "queued"
  BY DEF OutcomeOf
<1>3. ASSUME Committed(c), ~Queued(c), Caused(c, Verdict) # {}, Reverted(c) = {}
      PROVE  OutcomeOf(c) = "answered"
  BY <1>3 DEF OutcomeOf
<1>4. ASSUME Committed(c), ~Queued(c), Caused(c, Verdict) = {}, Reverted(c) # {}
      PROVE  OutcomeOf(c) = "reverted"
  BY <1>4 DEF OutcomeOf
<1>5. ASSUME Committed(c), ~Queued(c), Caused(c, Verdict) = {}, Reverted(c) = {}
      PROVE  OutcomeOf(c) = IF ledger[c][1].disp = "Queued" THEN "displaced" ELSE "accepted"
  BY <1>5 DEF OutcomeOf
<1>. QED
  BY <1>1, <1>2, <1>3, <1>4, <1>5

\* The same after a step.
LEMMA OutcomeCasesAfter == OutcomeFacts'
  BY OutcomeCases, PTL

\* The same in terms of the ledger: a queued claim is unsettled.
LEMMA QueuedCases ==
  ASSUME TypeOK, LedgerInv, FirstInv
  PROVE  QueuedFacts
<1>. SUFFICES ASSUME NEW c \in Claim, Committed(c)
              PROVE  /\ Queued(c) <=> /\ ledger[c][1].disp = "Queued"
                                      /\ \A j \in DOMAIN ledger[c] : ~Outranks(c, j)
                     /\ Queued(c) => Caused(c, Verdict) = {} /\ Reverted(c) = {}
  BY DEF QueuedFacts
<1>1. ledger[c] \in Seq(Entry) /\ 1 \in DOMAIN ledger[c] /\ DOMAIN ledger[c] = 1..Len(ledger[c])
      /\ Len(ledger[c]) \in Nat
  BY EmptySeq DEF TypeOK, Committed
<1>2. \A j \in DOMAIN ledger[c] : j \in Nat /\ j >= 1 /\ ledger[c][j].at \in Nat
  <2>. SUFFICES ASSUME NEW j \in DOMAIN ledger[c] PROVE j \in Nat /\ j >= 1 /\ ledger[c][j].at \in Nat
    OBVIOUS
  <2>1. ledger[c][j] \in Entry /\ j \in 1..Len(ledger[c])
    BY <1>1
  <2>. QED
    BY <1>1, <2>1, AdjudicationAssumption DEF Entry, Time
<1>3. Queued(c) <=> IsLatest(c, 1) /\ ledger[c][1].disp = "Queued"
  BY <1>1 DEF Queued, HasDisposition, LedgerInv
<1>4. IsLatest(c, 1) <=> \A j \in DOMAIN ledger[c] : ~Outranks(c, j)
  <2>1. ASSUME NEW j \in DOMAIN ledger[c]
        PROVE  (\/ ledger[c][j].at < ledger[c][1].at
                \/ ledger[c][j].at = ledger[c][1].at /\ j <= 1) <=> ~Outranks(c, j)
    <3>1. j = 1 \/ j > 1
      BY <1>2
    <3>. QED
      BY <1>1, <1>2, <3>1 DEF Outranks
  <2>. QED
    BY <1>1, <2>1 DEF IsLatest
<1>5. ASSUME Queued(c), NEW k \in Reverted(c) PROVE FALSE
  <2>1. k \in DOMAIN ledger[c] /\ ledger[c][k].by # "ingest" /\ ledger[c][k].at >= ledger[c][1].at
    BY <1>5 DEF Reverted, Caused
  <2>2. k # 1
    BY <2>1 DEF FirstInv
  <2>3. Outranks(c, k)
    BY <1>1, <1>2, <2>1, <2>2 DEF Outranks
  <2>. QED
    BY <1>3, <1>4, <1>5, <2>1, <2>3
<1>6. Queued(c) => Caused(c, Verdict) = {}
  BY QueuedUnanswered
<1>. QED
  BY <1>3, <1>4, <1>5, <1>6

\* The first entry stays, and is an ingest's when it appears.
LEMMA FirstInvStep ==
  ASSUME IInv, FirstInv, [Next]_vars, Cancellable = FALSE
  PROVE  FirstInv'
<1>. SUFFICES ASSUME NEW c \in Claim, Committed(c)'
              PROVE  ledger'[c][1].by = "ingest"
  BY DEF FirstInv
<1>1. CASE UNCHANGED ledger
  BY <1>1 DEF FirstInv, Committed
<1>2. ASSUME NEW p \in Proc, Writer(p), Calls(p)
      PROVE  ledger'[c][1].by = "ingest"
  <2>1. PICK D \in SUBSET Claim, e \in [Claim -> Entry] : Writes(p, D, e)
    BY <1>2, WriterWrites
  <2>2. CASE Committed(c)
    BY <1>2, <2>2, CallEffects DEF Effects, FirstInv
  <2>3. CASE ~Committed(c)
    <3>1. c \in D /\ task[p].pc = "commit" /\ e[c].by = "ingest"
          /\ ledger'[c] = Append(ledger[c], e[c])
      BY <2>1, <2>3 DEF Writes, CauseOf, Committed
    <3>2. ledger[c] \in Seq(Entry) /\ e[c] \in Entry /\ Len(ledger[c]) = 0
      BY <2>3, EmptySeq DEF Committed, IInv, TypeOK
    <3>3. Append(ledger[c], e[c])[1] = e[c]
      BY <3>2, Appended
    <3>. QED
      BY <3>1, <3>3
  <2>. QED
    BY <2>2, <2>3
<1>3. UNCHANGED ledger \/ \E p \in Proc : Writer(p) /\ Calls(p)
  <2>1. CASE UNCHANGED vars \/ Tick \/ Crash \/ \E p \in Proc : Cancel(p)
    BY <2>1 DEF vars, durable, Tick, Crash, Cancel
  <2>2. CASE \E p \in Proc : Calls(p)
    BY <2>2, LedgerEffects
  <2>. QED
    BY <2>1, <2>2 DEF Next, Calls
<1>. QED
  BY <1>1, <1>2, <1>3

\* An entry appended to a committed claim: the rest stays, and so does its place in the queue
\* unless the entry is at least as late as the first one.
LEMMA AfterNote ==
  ASSUME IInv, FirstInv, QueuedFacts, QueuedFacts', NEW p \in Proc, Calls(p),
         NEW D \in SUBSET Claim, NEW e \in [Claim -> Entry], Writes(p, D, e),
         NEW c \in Claim, Committed(c)
  PROVE  /\ Committed(c)' /\ ledger'[c][1] = ledger[c][1]
         /\ Queued(c)' <=> Queued(c) /\ (c \in D => task[p].now < ledger[c][1].at)
         /\ IF c = task[p].cur /\ CauseOf(p) \in {"expiry", "orphan"} /\ ledger[c][1].at <= task[p].now
              THEN Reverted(c)' # {}
              ELSE Reverted(c)' = Reverted(c)
<1>. DEFINE n == Len(ledger[c]) + 1
<1>1. /\ Committed(c)' /\ ledger'[c][1] = ledger[c][1] /\ TypeOK
      /\ ledger[c] \in Seq(Entry) /\ e[c] \in Entry
      /\ task[p].now \in Nat /\ ledger[c][1].at \in Nat
  BY CallEffects, FirstInstant, AdjudicationAssumption DEF Effects, IInv, TypeOK, Task, Time
<1>2. n > 1 /\ n \in Nat
  BY <1>1, Appended DEF Committed
<1>3. CASE c \notin D
  <2>1. ledger'[c] = ledger[c] /\ c # task[p].cur
    BY <1>3 DEF Writes
  <2>2. Reverted(c)' = Reverted(c)
    BY <2>1 DEF Reverted, Caused
  <2>3. Queued(c)' <=> Queued(c)
    BY <2>1 DEF Queued, HasDisposition, IsLatest
  <2>. QED
    BY <1>1, <1>3, <2>1, <2>2, <2>3
<1>4. CASE c \in D
  <2>1. /\ DOMAIN ledger'[c] = DOMAIN ledger[c] \cup {n} /\ n \notin DOMAIN ledger[c]
        /\ \A k \in DOMAIN ledger[c] : ledger'[c][k] = ledger[c][k]
        /\ ledger'[c][n] = e[c] /\ e[c].at = task[p].now
        /\ task[p].cur \in D /\ e[c].about = task[p].cur /\ e[c].by = CauseOf(p)
    <3>1. ledger'[c] = Append(ledger[c], e[c])
      BY <1>4 DEF Writes
    <3>. QED
      BY <1>1, <1>4, <3>1, Appended DEF Writes
  <2>. HIDE DEF n
  <2>2. Queued(c)' <=> Queued(c) /\ task[p].now < ledger[c][1].at
    <3>1. Queued(c) <=> /\ ledger[c][1].disp = "Queued"
                        /\ \A j \in DOMAIN ledger[c] : ~Outranks(c, j)
      BY DEF QueuedFacts
    <3>2. Queued(c)' <=> /\ ledger'[c][1].disp = "Queued"
                         /\ \A j \in DOMAIN ledger'[c] : ~(j > 1 /\ ledger'[c][1].at <= ledger'[c][j].at)
      BY <1>1 DEF QueuedFacts, Outranks
    <3>3. (\A j \in DOMAIN ledger'[c] : ~(j > 1 /\ ledger'[c][1].at <= ledger'[c][j].at))
            <=> (\A j \in DOMAIN ledger[c] : ~Outranks(c, j)) /\ task[p].now < ledger[c][1].at
      BY <1>1, <1>2, <2>1 DEF Outranks
    <3>. QED
      BY <1>1, <3>1, <3>2, <3>3
  <2>3. CASE c = task[p].cur /\ CauseOf(p) \in {"expiry", "orphan"} /\ ledger[c][1].at <= task[p].now
    <3>1. n \in Reverted(c)'
      BY <1>1, <2>1, <2>3 DEF Reverted, Caused
    <3>. QED
      BY <1>1, <1>4, <2>2, <2>3, <3>1
  <2>4. CASE ~(c = task[p].cur /\ CauseOf(p) \in {"expiry", "orphan"} /\ ledger[c][1].at <= task[p].now)
    <3>1. n \notin Reverted(c)'
      BY <1>1, <2>1, <2>4 DEF Reverted, Caused
    <3>2. \A k \in DOMAIN ledger[c] : k \in Reverted(c)' <=> k \in Reverted(c)
      BY <1>1, <2>1 DEF Reverted, Caused
    <3>3. Reverted(c)' \subseteq DOMAIN ledger[c] \cup {n} /\ Reverted(c) \subseteq DOMAIN ledger[c]
      BY <2>1 DEF Reverted, Caused
    <3>4. Reverted(c)' = Reverted(c)
      BY <3>1, <3>2, <3>3
    <3>. QED
      BY <1>1, <1>4, <2>2, <2>4, <3>4
  <2>. QED
    BY <2>3, <2>4
<1>. QED
  BY <1>3, <1>4

\* What a step that appends knows of the claims it does not work on.
Kept(c) ==
  /\ Committed(c)' <=> Committed(c)
  /\ Queued(c)' <=> Queued(c)
  /\ Caused(c, Verdict)' = Caused(c, Verdict) /\ Reverted(c)' = Reverted(c)
  /\ Committed(c) => ledger'[c][1] = ledger[c][1]

\* A claim about which nothing of this has changed has the outcome it had.
LEMMA KeptOutcome ==
  ASSUME NEW c \in Claim, Kept(c)
  PROVE  OutcomeOf(c)' = OutcomeOf(c)
  BY DEF Kept, OutcomeOf

\* A claim whose entries stay keeps its outcome.
LEMMA SameEntries ==
  ASSUME NEW c \in Claim, ledger'[c] = ledger[c]
  PROVE  OutcomeOf(c)' = OutcomeOf(c)
<1>1. Kept(c)
  BY DEF Kept, Committed, Queued, HasDisposition, IsLatest, Caused, Reverted
<1>. QED
  BY <1>1, KeptOutcome

\* Another claim than the one worked on keeps its outcome, or is displaced from the queue.
LEMMA OtherOutcome ==
  ASSUME IInv, FirstInv, QueuedFacts, QueuedFacts', NEW p \in Proc, Calls(p),
         NEW D \in SUBSET Claim, NEW e \in [Claim -> Entry], Writes(p, D, e),
         NEW d \in Claim \ {task[p].cur}
  PROVE  \/ OutcomeOf(d)' = OutcomeOf(d)
         \/ /\ task[p].pc = "apply" /\ d = pending[task[p].cur].incumbent
            /\ OutcomeOf(d) = "queued" /\ OutcomeOf(d)' = "displaced"
<1>1. CASE d \notin D
  <2>1. ledger'[d] = ledger[d]
    BY <1>1 DEF Writes
  <2>. QED
    BY <2>1, SameEntries
<1>2. CASE d \in D
  <2>1. /\ Committed(d) /\ task[p].pc = "apply" /\ d = pending[task[p].cur].incumbent
    BY <1>2 DEF Writes
  <2>2. /\ Committed(d)' /\ ledger'[d][1] = ledger[d][1]
        /\ Queued(d)' <=> Queued(d) /\ task[p].now < ledger[d][1].at
        /\ Reverted(d)' = Reverted(d)
    BY <1>2, <2>1, AfterNote
  <2>3. Caused(d, Verdict)' = Caused(d, Verdict)
    BY CausedGrows DEF IInv
  <2>4. CASE Queued(d)' <=> Queued(d)
    <3>1. Kept(d)
      BY <2>1, <2>2, <2>3, <2>4 DEF Kept
    <3>. QED
      BY <3>1, KeptOutcome
  <2>5. CASE Queued(d) /\ ~Queued(d)'
    <3>1. Caused(d, Verdict) = {} /\ Reverted(d) = {} /\ ledger[d][1].disp = "Queued"
      BY <2>1, <2>5 DEF QueuedFacts
    <3>2. OutcomeOf(d) = "queued" /\ OutcomeOf(d)' = "displaced"
      BY <2>1, <2>2, <2>3, <2>5, <3>1, OutcomeCases, OutcomeCasesAfter DEF OutcomeFacts
    <3>. QED
      BY <2>1, <3>2
  <2>. QED
    BY <2>2, <2>4, <2>5
<1>. QED
  BY <1>1, <1>2

\* The claim worked on: an ingest accepts or queues it, a verdict answers it, and an expiry or
\* an orphan's revert that is not older than the claim reverts it.
LEMMA OwnOutcome ==
  ASSUME IInv, FirstInv, QueuedFacts, QueuedFacts', NEW p \in Proc, Calls(p),
         NEW D \in SUBSET Claim, NEW e \in [Claim -> Entry], Writes(p, D, e),
         NEW c \in Claim, c = task[p].cur
  PROVE  \/ task[p].pc = "commit" /\ OutcomeOf(c) = "absent" /\ OutcomeOf(c)' \in {"accepted", "queued"}
         \/ task[p].pc = "apply" /\ OutcomeOf(c) = "queued" /\ OutcomeOf(c)' = "answered"
         \/ task[p].pc = "revert" /\ OutcomeOf(c) = "queued" /\ OutcomeOf(c)' \in {"queued", "reverted"}
<1>1. c \in D /\ TypeOK /\ OnTime(p) /\ InStep(task[p])
  BY DEF Writes, IInv, TaskInv, StepInv
<1>2. task[p].now \in Nat
  BY <1>1, AdjudicationAssumption DEF TypeOK, Task, Time
<1>3. IF CauseOf(p) \in Verdict THEN Caused(c, Verdict)' = Caused(c, Verdict) \cup {Len(ledger[c]) + 1}
                                ELSE Caused(c, Verdict)' = Caused(c, Verdict)
  BY <1>1, CausedGrows
<1>4. CASE task[p].pc = "commit"
  <2>1. ~Committed(c) /\ Committed(c)' /\ CauseOf(p) = "ingest"
    <3>1. ~Committed(c)
      BY <1>1, <1>4 DEF OnTime, InStep
    <3>2. ledger'[c] = Append(ledger[c], e[c]) /\ ledger[c] \in Seq(Entry) /\ e[c] \in Entry
      BY <1>1 DEF Writes, TypeOK
    <3>3. Append(ledger[c], e[c]) # <<>>
      BY <3>2, Appended
    <3>. QED
      BY <1>4, <3>1, <3>2, <3>3 DEF Committed, CauseOf
  <2>2. Caused(c, Verdict) = {} /\ Reverted(c) = {} /\ ledger'[c] = <<e[c]>>
    <3>1. ledger[c] = <<>> /\ ledger'[c] = Append(ledger[c], e[c])
      BY <1>1, <2>1 DEF Committed, Writes
    <3>2. DOMAIN ledger[c] = {}
      BY <3>1
    <3>. QED
      BY <3>1, <3>2 DEF Caused, Reverted
  <2>3. Caused(c, Verdict)' = {}
    BY <1>3, <2>1, <2>2 DEF Verdict
  <2>4. Reverted(c)' = {}
    <3>1. e[c].by = "ingest"
      BY <1>1, <2>1 DEF Writes
    <3>2. \A k \in DOMAIN <<e[c]>> : <<e[c]>>[k].by = "ingest"
      BY <3>1
    <3>. QED
      BY <2>2, <3>2 DEF Reverted, Caused
  <2>5. Queued(c)' <=> ledger'[c][1].disp = "Queued"
    <3>1. Queued(c)' <=> /\ ledger'[c][1].disp = "Queued"
                         /\ \A j \in DOMAIN ledger'[c] : ~(j > 1 /\ ledger'[c][1].at <= ledger'[c][j].at)
      BY <2>1 DEF QueuedFacts, Outranks
    <3>2. \A j \in DOMAIN <<e[c]>> : ~(j > 1)
      OBVIOUS
    <3>. QED
      BY <2>2, <3>1, <3>2
  <2>6. OutcomeOf(c) = "absent" /\ OutcomeOf(c)' \in {"accepted", "queued"}
    BY <2>1, <2>3, <2>4, <2>5, OutcomeCases, OutcomeCasesAfter DEF OutcomeFacts
  <2>. QED
    BY <1>4, <2>6
<1>5. CASE task[p].pc \in {"apply", "revert"}
  <2>1. Queued(c) /\ Committed(c) /\ Caused(c, Verdict) = {} /\ Reverted(c) = {}
    BY <1>1, <1>5, QueuedCommitted DEF IInv, GuardInv, QueuedFacts
  <2>2. OutcomeOf(c) = "queued"
    BY <2>1, OutcomeCases DEF OutcomeFacts
  <2>3. /\ Committed(c)' /\ ledger'[c][1] = ledger[c][1]
        /\ Queued(c)' <=> task[p].now < ledger[c][1].at
        /\ IF CauseOf(p) \in {"expiry", "orphan"} /\ ledger[c][1].at <= task[p].now
             THEN Reverted(c)' # {} ELSE Reverted(c)' = {}
    BY <1>1, <2>1, AfterNote
  <2>4. ledger[c][1].at \in Nat
    BY <1>1, <2>1, FirstInstant
  <2>5. CASE task[p].pc = "apply"
    <3>1. CauseOf(p) \in Verdict /\ ledger[c][1].at <= task[p].now
      BY <1>1, <2>5 DEF CauseOf, TypeOK, Task, OnTime, InStep
    <3>2. /\ ~Queued(c)' /\ Caused(c, Verdict)' # {}
          /\ Reverted(c)' = {}
      <4>1. CauseOf(p) \notin {"expiry", "orphan"}
        BY <3>1 DEF Verdict
      <4>2. ~(task[p].now < ledger[c][1].at)
        BY <1>2, <2>4, <3>1
      <4>3. Caused(c, Verdict)' # {}
        BY <1>3, <3>1
      <4>. QED
        BY <2>3, <4>1, <4>2, <4>3
    <3>. QED
      BY <2>2, <2>3, <2>5, <3>2, OutcomeCasesAfter DEF OutcomeFacts
  <2>6. CASE task[p].pc = "revert"
    <3>1. CauseOf(p) \in {"expiry", "orphan"}
      BY <2>6 DEF CauseOf
    <3>2. Caused(c, Verdict)' = {}
      BY <1>3, <2>1, <3>1 DEF Verdict
    <3>3. CASE task[p].now < ledger[c][1].at
      BY <2>2, <2>3, <2>6, <3>3, OutcomeCasesAfter DEF OutcomeFacts
    <3>4. CASE ledger[c][1].at <= task[p].now
      BY <1>2, <2>2, <2>3, <2>4, <2>6, <3>1, <3>2, <3>4, OutcomeCasesAfter DEF OutcomeFacts
    <3>. QED
      BY <1>2, <2>4, <3>3, <3>4
  <2>. QED
    BY <1>5, <2>5, <2>6
<1>. QED
  BY <1>4, <1>5 DEF Writes

\* A step that appends is one of the abstract lifecycle, or changes no outcome.
LEMMA OutcomeStep ==
  ASSUME IInv, FirstInv, QueuedFacts, QueuedFacts', NEW p \in Proc, Calls(p), Writer(p)
  PROVE  \/ Abstract!Next
         \/ [c \in Claim |-> OutcomeOf(c)]' = [c \in Claim |-> OutcomeOf(c)]
<1>. DEFINE c == task[p].cur
            o == [d \in Claim |-> OutcomeOf(d)]
            after == [d \in Claim |-> OutcomeOf(d)']
            i == pending[c].incumbent
<1>1. PICK D \in SUBSET Claim, e \in [Claim -> Entry] : Writes(p, D, e)
  BY WriterWrites DEF IInv
<1>2. c \in Claim
  BY <1>1, WriterCause DEF Writes
<1>3. \/ task[p].pc = "commit" /\ o[c] = "absent" /\ after[c] \in {"accepted", "queued"}
      \/ task[p].pc = "apply" /\ o[c] = "queued" /\ after[c] = "answered"
      \/ task[p].pc = "revert" /\ o[c] = "queued" /\ after[c] \in {"queued", "reverted"}
  BY <1>1, <1>2, OwnOutcome
<1>4. \A d \in Claim \ {c} : \/ after[d] = o[d]
                             \/ task[p].pc = "apply" /\ d = i /\ o[d] = "queued" /\ after[d] = "displaced"
  BY <1>1, OtherOutcome
<1>5. [d \in Claim |-> OutcomeOf(d)]' = after
  OBVIOUS
<1>6. o = [d \in Claim |-> o[d]] /\ after = [d \in Claim |-> after[d]]
  OBVIOUS
<1>. HIDE DEF c, o, after, i
<1>7. CASE \A d \in Claim \ {c} : after[d] = o[d]
  <2>1. after = [o EXCEPT ![c] = after[c]]
    BY <1>2, <1>6, <1>7
  <2>2. CASE task[p].pc = "commit"
    <3>1. Abstract!Ingest(c)
      BY <1>3, <1>5, <2>1, <2>2 DEF Abstract!Ingest, o
    <3>. QED
      BY <1>2, <3>1 DEF Abstract!Next
  <2>3. CASE task[p].pc = "apply"
    <3>1. Abstract!Answer(c)
      BY <1>3, <1>5, <2>1, <2>3 DEF Abstract!Answer, o
    <3>. QED
      BY <1>2, <3>1 DEF Abstract!Next
  <2>4. CASE task[p].pc = "revert" /\ after[c] = "reverted"
    <3>1. Abstract!Revert(c)
      BY <1>3, <1>5, <2>1, <2>4 DEF Abstract!Revert, o
    <3>. QED
      BY <1>2, <3>1 DEF Abstract!Next
  <2>5. CASE task[p].pc = "revert" /\ after[c] = "queued"
    <3>1. after = o
      BY <1>3, <1>6, <1>7, <2>5
    <3>. QED
      BY <1>5, <3>1 DEF o
  <2>. QED
    BY <1>3, <2>2, <2>3, <2>4, <2>5
<1>8. CASE ~\A d \in Claim \ {c} : after[d] = o[d]
  <2>1. /\ i \in Claim \ {c} /\ task[p].pc = "apply" /\ o[i] = "queued" /\ after[i] = "displaced"
        /\ \A d \in Claim \ {c, i} : after[d] = o[d]
    BY <1>4, <1>8
  <2>2. after = [o EXCEPT ![c] = "answered", ![i] = "displaced"]
    BY <1>2, <1>3, <1>6, <2>1
  <2>3. Abstract!Answer(c)
    BY <1>3, <1>5, <2>1, <2>2 DEF Abstract!Answer, o
  <2>. QED
    BY <1>2, <2>3 DEF Abstract!Next
<1>. QED
  BY <1>7, <1>8

\* Claims found in the store are accepted, the others absent.
LEMMA OutcomeInit == Init => Abstract!Init /\ FirstInv
<1>. SUFFICES ASSUME Init PROVE Abstract!Init /\ FirstInv
  OBVIOUS
<1>1. ASSUME NEW c \in Claim
      PROVE  OutcomeOf(c) \in {"absent", "accepted"} /\ (Committed(c) => ledger[c][1].by = "ingest")
  <2>1. CASE c \notin Seed
    <3>1. ~Committed(c)
      BY <2>1 DEF Init, Committed
    <3>. QED
      BY <3>1, OutcomeCases DEF OutcomeFacts
  <2>2. CASE c \in Seed
    <3>. DEFINE s == <<[disp |-> "Cheap", at |-> 0, by |-> "ingest", about |-> c]>>
    <3>1. ledger[c] = s
      BY <2>2 DEF Init
    <3>2. /\ s # <<>> /\ DOMAIN s = {1} /\ s[1].disp = "Cheap" /\ s[1].by = "ingest"
          /\ \A k \in DOMAIN s : s[k].disp = "Cheap" /\ s[k].by = "ingest"
      OBVIOUS
    <3>. HIDE DEF s
    <3>3. /\ Committed(c) /\ ~Queued(c) /\ Caused(c, Verdict) = {} /\ Reverted(c) = {}
          /\ ledger[c][1].disp = "Cheap" /\ ledger[c][1].by = "ingest"
      BY <3>1, <3>2 DEF Committed, Queued, HasDisposition, Caused, Reverted, Verdict
    <3>. QED
      BY <3>3, OutcomeCases DEF OutcomeFacts
  <2>. QED
    BY <2>1, <2>2
<1>. QED
  BY <1>1 DEF Abstract!Init, FirstInv

\* The lifecycle implements its abstract specification: whatever calls, sweeps, errors and
\* crashes come in between, a claim is accepted or queued once, and a queued claim leaves the
\* queue once, for good, by the answer to its own handle, by a revert, or as the incumbent of
\* another challenger's answer.
THEOREM ImplementsOutcome ==
  ASSUME Cancellable = FALSE
  PROVE  Spec => Outcomes
<1>. DEFINE Inv == IInv /\ FirstInv
<1>1. Init => Abstract!Init /\ Inv
  BY InitIInv, OutcomeInit
<1>2. Inv /\ [Next]_vars => Inv'
  BY NextIInv, FirstInvStep
<1>3. Inv => QueuedFacts
  BY QueuedCases DEF IInv
<1>4. (Inv => QueuedFacts)'
  BY <1>3, PTL
<1>5. Inv /\ [Next]_vars => [Abstract!Next]_([c \in Claim |-> OutcomeOf(c)])
  <2>. SUFFICES ASSUME Inv, [Next]_vars
                PROVE  \/ Abstract!Next
                       \/ [c \in Claim |-> OutcomeOf(c)]' = [c \in Claim |-> OutcomeOf(c)]
    OBVIOUS
  <2>1. Inv' /\ QueuedFacts /\ QueuedFacts'
    BY <1>2, <1>3, <1>4
  <2>2. CASE UNCHANGED ledger
    <3>1. \A c \in Claim : OutcomeOf(c)' = OutcomeOf(c)
      BY <2>2, SameEntries
    <3>. QED
      BY <3>1
  <2>3. ASSUME NEW p \in Proc, Calls(p), Writer(p)
        PROVE  \/ Abstract!Next
               \/ [c \in Claim |-> OutcomeOf(c)]' = [c \in Claim |-> OutcomeOf(c)]
    BY <2>1, <2>3, OutcomeStep
  <2>4. UNCHANGED ledger \/ \E p \in Proc : Calls(p) /\ Writer(p)
    <3>1. CASE UNCHANGED vars \/ Tick \/ Crash \/ \E p \in Proc : Cancel(p)
      BY <3>1 DEF vars, durable, Tick, Crash, Cancel
    <3>2. CASE \E p \in Proc : Calls(p)
      BY <3>2, LedgerEffects
    <3>. QED
      BY <3>1, <3>2 DEF Next, Calls
  <2>. QED
    BY <2>2, <2>3, <2>4
<1>. QED
  BY <1>1, <1>2, <1>5, PTL DEF Spec, Outcomes, Abstract!Spec
=============================================================================
