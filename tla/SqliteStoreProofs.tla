-------------------------- MODULE SqliteStoreProofs --------------------------
EXTENDS SqliteStore, TLAPS

USE DEF Op, Writing, Names

\* Initially nothing is stored and nobody calls.
LEMMA InitEstablishes ==
  Init => IInv
<1>. SUFFICES ASSUME Init PROVE IInv
  OBVIOUS
<1>1. file = {} /\ open = {} /\ slot = "in" /\ \A p \in Task : call[p] = Idle
  BY DEF Init
<1>2. TypeOK
  BY SqliteStoreAssumption DEF Init, TypeOK, Call, Idle, InTxn, Loading
<1>3. FileInv /\ StepInv
  BY <1>1 DEF FileInv, StepInv, StepOf, Idle, InTxn
<1>4. TxnInv
  BY <1>1 DEF TxnInv, TxnOf, Idle
<1>5. LoadInv
  <2>1. ASSUME NEW p \in Task
        PROVE  call[p].pc = "idle" /\ call[p].op = "none" /\ call[p].left = {} /\ call[p].missed = {}
    BY <1>1 DEF Idle
  <2>. QED
    BY <2>1 DEF LoadInv, LoadOf, InTxn
<1>6. QueryInv
  BY <1>1 DEF QueryInv, Idle
<1>. QED
  BY <1>2, <1>3, <1>4, <1>5, <1>6 DEF IInv

\* What a statement finds is committed and about the claims it was asked for.
LEMMA FoundIsCommitted ==
  ASSUME NEW p, NEW table, NEW about
  PROVE  Found(p, table, about) \subseteq file
BY DEF Found

\* After a load comes another one, or the decision.
LEMMA AfterIsNext ==
  ASSUME NEW op, NEW table \in Loading, NEW left
  PROVE  After(op, table, left) \in {"ledger", "assertions", "answer", "begin"}
BY DEF After, Decide, Loading

\* A step of one task changes its call only.
LEMMA CallUpdated ==
  ASSUME NEW p \in Task, NEW c \in Call, call \in [Task -> Call], call' = [call EXCEPT ![p] = c]
  PROVE  call' \in [Task -> Call]
OBVIOUS

\* A jump keeps the types of the calls.
LEMMA GotoKeepsType ==
  ASSUME TypeOK, NEW p \in Task, NEW l, Goto(p, l),
         l \in Loading \cup InTxn \cup {"idle", "lock", "begin", "pending", "answer", "return"}
  PROVE  call' \in [Task -> Call]
BY DEF Goto, TypeOK, Call

\* Every step keeps the types.
LEMMA TypePreserved ==
  ASSUME TypeOK, StepInv, TxnInv, [Next]_vars
  PROVE  TypeOK'
<1>. USE SqliteStoreAssumption
<1>. DEFINE Places == Loading \cup InTxn \cup {"idle", "lock", "begin", "pending", "answer", "return"}
<1>1. CASE UNCHANGED vars
  BY <1>1 DEF vars, TypeOK
<1>2. Idle \in Call
  BY DEF Idle, Call, InTxn, Loading
<1>3. CASE Crash
  BY <1>2, <1>3 DEF Crash, TypeOK
<1>4. ASSUME NEW p \in Task, NEW op \in Op, NEW target \in 0..MaxClock,
             Start(p, op, target)
      PROVE  TypeOK'
  <2>1. clock' \in 0..MaxClock /\ clock + 1 \in 0..MaxClock
    BY <1>4, SqliteStoreAssumption DEF Start, TypeOK
  <2>3. Begun(op, target) \in Call
    BY <2>1 DEF Begun, CallAt, Call, Loading
  <2>4. call' \in [Task -> Call]
    BY <1>4, <2>3, CallUpdated DEF Start, TypeOK
  <2>. QED
    BY <1>4, <2>1, <2>4 DEF Start, TypeOK
<1>5. ASSUME NEW p \in Task, Lock(p) \/ Decline(p) \/ Refused(p)
      PROVE  TypeOK'
  <2>1. call' \in [Task -> Call]
    BY <1>5, GotoKeepsType DEF Lock, Decline, Refused, Loading
  <2>. QED
    BY <1>5, <2>1 DEF Lock, Decline, Refused, TypeOK
<1>6. ASSUME NEW p \in Task, LoadClaims(p)
      PROVE  TypeOK'
  <2> DEFINE found == Found(p, "claims", IF call[p].op \in Names THEN {call[p].target} ELSE Instant)
             left  == {r.claim : r \in found}
             l     == After(call[p].op, "claims", left)
  <2>1. found \subseteq Row
    BY FoundIsCommitted DEF TypeOK
  <2>2. left \subseteq Instant
    BY <2>1 DEF Row
  <2>3. l \in Places
    BY AfterIsNext DEF Loading
  <2>4. call' = [call EXCEPT ![p] = [@ EXCEPT !.seen = found, !.left = left, !.pc = l]]
    BY <1>6 DEF LoadClaims, TypeOK, Call
  <2> HIDE DEF found, left, l
  <2>5. call[p] \in Call
    BY DEF TypeOK
  <2>6. [call[p] EXCEPT !.seen = found, !.left = left, !.pc = l] \in Call
    BY <2>1, <2>2, <2>3, <2>5 DEF Call
  <2>. QED
    BY <1>6, <2>4, <2>6, CallUpdated DEF LoadClaims, TypeOK
<1>7. ASSUME NEW p \in Task, LoadLedger(p)
      PROVE  TypeOK'
  <2> DEFINE seen == call[p].seen \cup Found(p, "ledger", Loaded(p))
             l    == After(call[p].op, "ledger", call[p].left)
  <2>1. call[p] \in Call
    BY DEF TypeOK
  <2>2. seen \subseteq Row
    BY <2>1, FoundIsCommitted DEF TypeOK, Call
  <2>3. l \in Places
    BY AfterIsNext DEF Loading
  <2>4. call' = [call EXCEPT ![p] = [@ EXCEPT !.seen = seen, !.pc = l]]
    BY <1>7 DEF LoadLedger, TypeOK, Call
  <2> HIDE DEF seen, l
  <2>5. [call[p] EXCEPT !.seen = seen, !.pc = l] \in Call
    BY <2>1, <2>2, <2>3 DEF Call
  <2>. QED
    BY <1>7, <2>4, <2>5, CallUpdated DEF LoadLedger, TypeOK
<1>8. ASSUME NEW p \in Task, NEW c \in Instant, NEW found, NEW missed,
             Folded(p, c, found, missed), found \subseteq Row, missed \subseteq Instant
      PROVE  call' \in [Task -> Call]
  <2> DEFINE seen == call[p].seen \cup found
             all  == call[p].missed \cup missed
             left == call[p].left \ {c}
             l    == After(call[p].op, "assertions", left)
  <2>1. call[p] \in Call
    BY DEF TypeOK
  <2>2. seen \subseteq Row /\ all \subseteq Instant /\ left \subseteq Instant
    BY <1>8, <2>1 DEF Call
  <2>3. l \in Places
    BY AfterIsNext DEF Loading
  <2>4. call' = [call EXCEPT ![p] = [@ EXCEPT !.seen = seen, !.missed = all, !.left = left, !.pc = l]]
    BY <1>8 DEF Folded, TypeOK, Call
  <2> HIDE DEF seen, all, left, l
  <2>5. [call[p] EXCEPT !.seen = seen, !.missed = all, !.left = left, !.pc = l] \in Call
    BY <2>1, <2>2, <2>3 DEF Call
  <2>. QED
    BY <2>4, <2>5, CallUpdated DEF TypeOK
<1>9. ASSUME NEW p \in Task, NEW c \in Instant, LoadAssertions(p, c) \/ MissAssertions(p, c)
      PROVE  TypeOK'
  <2>1. Found(p, "assertions", {c}) \subseteq Row
    BY FoundIsCommitted DEF TypeOK
  <2>2. call' \in [Task -> Call]
    <3>1. CASE LoadAssertions(p, c)
      <4>1. Folded(p, c, Found(p, "assertions", {c}), {})
        BY <3>1 DEF LoadAssertions
      <4>. QED
        BY <1>8, <2>1, <4>1
    <3>2. CASE MissAssertions(p, c)
      <4>1. Folded(p, c, {}, {c})
        BY <3>2 DEF MissAssertions
      <4>. QED
        BY <1>8, <4>1
    <3>. QED
      BY <1>9, <3>1, <3>2
  <2>. QED
    BY <1>9, <2>2 DEF LoadAssertions, MissAssertions, TypeOK
<1>10. ASSUME NEW p \in Task, Begin(p) \/ Rollback(p)
       PROVE  TypeOK'
  <2>1. call' \in [Task -> Call]
    BY <1>10, GotoKeepsType DEF Begin, Rollback, InTxn
  <2>. QED
    BY <1>10, <2>1 DEF Begin, Rollback, TypeOK
<1>11. ASSUME NEW p \in Task, Return(p)
       PROVE  TypeOK'
  BY <1>2, <1>11, CallUpdated DEF Return, TypeOK
<1>12. ASSUME NEW p \in Task, call[p].pc \in InTxn \cup {"pending"}
       PROVE  /\ call[p].now \in Instant
              /\ First(p) \in Row /\ Second(p) \in Row
  <2>1. call[p].op \in Writing /\ call[p].now \in Instant
    BY <1>12 DEF StepInv, StepOf
  <2>2. call[p].op \in Names => call[p].target \in Instant
    BY DEF TxnInv, TxnOf, ClaimsIn, TypeOK, Row
  <2>. QED
    BY <2>1, <2>2 DEF First, Second, Claimed, RowOf, Row, Table
<1>13. ASSUME NEW p \in Task, Append(p)
       PROVE  TypeOK'
  <2>1. First(p) \in Row /\ Second(p) \in Row
    BY <1>12, <1>13 DEF Append, InTxn
  <2>2. open' \subseteq Row
    BY <1>13, <2>1 DEF Append, TypeOK
  <2>3. call' \in [Task -> Call]
    BY <1>13, GotoKeepsType DEF Append, InTxn, TypeOK
  <2>. QED
    BY <1>13, <2>2, <2>3 DEF Append, TypeOK
<1>14. ASSUME NEW p \in Task, Commit(p) \/ InsertPending(p)
       PROVE  TypeOK'
  <2>1. RowOf("pending", call[p].now, call[p].now) \in Row
    BY <1>12, <1>14 DEF Commit, InsertPending, InTxn, RowOf, Row, Table
  <2>2. call' \in [Task -> Call]
    BY <1>14, GotoKeepsType DEF Commit, InsertPending
  <2>. QED
    BY <1>14, <2>1, <2>2 DEF Commit, InsertPending, TypeOK
<1>15. ASSUME NEW p \in Task, Fail(p)
       PROVE  TypeOK'
  <2>1. call' \in [Task -> Call]
    <3>1. CASE Drop(p)
      BY <3>1, GotoKeepsType DEF Drop
    <3>2. CASE Goto(p, "rollback") \/ Goto(p, "return")
      BY <3>2, GotoKeepsType DEF InTxn
    <3>3. ASSUME NEW c \in call[p].left, Folded(p, c, {}, {c})
          PROVE  call' \in [Task -> Call]
      <4>1. c \in Instant
        BY DEF TypeOK, Call
      <4>. QED
        BY <1>8, <3>3, <4>1
    <3>. QED
      BY <1>15, <3>1, <3>2, <3>3 DEF Fail, FailStatement
  <2>. QED
    BY <1>15, <2>1 DEF Fail, Drop, FailStatement, TypeOK
<1>. QED
  BY <1>1, <1>3, <1>4, <1>5, <1>6, <1>7, <1>9, <1>10, <1>11, <1>13, <1>14, <1>15 DEF Next

-----------------------------------------------------------------------------
\* Rows are only added to the file, and whole transactions.
LEMMA FilePreserved ==
  ASSUME IInv, [Next]_vars
  PROVE  FileInv' /\ file \subseteq file' /\ ClaimsIn(file) \subseteq ClaimsIn(file)'
<1>1. ASSUME NEW p \in Task, Commit(p)
      PROVE  FileInv' /\ file \subseteq file'
  <2>1. file' = file \cup {First(p), Second(p)}
    BY <1>1 DEF Commit, IInv, TxnInv, TxnOf
  <2>2. CASE call[p].op = "ingest"
    BY <2>1, <2>2 DEF First, Second, Claimed, RowOf, FileInv, ClaimsIn, IInv
  <2>3. CASE call[p].op \in Names
    <3>1. call[p].target \in ClaimsIn(file)
      BY <2>3 DEF IInv, TxnInv, TxnOf
    <3>. QED
      BY <2>1, <2>3, <3>1 DEF First, Second, Claimed, RowOf, FileInv, ClaimsIn, IInv
  <2>. QED
    BY <1>1, <2>2, <2>3 DEF Commit, IInv, StepInv, StepOf, InTxn
<1>2. ASSUME NEW p \in Task, InsertPending(p)
      PROVE  FileInv' /\ file \subseteq file'
  <2>1. call[p].now \in ClaimsIn(file)
    BY <1>2 DEF InsertPending, IInv, TxnInv, TxnOf
  <2>. QED
    BY <1>2, <2>1 DEF InsertPending, RowOf, FileInv, ClaimsIn, IInv
<1>3. CASE UNCHANGED file
  BY <1>3 DEF FileInv, ClaimsIn, IInv
<1>4. FileInv' /\ file \subseteq file'
  <2>1. UNCHANGED file \/ \E p \in Task : Commit(p) \/ InsertPending(p)
    BY DEF Next, vars, Crash, Start, Lock, LoadClaims, LoadLedger, Refused, LoadAssertions,
           MissAssertions, Decline, Begin, Append, Rollback, Fail, Return
  <2>. QED
    BY <1>1, <1>2, <1>3, <2>1
<1>. QED
  BY <1>4 DEF ClaimsIn

-----------------------------------------------------------------------------
\* A load leads to the place that fits the operation.
LEMMA AfterFits ==
  ASSUME NEW op \in Op, NEW table \in Loading, NEW left
  PROVE  /\ After(op, table, left) = "answer" => op = "query"
         /\ After(op, table, left) = "begin" => op \in Writing
         /\ After(op, table, left) = "ledger" => op # "reopen"
BY DEF After, Decide, Loading

\* What the steps of a task make of its call.
LEMMA CallAfterGoto ==
  ASSUME TypeOK, NEW p \in Task, NEW l, Goto(p, l)
  PROVE  /\ call'[p] = [call[p] EXCEPT !.pc = l]
         /\ call'[p].pc = l
         /\ call'[p].op = call[p].op /\ call'[p].now = call[p].now
         /\ call'[p].target = call[p].target /\ call'[p].seen = call[p].seen
         /\ call'[p].left = call[p].left /\ call'[p].missed = call[p].missed
         /\ \A q \in Task \ {p} : call'[q] = call[q]
<1>1. call[p] \in Call /\ call'[p] = [call[p] EXCEPT !.pc = l] /\ \A q \in Task \ {p} : call'[q] = call[q]
  BY DEF TypeOK, Goto
<1>. QED
  BY <1>1 DEF Call

\* Loading the claims changes what is seen, what is left, and the place of the call.
LEMMA CallAfterClaims ==
  ASSUME TypeOK, NEW p \in Task, LoadClaims(p)
  PROVE  LET c     == call[p]
             found == Found(p, "claims", IF c.op \in Names THEN {c.target} ELSE Instant)
             left  == {r.claim : r \in found}
         IN  /\ call'[p] = [c EXCEPT !.seen = found, !.left = left, !.pc = After(c.op, "claims", left)]
             /\ call'[p].pc = After(c.op, "claims", left)
             /\ call'[p].seen = found /\ call'[p].left = left
             /\ call'[p].op = c.op /\ call'[p].now = c.now
             /\ call'[p].target = c.target /\ call'[p].missed = c.missed
             /\ \A q \in Task \ {p} : call'[q] = call[q]
<1> DEFINE c     == call[p]
           found == Found(p, "claims", IF c.op \in Names THEN {c.target} ELSE Instant)
           left  == {r.claim : r \in found}
           l     == After(c.op, "claims", left)
<1>1. call' = [call EXCEPT ![p] = [@ EXCEPT !.seen = found, !.left = left, !.pc = l]]
  BY DEF LoadClaims, TypeOK, Call
<1> HIDE DEF found, left, l
<1>2. c \in Call /\ call'[p] = [c EXCEPT !.seen = found, !.left = left, !.pc = l]
  BY <1>1 DEF TypeOK
<1>3. /\ call'[p].seen = found /\ call'[p].left = left /\ call'[p].pc = l
      /\ call'[p].op = c.op /\ call'[p].now = c.now
      /\ call'[p].target = c.target /\ call'[p].missed = c.missed
  BY <1>2 DEF Call
<1>4. \A q \in Task \ {p} : call'[q] = call[q]
  BY <1>1 DEF TypeOK
<1>. QED
  BY <1>2, <1>3, <1>4 DEF found, left, l

\* Loading the ledger adds to what is seen and moves the call on.
LEMMA CallAfterLedger ==
  ASSUME TypeOK, NEW p \in Task, LoadLedger(p)
  PROVE  /\ call'[p].pc = After(call[p].op, "ledger", call[p].left)
         /\ call'[p].seen = call[p].seen \cup Found(p, "ledger", Loaded(p))
         /\ call'[p].op = call[p].op /\ call'[p].now = call[p].now
         /\ call'[p].target = call[p].target /\ call'[p].left = call[p].left
         /\ call'[p].missed = call[p].missed
         /\ \A q \in Task \ {p} : call'[q] = call[q]
<1> DEFINE seen == call[p].seen \cup Found(p, "ledger", Loaded(p))
           l    == After(call[p].op, "ledger", call[p].left)
<1>1. call' = [call EXCEPT ![p] = [@ EXCEPT !.seen = seen, !.pc = l]]
  BY DEF LoadLedger, TypeOK, Call
<1> HIDE DEF seen, l
<1>2. call[p] \in Call /\ call'[p] = [call[p] EXCEPT !.seen = seen, !.pc = l]
  BY <1>1 DEF TypeOK
<1>3. /\ call'[p].seen = seen /\ call'[p].pc = l
      /\ call'[p].op = call[p].op /\ call'[p].now = call[p].now
      /\ call'[p].target = call[p].target /\ call'[p].left = call[p].left
      /\ call'[p].missed = call[p].missed
  BY <1>2 DEF Call
<1>4. \A q \in Task \ {p} : call'[q] = call[q]
  BY <1>1 DEF TypeOK
<1>. QED
  BY <1>3, <1>4 DEF seen, l

\* Folding a claim takes it off what is left.
LEMMA CallAfterFolded ==
  ASSUME TypeOK, NEW p \in Task, NEW c, NEW loaded, NEW missed, Folded(p, c, loaded, missed)
  PROVE  /\ call'[p].pc = After(call[p].op, "assertions", call[p].left \ {c})
         /\ call'[p].seen = call[p].seen \cup loaded
         /\ call'[p].missed = call[p].missed \cup missed
         /\ call'[p].left = call[p].left \ {c}
         /\ call'[p].op = call[p].op /\ call'[p].now = call[p].now
         /\ call'[p].target = call[p].target
         /\ \A q \in Task \ {p} : call'[q] = call[q]
<1> DEFINE seen == call[p].seen \cup loaded
           all  == call[p].missed \cup missed
           left == call[p].left \ {c}
           l    == After(call[p].op, "assertions", left)
<1>1. call' = [call EXCEPT ![p] = [@ EXCEPT !.seen = seen, !.missed = all, !.left = left, !.pc = l]]
  BY DEF Folded, TypeOK, Call
<1> HIDE DEF seen, all, left, l
<1>2. call[p] \in Call
      /\ call'[p] = [call[p] EXCEPT !.seen = seen, !.missed = all, !.left = left, !.pc = l]
  BY <1>1 DEF TypeOK
<1>3. /\ call'[p].seen = seen /\ call'[p].missed = all /\ call'[p].left = left /\ call'[p].pc = l
      /\ call'[p].op = call[p].op /\ call'[p].now = call[p].now
      /\ call'[p].target = call[p].target
  BY <1>2 DEF Call
<1>4. \A q \in Task \ {p} : call'[q] = call[q]
  BY <1>1 DEF TypeOK
<1>. QED
  BY <1>3, <1>4 DEF seen, all, left, l

\* Steps keep to the operation, and a write call keeps the lock.
LEMMA StepPreserved ==
  ASSUME IInv, [Next]_vars
  PROVE  StepInv'
<1>. USE DEF IInv
<1>1. ASSUME NEW p \in Task, \A q \in Task \ {p} : call'[q] = call[q],
             \A q \in Task : storeLock = q => q = p \/ storeLock' = q,
             StepOf(call'[p], p, storeLock')
      PROVE  StepInv'
  BY <1>1 DEF StepInv, StepOf
<1>2. CASE UNCHANGED vars
  BY <1>2 DEF vars, StepInv, StepOf
<1>3. CASE Crash
  BY <1>3 DEF Crash, StepInv, StepOf, Idle, InTxn
<1>4. ASSUME NEW p \in Task, NEW op \in Op, NEW target \in 0..MaxClock,
             Start(p, op, target)
      PROVE  StepInv'
  <2>1. clock + 1 \in Instant
    BY <1>4, SqliteStoreAssumption DEF Start, TypeOK, Instant
  <2>2. call' = [call EXCEPT ![p] = CallAt(op, target, clock + 1)]
    BY <1>4 DEF Start, Begun
  <2>3. call'[p] = CallAt(op, target, clock + 1) /\ \A q \in Task \ {p} : call'[q] = call[q]
    BY <2>2 DEF TypeOK
  <2>4. StepOf(CallAt(op, target, clock + 1), p, storeLock)
    BY <1>4, <2>1 DEF StepOf, CallAt, InTxn
  <2>. QED
    BY <1>1, <1>4, <2>3, <2>4 DEF Start
<1>5. ASSUME NEW p \in Task, Lock(p)
      PROVE  StepInv'
  <2>1. /\ call[p].op \in Writing /\ call[p].now \in Instant
        /\ call'[p].pc = "claims" /\ call'[p].op = call[p].op /\ call'[p].now = call[p].now
        /\ \A q \in Task \ {p} : call'[q] = call[q]
    <3>1. Goto(p, "claims") /\ call[p].pc = "lock"
      BY <1>5 DEF Lock
    <3>2. call[p].op \in Writing /\ call[p].now \in Instant
      BY <3>1 DEF StepInv, StepOf
    <3>. QED
      BY <3>1, <3>2, CallAfterGoto
  <2>2. StepOf(call'[p], p, storeLock')
    BY <1>5, <2>1 DEF Lock, StepOf, InTxn
  <2>. QED
    BY <1>1, <1>5, <2>1, <2>2, SqliteStoreAssumption DEF Lock
<1>6. ASSUME NEW p \in Task, storeLock' = storeLock, call[p].pc \notin {"lock", "idle"},
             \A q \in Task \ {p} : call'[q] = call[q],
             call'[p].op = call[p].op, call'[p].now = call[p].now, call'[p].pc # "lock",
             call'[p].pc \in InTxn \cup {"begin"} => call[p].op \in Writing,
             call'[p].pc = "pending" => call[p].op = "ingest",
             call'[p].pc = "answer" => call[p].op = "query",
             call'[p].pc = "ledger" => call[p].op # "reopen"
      PROVE  StepInv'
  <2>1. StepOf(call'[p], p, storeLock')
    BY <1>6 DEF StepOf, StepInv
  <2>. QED
    BY <1>1, <1>6, <2>1
<1>7. ASSUME NEW p \in Task, call[p].pc \notin {"lock", "idle"}
      PROVE  call[p].op \in Op
  BY <1>7 DEF StepInv, StepOf, TypeOK, Call
<1>8. ASSUME NEW p \in Task, LoadClaims(p)
      PROVE  StepInv'
  <2> DEFINE l == call'[p].pc
  <2>0. call[p].op \in Op
    BY <1>7, <1>8 DEF LoadClaims
  <2>1. \E left : l = After(call[p].op, "claims", left)
    BY <1>8, CallAfterClaims
  <2>2. /\ l \in {"ledger", "assertions", "answer", "begin"}
        /\ l = "answer" => call[p].op = "query"
        /\ l = "begin" => call[p].op \in Writing
        /\ l = "ledger" => call[p].op # "reopen"
    BY <2>0, <2>1, AfterIsNext, AfterFits DEF Loading
  <2>3. call'[p].op = call[p].op /\ call'[p].now = call[p].now
        /\ \A q \in Task \ {p} : call'[q] = call[q]
    BY <1>8, CallAfterClaims
  <2>. QED
    BY <1>6, <1>8, <2>2, <2>3 DEF LoadClaims, InTxn
<1>9. ASSUME NEW p \in Task, LoadLedger(p)
      PROVE  StepInv'
  <2> DEFINE l == call'[p].pc
  <2>1. l = After(call[p].op, "ledger", call[p].left)
    BY <1>9, CallAfterLedger
  <2>2. /\ l \in {"ledger", "assertions", "answer", "begin"}
        /\ l = "answer" => call[p].op = "query"
        /\ l = "begin" => call[p].op \in Writing
        /\ l = "ledger" => call[p].op # "reopen"
    BY <1>7, <1>9, <2>1, AfterIsNext, AfterFits DEF LoadLedger, Loading
  <2>3. call'[p].op = call[p].op /\ call'[p].now = call[p].now
        /\ \A q \in Task \ {p} : call'[q] = call[q]
    BY <1>9, CallAfterLedger
  <2>. QED
    BY <1>6, <1>9, <2>2, <2>3 DEF LoadLedger, InTxn
<1>10. ASSUME NEW p \in Task, NEW c, NEW loaded, NEW missed, Folded(p, c, loaded, missed),
              call[p].pc = "assertions", storeLock' = storeLock
       PROVE  StepInv'
  <2> DEFINE l == call'[p].pc
  <2>1. \E left : l = After(call[p].op, "assertions", left)
    BY <1>10, CallAfterFolded, Zenon
  <2>2. /\ l \in {"ledger", "assertions", "answer", "begin"}
        /\ l = "answer" => call[p].op = "query"
        /\ l = "begin" => call[p].op \in Writing
        /\ l = "ledger" => call[p].op # "reopen"
    BY <1>7, <1>10, <2>1, AfterIsNext, AfterFits DEF Loading
  <2>3. call'[p].op = call[p].op /\ call'[p].now = call[p].now
        /\ \A q \in Task \ {p} : call'[q] = call[q]
    BY <1>10, CallAfterFolded, Zenon
  <2>. QED
    BY <1>6, <1>10, <2>2, <2>3 DEF InTxn
<1>11. ASSUME NEW p \in Task, NEW c \in Instant, LoadAssertions(p, c) \/ MissAssertions(p, c)
       PROVE  StepInv'
  BY <1>10, <1>11 DEF LoadAssertions, MissAssertions, Lenient
<1>12. ASSUME NEW p \in Task, NEW l, Goto(p, l), storeLock' = storeLock,
              call[p].pc \notin {"lock", "idle"}, l \notin {"lock", "begin", "answer", "ledger"},
              l \in InTxn => call[p].pc \in InTxn \cup {"begin"},
              l = "pending" => call[p].op = "ingest"
       PROVE  StepInv'
  <2>1. l \in InTxn => call[p].op \in Writing
    BY <1>12 DEF StepInv, StepOf
  <2>2. /\ call'[p].pc = l /\ call'[p].op = call[p].op /\ call'[p].now = call[p].now
        /\ \A q \in Task \ {p} : call'[q] = call[q]
    BY <1>12, CallAfterGoto
  <2>. QED
    BY <1>6, <1>12, <2>1, <2>2
<1>13. ASSUME NEW p \in Task,
              \/ Refused(p) \/ Decline(p) \/ Begin(p) \/ Commit(p) \/ Rollback(p) \/ InsertPending(p)
       PROVE  StepInv'
  BY <1>12, <1>13 DEF Refused, Decline, Begin, Commit, Rollback, InsertPending, InTxn, Loading
<1>14. ASSUME NEW p \in Task, Append(p)
       PROVE  StepInv'
  <2>1. CASE UNCHANGED call
    BY <1>14, <2>1 DEF Append, StepInv, StepOf
  <2>2. CASE Goto(p, "commit")
    BY <1>12, <1>14, <2>2 DEF Append, InTxn
  <2>. QED
    BY <1>14, <2>1, <2>2 DEF Append
<1>15. ASSUME NEW p \in Task, Fail(p)
       PROVE  StepInv'
  <2>1. CASE Drop(p)
    BY <1>12, <1>15, <2>1 DEF Fail, Drop, InTxn
  <2>2. CASE call[p].pc = "append" /\ Goto(p, "rollback")
    BY <1>12, <1>15, <2>2 DEF Fail, InTxn
  <2>3. CASE call[p].pc \in Loading \cup {"pending"} /\ Goto(p, "return")
    BY <1>12, <1>15, <2>3 DEF Fail, InTxn, Loading
  <2>4. CASE Lenient(p) /\ \E c \in call[p].left : Folded(p, c, {}, {c})
    BY <1>10, <1>15, <2>4 DEF Fail, Lenient
  <2>. QED
    BY <1>15, <2>1, <2>2, <2>3, <2>4 DEF Fail, FailStatement
<1>16. ASSUME NEW p \in Task, Return(p)
       PROVE  StepInv'
  <2>1. call'[p] = Idle /\ \A q \in Task \ {p} : call'[q] = call[q]
    BY <1>16 DEF Return, TypeOK
  <2>2. StepOf(Idle, p, storeLock')
    BY DEF StepOf, Idle, InTxn
  <2>. QED
    BY <1>1, <1>16, <2>1, <2>2 DEF Return
<1>. QED
  BY <1>2, <1>3, <1>4, <1>5, <1>8, <1>9, <1>11, <1>13, <1>14, <1>15, <1>16 DEF Next

-----------------------------------------------------------------------------
\* Two write calls past the lock are one.
LEMMA OneWriter ==
  ASSUME StepInv, NEW p \in Task, NEW q \in Task,
         call[p].op \in Writing, call[p].pc # "lock",
         call[q].op \in Writing, call[q].pc # "lock"
  PROVE  p = q
BY DEF StepInv, StepOf

\* A call that has, opens or has just closed a transaction is the only one that has one.
LEMMA OneTransaction ==
  ASSUME StepInv, NEW p \in Task, NEW q \in Task,
         call[p].pc \in InTxn \cup {"begin", "pending"}, call[q].pc \in InTxn
  PROVE  p = q
BY DEF StepInv, StepOf, InTxn

\* The connection is out for the transaction of the one call that has it.
LEMMA TxnPreserved ==
  ASSUME IInv, [Next]_vars
  PROVE  TxnInv'
<1>. USE DEF IInv
<1>0. ClaimsIn(file) \subseteq ClaimsIn(file)'
  BY FilePreserved
<1>1. ASSUME NEW p \in Task, \A q \in Task \ {p} : call'[q] = call[q],
             \A q \in Task \ {p} : call[q].pc \in InTxn => open' = open,
             \/ slot' # "out"
             \/ call'[p].pc \in InTxn
             \/ slot = "out" /\ call[p].pc \notin InTxn,
             TxnOf(p)'
      PROVE  TxnInv'
  <2>1. ASSUME NEW q \in Task, q # p
        PROVE  TxnOf(q)'
    BY <1>0, <1>1, <2>1 DEF TxnInv, TxnOf, InTxn, First, Second, Claimed
  <2>2. slot' = "out" => \E q \in Task : call'[q].pc \in InTxn
    <3>1. CASE slot = "out" /\ call[p].pc \notin InTxn
      <4>1. PICK q \in Task : call[q].pc \in InTxn
        BY <3>1 DEF TxnInv
      <4>. QED
        BY <1>1, <3>1, <4>1
    <3>. QED
      BY <1>1, <3>1
  <2>. QED
    BY <1>1, <2>1, <2>2 DEF TxnInv
<1>2. CASE UNCHANGED vars
  BY <1>2 DEF vars, TxnInv, TxnOf, ClaimsIn, First, Second, Claimed
<1>3. CASE Crash
  BY <1>3 DEF Crash, TxnInv, TxnOf, Idle
<1>4. ASSUME NEW p \in Task, UNCHANGED <<slot, open>>, \A q \in Task \ {p} : call'[q] = call[q],
             call[p].pc \notin InTxn, call'[p].pc \notin InTxn \cup {"pending"},
             call'[p].op \in Names => call'[p].target \in ClaimsIn(file)'
      PROVE  TxnInv'
  <2>1. TxnOf(p)'
    BY <1>4 DEF TxnOf, InTxn
  <2>. QED
    BY <1>1, <1>4, <2>1
<1>5. ASSUME NEW p \in Task, UNCHANGED <<slot, open>>, \A q \in Task \ {p} : call'[q] = call[q],
             call[p].pc \notin InTxn, call'[p].pc \notin InTxn \cup {"pending"},
             call'[p].op = call[p].op, call'[p].target = call[p].target
      PROVE  TxnInv'
  <2>1. call[p].op \in Names => call[p].target \in ClaimsIn(file)'
    BY <1>0 DEF TxnInv, TxnOf
  <2>. QED
    BY <1>4, <1>5, <2>1
<1>6. ASSUME NEW p \in Task, NEW op \in Op, NEW target \in 0..MaxClock,
             Start(p, op, target)
      PROVE  TxnInv'
  <2>1. call'[p] = CallAt(op, target, clock + 1) /\ \A q \in Task \ {p} : call'[q] = call[q]
    BY <1>6 DEF Start, Begun, TypeOK
  <2>2. op \in Names => target \in ClaimsIn(file)
    BY <1>6 DEF Start, ClaimsIn
  <2>3. call[p].pc = "idle" /\ call'[p].pc \in {"claims", "lock"}
        /\ call'[p].op = op /\ call'[p].target = target
    BY <1>6, <2>1 DEF Start, Idle, CallAt
  <2>. QED
    BY <1>0, <1>4, <1>6, <2>1, <2>2, <2>3 DEF Start, InTxn
<1>7. ASSUME NEW p \in Task, NEW l, Goto(p, l), UNCHANGED <<slot, open>>, call[p].pc \notin InTxn,
             l \notin InTxn \cup {"pending"}
      PROVE  TxnInv'
  <2>1. /\ call'[p].pc = l /\ call'[p].op = call[p].op /\ call'[p].target = call[p].target
        /\ \A q \in Task \ {p} : call'[q] = call[q]
    BY <1>7, CallAfterGoto
  <2>. QED
    BY <1>5, <1>7, <2>1
<1>8. ASSUME NEW p \in Task, Lock(p) \/ Refused(p) \/ Decline(p) \/ InsertPending(p)
      PROVE  TxnInv'
  BY <1>7, <1>8 DEF Lock, Refused, Decline, InsertPending, InTxn, Loading
<1>9. ASSUME NEW p \in Task, LoadClaims(p) \/ LoadLedger(p)
      PROVE  TxnInv'
  <2>1. \E table \in Loading : \E left : call'[p].pc = After(call[p].op, table, left)
    <3>1. CASE LoadClaims(p)
      BY <3>1, CallAfterClaims DEF Loading
    <3>2. CASE LoadLedger(p)
      BY <3>2, CallAfterLedger DEF Loading
    <3>. QED
      BY <1>9, <3>1, <3>2
  <2>2. call'[p].pc \notin InTxn \cup {"pending"}
    BY <2>1, AfterIsNext DEF InTxn
  <2>3. /\ call'[p].op = call[p].op /\ call'[p].target = call[p].target
        /\ \A q \in Task \ {p} : call'[q] = call[q]
    BY <1>9, CallAfterClaims, CallAfterLedger
  <2>. QED
    BY <1>5, <1>9, <2>2, <2>3 DEF LoadClaims, LoadLedger, InTxn
<1>10. ASSUME NEW p \in Task, NEW c, NEW loaded, NEW missed, Folded(p, c, loaded, missed),
              call[p].pc = "assertions", UNCHANGED <<slot, open>>
       PROVE  TxnInv'
  <2>0. \E left : call'[p].pc = After(call[p].op, "assertions", left)
    BY <1>10, CallAfterFolded, Zenon
  <2>1. call'[p].pc \notin InTxn \cup {"pending"}
    BY <2>0, AfterIsNext DEF InTxn, Loading
  <2>2. /\ call'[p].op = call[p].op /\ call'[p].target = call[p].target
        /\ \A q \in Task \ {p} : call'[q] = call[q]
    BY <1>10, CallAfterFolded, Zenon
  <2>. QED
    BY <1>5, <1>10, <2>1, <2>2 DEF InTxn
<1>11. ASSUME NEW p \in Task, NEW c \in Instant, LoadAssertions(p, c) \/ MissAssertions(p, c)
       PROVE  TxnInv'
  BY <1>10, <1>11 DEF LoadAssertions, MissAssertions, Lenient
<1>12. ASSUME NEW p \in Task, NEW l, Goto(p, l), call[p].pc \in InTxn \cup {"begin"},
              slot' # "out" \/ l \in InTxn,
              l = "append" => open' \in {{}, {First(p)}},
              l = "commit" => open' = {First(p), Second(p)},
              l = "pending" => call[p].now \in ClaimsIn(file)'
       PROVE  TxnInv'
  <2>1. /\ call'[p].pc = l /\ call'[p].op = call[p].op /\ call'[p].target = call[p].target
        /\ call'[p].now = call[p].now
        /\ \A q \in Task \ {p} : call'[q] = call[q]
    BY <1>12, CallAfterGoto
  <2>2. First(p)' = First(p) /\ Second(p)' = Second(p)
    BY <2>1 DEF First, Second, Claimed
  <2>3. TxnOf(p)'
    BY <1>0, <1>12, <2>1, <2>2 DEF TxnInv, TxnOf
  <2>4. \A q \in Task \ {p} : call[q].pc \notin InTxn
    BY <1>12, OneTransaction
  <2>. QED
    BY <1>1, <1>12, <2>1, <2>3, <2>4
<1>13. ASSUME NEW p \in Task, Begin(p) \/ Rollback(p)
       PROVE  TxnInv'
  BY <1>12, <1>13 DEF Begin, Rollback, InTxn
<1>14. ASSUME NEW p \in Task, Append(p)
       PROVE  TxnInv'
  <2>1. CASE open = {} /\ open' = {First(p)} /\ UNCHANGED call
    <3>1. First(p)' = First(p)
      BY <2>1 DEF First, Claimed
    <3>2. TxnOf(p)'
      BY <1>0, <1>14, <2>1, <3>1 DEF Append, TxnInv, TxnOf
    <3>3. \A q \in Task \ {p} : call[q].pc \notin InTxn
      BY <1>14, OneTransaction DEF Append, InTxn
    <3>. QED
      BY <1>1, <1>14, <2>1, <3>2, <3>3 DEF Append, InTxn
  <2>2. CASE open # {} /\ open' = open \cup {Second(p)} /\ Goto(p, "commit")
    <3>1. open' = {First(p), Second(p)}
      BY <1>14, <2>2 DEF Append, TxnInv, TxnOf
    <3>. QED
      BY <1>12, <1>14, <2>2, <3>1 DEF Append, InTxn
  <2>. QED
    BY <1>14, <2>1, <2>2 DEF Append
<1>15. ASSUME NEW p \in Task, Commit(p)
       PROVE  TxnInv'
  <2>1. call[p].op = "ingest" => call[p].now \in ClaimsIn(file)'
    <3>1. First(p) \in file'
      BY <1>15 DEF Commit, TxnInv, TxnOf
    <3>. QED
      BY <3>1 DEF First, Claimed, RowOf, ClaimsIn
  <2>. QED
    BY <1>12, <1>15, <2>1 DEF Commit, InTxn
<1>16. ASSUME NEW p \in Task, Fail(p)
       PROVE  TxnInv'
  <2>1. CASE Drop(p)
    BY <1>12, <1>16, <2>1 DEF Drop, InTxn
  <2>2. CASE call[p].pc = "append" /\ Goto(p, "rollback") /\ UNCHANGED <<slot, open>>
    BY <1>12, <1>16, <2>2 DEF InTxn
  <2>3. CASE call[p].pc \in Loading \cup {"pending"} /\ Goto(p, "return") /\ UNCHANGED <<slot, open>>
    BY <1>7, <1>16, <2>3 DEF InTxn, Loading
  <2>4. CASE Lenient(p) /\ (\E c \in call[p].left : Folded(p, c, {}, {c})) /\ UNCHANGED <<slot, open>>
    BY <1>10, <1>16, <2>4 DEF Lenient
  <2>. QED
    BY <1>16, <2>1, <2>2, <2>3, <2>4 DEF Fail, FailStatement
<1>17. ASSUME NEW p \in Task, Return(p)
       PROVE  TxnInv'
  <2>1. call'[p] = Idle /\ \A q \in Task \ {p} : call'[q] = call[q]
    BY <1>17 DEF Return, TypeOK
  <2>. QED
    BY <1>4, <1>17, <2>1 DEF Return, Idle, InTxn
<1>. QED
  BY <1>2, <1>3, <1>6, <1>8, <1>9, <1>11, <1>13, <1>14, <1>15, <1>16, <1>17 DEF Next

-----------------------------------------------------------------------------
\* What a write call has loaded stays all there is: nobody else writes while it has the lock.
LEMMA LoadPreserved ==
  ASSUME IInv, [Next]_vars
  PROVE  LoadInv'
<1>. USE DEF IInv
<1> DEFINE Decided == InTxn \cup {"begin"}
<1>1. ASSUME NEW p \in Task, NEW q \in Task, q # p, call'[q] = call[q],
             file' = file \/ call[p].pc \in {"commit", "pending"}
      PROVE  LoadOf(q)'
  <2>1. CASE file' = file
    <3>1. Basis(q)' = Basis(q) /\ ClaimsIn(file)' = ClaimsIn(file)
      BY <1>1, <2>1 DEF Basis, ClaimsIn
    <3>. QED
      BY <1>1, <2>1, <3>1 DEF LoadInv, LoadOf, Of
  <2>2. CASE call[p].pc \in {"commit", "pending"}
    <3>1. call[p].op \in Writing
      BY <2>2 DEF StepInv, StepOf, InTxn
    <3>2. call[q].op \in Writing => call[q].pc = "lock"
      BY <1>1, <2>2, <3>1, OneWriter
    <3>3. call[q].pc \notin InTxn \cup {"begin"}
      BY <3>2 DEF StepInv, StepOf, InTxn
    <3>. QED
      BY <1>1, <3>2, <3>3 DEF LoadInv, LoadOf
  <2>. QED
    BY <1>1, <2>1, <2>2
<1>2. ASSUME NEW p \in Task, \A q \in Task \ {p} : call'[q] = call[q],
             file' = file \/ call[p].pc \in {"commit", "pending"}, LoadOf(p)'
      PROVE  LoadInv'
  BY <1>1, <1>2 DEF LoadInv
<1>3. CASE UNCHANGED vars
  BY <1>3 DEF vars, LoadInv, LoadOf, Of, Basis, ClaimsIn
<1>4. CASE Crash
  <2>1. ASSUME NEW q \in Task
        PROVE  /\ call'[q].pc = "idle" /\ call'[q].op = "none"
               /\ call'[q].left = {} /\ call'[q].missed = {}
    BY <1>4 DEF Crash, Idle
  <2>. QED
    BY <2>1 DEF LoadInv, LoadOf, InTxn
<1>5. ASSUME NEW p \in Task, NEW op \in Op, NEW target \in 0..MaxClock,
             Start(p, op, target)
      PROVE  LoadInv'
  <2>1. call'[p] = CallAt(op, target, clock + 1) /\ \A q \in Task \ {p} : call'[q] = call[q]
    BY <1>5 DEF Start, Begun, TypeOK
  <2>2. call'[p].pc \in {"claims", "lock"} /\ call'[p].left = {} /\ call'[p].missed = {}
    BY <2>1 DEF CallAt
  <2>3. LoadOf(p)'
    BY <2>2 DEF LoadOf, InTxn
  <2>. QED
    BY <1>2, <1>5, <2>1, <2>3 DEF Start
<1>6. ASSUME NEW p \in Task, NEW l, Goto(p, l), l \notin Decided \cup {"ledger", "assertions"},
             l = "claims" => call[p].pc = "lock", l # "lock",
             file' = file \/ call[p].pc \in {"commit", "pending"}
      PROVE  LoadInv'
  <2>1. /\ call'[p].pc = l /\ call'[p].op = call[p].op
        /\ call'[p].left = call[p].left /\ call'[p].missed = call[p].missed
        /\ \A q \in Task \ {p} : call'[q] = call[q]
    BY <1>6, CallAfterGoto
  <2>2. LoadOf(p)'
    BY <1>6, <2>1 DEF LoadInv, LoadOf
  <2>. QED
    BY <1>2, <1>6, <2>1, <2>2
<1>7. ASSUME NEW p \in Task,
             \/ Lock(p) \/ Refused(p) \/ Decline(p) \/ Commit(p) \/ Rollback(p) \/ InsertPending(p)
      PROVE  LoadInv'
  BY <1>6, <1>7 DEF Lock, Refused, Decline, Commit, Rollback, InsertPending, InTxn
<1>8. ASSUME NEW p \in Task, NEW l, Goto(p, l), l \in InTxn, call[p].pc \in Decided, file' = file
      PROVE  LoadInv'
  <2>1. /\ call'[p].pc = l /\ call'[p].op = call[p].op /\ call'[p].target = call[p].target
        /\ call'[p].seen = call[p].seen
        /\ call'[p].left = call[p].left /\ call'[p].missed = call[p].missed
        /\ \A q \in Task \ {p} : call'[q] = call[q]
    BY <1>8, CallAfterGoto
  <2>2. Basis(p)' = Basis(p)
    BY <1>8, <2>1 DEF Basis
  <2>3. LoadOf(p)'
    BY <1>8, <2>1, <2>2 DEF LoadInv, LoadOf, InTxn
  <2>. QED
    BY <1>2, <1>8, <2>1, <2>3
<1>9. ASSUME NEW p \in Task, Begin(p) \/ Append(p)
      PROVE  LoadInv'
  <2>1. CASE Goto(p, "append") \/ Goto(p, "commit")
    BY <1>8, <1>9, <2>1 DEF Begin, Append, InTxn
  <2>2. CASE UNCHANGED call
    BY <1>9, <2>2 DEF Begin, Append, LoadInv, LoadOf, Of, Basis, ClaimsIn
  <2>. QED
    BY <1>9, <2>1, <2>2 DEF Begin, Append
<1>10. ASSUME NEW p \in Task, Return(p)
       PROVE  LoadInv'
  <2>1. call'[p] = Idle /\ \A q \in Task \ {p} : call'[q] = call[q]
    BY <1>10 DEF Return, TypeOK
  <2>2. /\ call'[p].pc = "idle" /\ call'[p].op = "none"
        /\ call'[p].left = {} /\ call'[p].missed = {}
    BY <2>1 DEF Idle
  <2>3. LoadOf(p)'
    BY <2>2 DEF LoadOf, InTxn
  <2>. QED
    BY <1>2, <1>10, <2>1, <2>3 DEF Return
<1>11. ASSUME NEW p \in Task, LoadClaims(p)
       PROVE  LoadInv'
  <2> DEFINE c     == call[p]
             found == Found(p, "claims", IF c.op \in Names THEN {c.target} ELSE Instant)
             left  == {r.claim : r \in found}
  <2>1. /\ call'[p].seen = found /\ call'[p].left = left
        /\ call'[p].pc = After(c.op, "claims", left)
        /\ call'[p].op = c.op /\ call'[p].target = c.target /\ call'[p].missed = c.missed
        /\ \A q \in Task \ {p} : call'[q] = call[q]
    BY <1>11, CallAfterClaims
  <2>2. c.missed = {} /\ file' = file
    BY <1>11 DEF LoadClaims, LoadInv, LoadOf
  <2>3. \A r \in file : r.claim \in Instant
    BY DEF TypeOK, Row
  <2>4. CASE c.op = "ingest"
    <3>1. found = Of({"claims"}, Instant)
      BY <2>3, <2>4 DEF Found, Visible, Of
    <3>2. left = ClaimsIn(file)
      BY <2>3, <3>1 DEF Of, ClaimsIn
    <3>3. left = {} => file = {} /\ found = {}
      BY <3>1, <3>2 DEF FileInv, Of
    <3> HIDE DEF found, left
    <3>4. call'[p].pc = IF left # {} THEN "ledger" ELSE "begin"
      BY <2>1, <2>4 DEF After, Decide
    <3>5. Of({"claims"}, Instant)' = Of({"claims"}, Instant) /\ ClaimsIn(file)' = ClaimsIn(file)
      BY <2>2 DEF Of, ClaimsIn
    <3>6. left = {} => Basis(p)' = {}
      BY <2>1, <2>2, <2>4, <3>3 DEF Basis
    <3>7. LoadOf(p)'
      BY <2>1, <2>2, <2>4, <3>1, <3>2, <3>3, <3>4, <3>5, <3>6 DEF LoadOf, InTxn
    <3>. QED
      BY <1>2, <2>1, <2>2, <3>7
  <2>5. CASE c.op \in Names
    <3>1. found = Of({"claims"}, {c.target})
      BY <2>5 DEF Found, Visible, Of
    <3>2. left = {c.target}
      <4>1. PICK r \in file : r.table = "claims" /\ r.claim = c.target
        BY <2>5 DEF TxnInv, TxnOf, ClaimsIn
      <4>. QED
        BY <3>1, <4>1 DEF Of
    <3> HIDE DEF found, left
    <3>3. call'[p].pc = "assertions"
      BY <2>1, <2>5, <3>2 DEF After
    <3>6. LoadOf(p)'
      BY <2>1, <2>2, <2>5, <3>1, <3>2, <3>3 DEF LoadOf, InTxn, Of
    <3>. QED
      BY <1>2, <2>1, <2>2, <3>6
  <2>6. CASE c.op \notin Writing
    <3>1. call'[p].pc \notin InTxn \cup {"begin"}
      <4>1. c.op = "query"
        BY <1>11, <2>6 DEF LoadClaims, StepInv, StepOf, TypeOK, Call
      <4> HIDE DEF found, left
      <4>. QED
        BY <2>1, <4>1 DEF After, Decide, InTxn
    <3> HIDE DEF found, left
    <3>2. LoadOf(p)'
      BY <2>1, <2>2, <2>6, <3>1 DEF LoadOf
    <3>. QED
      BY <1>2, <2>1, <2>2, <3>2
  <2>. QED
    BY <2>4, <2>5, <2>6
<1>12. ASSUME NEW p \in Task, LoadLedger(p)
       PROVE  LoadInv'
  <2> DEFINE c     == call[p]
             found == Found(p, "ledger", Loaded(p))
  <2>1. /\ call'[p].seen = c.seen \cup found /\ call'[p].left = c.left
        /\ call'[p].pc = After(c.op, "ledger", c.left)
        /\ call'[p].op = c.op /\ call'[p].target = c.target /\ call'[p].missed = c.missed
        /\ \A q \in Task \ {p} : call'[q] = call[q]
    BY <1>12, CallAfterLedger
  <2>2. c.missed = {} /\ c.pc = "ledger" /\ file' = file
    BY <1>12 DEF LoadLedger, LoadInv, LoadOf
  <2>3. \A r \in file : r.claim \in Instant /\ r.table \in Table
    BY DEF TypeOK, Row
  <2>4. CASE c.op = "ingest"
    <3>1. c.seen = Of({"claims"}, Instant) /\ c.left = ClaimsIn(file)
      BY <2>2, <2>4 DEF LoadInv, LoadOf
    <3>2. Loaded(p) = ClaimsIn(file)
      BY <2>3, <3>1 DEF Loaded, Of, ClaimsIn
    <3>3. found = Of({"ledger"}, Instant)
      BY <2>3, <2>4, <3>2 DEF Found, Visible, Of, FileInv
    <3>4. Of({"assertions"}, Instant \ (c.left \cup c.missed)) = {}
      BY <3>1 DEF Of, FileInv
    <3> HIDE DEF found
    <3>5. c.seen \cup found = Of({"claims", "ledger"}, Instant)
      BY <3>1, <3>3 DEF Of
    <3>6. call'[p].pc = "assertions"
      BY <2>1, <2>4 DEF After
    <3>7. LoadOf(p)'
      BY <2>1, <2>2, <2>4, <3>4, <3>5, <3>6 DEF LoadOf, InTxn, Of
    <3>. QED
      BY <1>2, <2>1, <2>2, <3>7
  <2>5. CASE c.op \in Names
    <3>0. c.op = "bound"
      BY <2>2, <2>5 DEF StepInv, StepOf
    <3>1. c.seen = Of({"claims", "assertions"}, {c.target})
      BY <2>2, <2>5 DEF LoadInv, LoadOf
    <3>2. Loaded(p) = {c.target}
      BY <2>5, <3>1 DEF Loaded, Of, TxnInv, TxnOf, ClaimsIn
    <3>3. found = Of({"ledger"}, {c.target})
      BY <2>5, <3>2 DEF Found, Visible, Of
    <3> HIDE DEF found
    <3>4. c.seen \cup found = {r \in file : r.table # "pending" /\ r.claim = c.target}
      BY <2>3, <3>1, <3>3 DEF Of, Table
    <3>5. Basis(p)' = {r \in file : r.table # "pending" /\ r.claim = c.target}
      BY <2>1, <2>2, <3>0 DEF Basis
    <3>6. call'[p].pc = "begin"
      BY <2>1, <3>0 DEF After, Decide
    <3>7. LoadOf(p)'
      BY <2>1, <2>2, <2>5, <3>4, <3>5, <3>6 DEF LoadOf, InTxn
    <3>. QED
      BY <1>2, <2>1, <2>2, <3>7
  <2>6. CASE c.op \notin Writing
    <3>1. c.op = "query"
      BY <2>2, <2>6 DEF StepInv, StepOf, TypeOK, Call
    <3> HIDE DEF found
    <3>2. call'[p].pc = "assertions"
      BY <2>1, <3>1 DEF After
    <3>3. LoadOf(p)'
      BY <2>1, <2>2, <3>1, <3>2 DEF LoadOf, InTxn
    <3>. QED
      BY <1>2, <2>1, <2>2, <3>3
  <2>. QED
    BY <2>4, <2>5, <2>6
<1>13. ASSUME NEW p \in Task, NEW c \in call[p].left, NEW loaded, NEW missed,
              Folded(p, c, loaded, missed), call[p].pc = "assertions", file' = file,
              \/ loaded = Found(p, "assertions", {c}) /\ missed = {}
              \/ loaded = {} /\ missed = {c} /\ call[p].op \notin Names
       PROVE  LoadInv'
  <2>1. /\ call'[p].pc = After(call[p].op, "assertions", call[p].left \ {c})
        /\ call'[p].seen = call[p].seen \cup loaded
        /\ call'[p].missed = call[p].missed \cup missed
        /\ call'[p].left = call[p].left \ {c}
        /\ call'[p].op = call[p].op /\ call'[p].now = call[p].now
        /\ call'[p].target = call[p].target
        /\ \A q \in Task \ {p} : call'[q] = call[q]
    BY <1>13, CallAfterFolded, Zenon
  <2> DEFINE left == call[p].left \ {c}
             all  == call[p].missed \cup missed
  <2>2. /\ call[p].left \cap call[p].missed = {}
        /\ call[p].op \in Names => call[p].missed = {}
    BY DEF LoadInv, LoadOf
  <2>3. left \cap all = {} /\ (call[p].op \in Names => all = {})
    BY <1>13, <2>2
  <2>4. \A r \in file : r.claim \in Instant /\ r.table \in Table
    BY DEF TypeOK, Row
  <2>5. c \in Instant
    BY DEF TypeOK, Call
  <2>6. CASE call[p].op = "ingest"
    <3>1. call[p].seen = Of({"claims", "ledger"}, Instant)
                           \cup Of({"assertions"}, Instant \ (call[p].left \cup call[p].missed))
      BY <1>13, <2>6 DEF LoadInv, LoadOf
    <3>2. call[p].seen \cup loaded = Of({"claims", "ledger"}, Instant)
                                       \cup Of({"assertions"}, Instant \ (left \cup all))
      <4>1. CASE loaded = Found(p, "assertions", {c}) /\ missed = {}
        <5>1. loaded = Of({"assertions"}, {c})
          BY <4>1 DEF Found, Of
        <5>2. Instant \ (left \cup all) = (Instant \ (call[p].left \cup call[p].missed)) \cup {c}
          BY <2>2, <2>5, <4>1
        <5>. QED
          BY <3>1, <5>1, <5>2 DEF Of
      <4>2. CASE loaded = {} /\ missed = {c}
        <5>1. Instant \ (left \cup all) = Instant \ (call[p].left \cup call[p].missed)
          BY <4>2
        <5>. QED
          BY <3>1, <4>2, <5>1
      <4>. QED
        BY <1>13, <4>1, <4>2
    <3>3. call'[p].pc = IF left # {} THEN "assertions" ELSE "begin"
      BY <2>1, <2>6 DEF After, Decide
    <3>4. CASE left # {}
      <4>1. LoadOf(p)'
        BY <1>13, <2>1, <2>3, <2>6, <3>2, <3>3, <3>4 DEF LoadOf, InTxn, Of
      <4>. QED
        BY <1>2, <1>13, <2>1, <4>1
    <3>5. CASE left = {}
      <4>1. Basis(p)' = Of({"claims", "ledger"}, Instant) \cup Of({"assertions"}, Instant \ all)
        BY <1>13, <2>1, <2>4, <2>6 DEF Basis, Of, Table
      <4>2. LoadOf(p)'
        BY <2>1, <2>3, <2>6, <3>2, <3>3, <3>5, <4>1 DEF LoadOf, InTxn
      <4>. QED
        BY <1>2, <1>13, <2>1, <4>2
    <3>. QED
      BY <3>4, <3>5
  <2>7. CASE call[p].op \in Names
    <3>1. call[p].seen = Of({"claims"}, {call[p].target}) /\ call[p].left = {call[p].target}
      BY <1>13, <2>7 DEF LoadInv, LoadOf
    <3>2. c = call[p].target /\ left = {} /\ loaded = Of({"assertions"}, {call[p].target})
      BY <1>13, <2>7, <3>1 DEF Found, Of
    <3>3. call[p].seen \cup loaded = Of({"claims", "assertions"}, {call[p].target})
      BY <3>1, <3>2 DEF Of
    <3>4. call'[p].pc = IF call[p].op = "bound" THEN "ledger" ELSE "begin"
      BY <2>1, <2>7, <3>2 DEF After, Decide
    <3>5. call[p].op = "reopen" => Basis(p)' = Of({"claims", "assertions"}, {call[p].target})
      BY <1>13, <2>1, <2>3, <2>4 DEF Basis, Of, Table
    <3>6. LoadOf(p)'
      BY <1>13, <2>1, <2>3, <2>7, <3>3, <3>4, <3>5 DEF LoadOf, InTxn, Of
    <3>. QED
      BY <1>2, <1>13, <2>1, <3>6
  <2>8. CASE call[p].op \notin Writing
    <3>1. call[p].op = "query"
      BY <1>13, <2>8 DEF StepInv, StepOf, TypeOK, Call
    <3>2. call'[p].pc \in {"assertions", "answer"}
      BY <2>1, <3>1 DEF After, Decide
    <3>3. LoadOf(p)'
      BY <2>1, <2>3, <3>1, <3>2 DEF LoadOf, InTxn
    <3>. QED
      BY <1>2, <1>13, <2>1, <3>3
  <2>. QED
    BY <2>6, <2>7, <2>8
<1>14. ASSUME NEW p \in Task, NEW c \in Instant, LoadAssertions(p, c) \/ MissAssertions(p, c)
       PROVE  LoadInv'
  BY <1>13, <1>14 DEF LoadAssertions, MissAssertions, Lenient
<1>15. ASSUME NEW p \in Task, Fail(p)
       PROVE  LoadInv'
  <2>1. CASE Drop(p) \/ Goto(p, "return")
    BY <1>6, <1>15, <2>1 DEF Drop, Fail, InTxn
  <2>2. CASE call[p].pc = "append" /\ Goto(p, "rollback")
    BY <1>8, <1>15, <2>2 DEF Fail, InTxn
  <2>3. CASE Lenient(p) /\ \E c \in call[p].left : Folded(p, c, {}, {c})
    BY <1>13, <1>15, <2>3 DEF Fail, Lenient
  <2>. QED
    BY <1>15, <2>1, <2>2, <2>3 DEF Fail, FailStatement
<1>. QED
  BY <1>3, <1>4, <1>5, <1>7, <1>9, <1>10, <1>11, <1>12, <1>14, <1>15 DEF Next

-----------------------------------------------------------------------------
\* What a query has loaded stays whole: a write adds to the file only, and all of its rows at
\* once.
LEMMA QueryPreserved ==
  ASSUME IInv, [Next]_vars
  PROVE  QueryInv'
<1>. USE DEF IInv
<1>0. file \subseteq file' /\ FileInv
  BY FilePreserved
<1>1. ASSUME NEW q \in Task, call'[q] = call[q]
      PROVE  call'[q].op = "query" => QueryOf(q)'
  BY <1>0, <1>1 DEF QueryInv, QueryOf, ClaimsIn
<1>2. ASSUME NEW p \in Task, \A q \in Task \ {p} : call'[q] = call[q],
             call'[p].op = "query" => QueryOf(p)'
      PROVE  QueryInv'
  BY <1>1, <1>2 DEF QueryInv
<1>3. CASE UNCHANGED call
  BY <1>1, <1>3 DEF QueryInv
<1>4. CASE Crash
  BY <1>4 DEF Crash, QueryInv, Idle
<1>5. ASSUME NEW p \in Task, \A q \in Task \ {p} : call'[q] = call[q],
             call'[p].pc \notin {"ledger", "assertions", "answer"}
      PROVE  QueryInv'
  BY <1>2, <1>5 DEF QueryOf
<1>6. ASSUME NEW p \in Task, NEW op \in Op, NEW target \in 0..MaxClock,
             Start(p, op, target)
      PROVE  QueryInv'
  <2>1. call'[p] = CallAt(op, target, clock + 1) /\ \A q \in Task \ {p} : call'[q] = call[q]
    BY <1>6 DEF Start, Begun, TypeOK
  <2>2. call'[p].pc \in {"claims", "lock"}
    BY <2>1 DEF CallAt
  <2>. QED
    BY <1>5, <2>1, <2>2
<1>7. ASSUME NEW p \in Task, NEW l, Goto(p, l), l \notin {"ledger", "assertions", "answer"}
      PROVE  QueryInv'
  <2>1. call'[p].pc = l /\ \A q \in Task \ {p} : call'[q] = call[q]
    BY <1>7, CallAfterGoto
  <2>. QED
    BY <1>5, <1>7, <2>1
<1>8. ASSUME NEW p \in Task,
             \/ Lock(p) \/ Refused(p) \/ Decline(p) \/ Begin(p) \/ Append(p) \/ Commit(p)
             \/ Rollback(p) \/ InsertPending(p)
      PROVE  QueryInv'
  BY <1>3, <1>7, <1>8 DEF Lock, Refused, Decline, Begin, Append, Commit, Rollback, InsertPending
<1>9. ASSUME NEW p \in Task, Return(p)
      PROVE  QueryInv'
  <2>1. call'[p] = Idle /\ \A q \in Task \ {p} : call'[q] = call[q]
    BY <1>9 DEF Return, TypeOK
  <2>. QED
    BY <1>5, <2>1 DEF Idle
<1>10. ASSUME NEW p \in Task, LoadClaims(p)
       PROVE  QueryInv'
  <2> DEFINE c     == call[p]
             found == Found(p, "claims", IF c.op \in Names THEN {c.target} ELSE Instant)
             left  == {r.claim : r \in found}
  <2>1. /\ call'[p].seen = found /\ call'[p].left = left
        /\ call'[p].pc = After(c.op, "claims", left)
        /\ call'[p].op = c.op /\ call'[p].target = c.target
        /\ \A q \in Task \ {p} : call'[q] = call[q]
    BY <1>10, CallAfterClaims
  <2>2. ASSUME c.op = "query"
        PROVE  QueryOf(p)'
    <3>1. \A r \in found : r \in file' /\ r.table = "claims" /\ r.at <= c.target
      BY <1>0, <2>2 DEF Found, Visible
    <3>2. left = ClaimsIn(found)
      BY <3>1 DEF ClaimsIn
    <3>3. left = {} => found = {}
      OBVIOUS
    <3> HIDE DEF found, left
    <3>4. call'[p].pc = IF left # {} THEN "ledger" ELSE "answer"
      BY <2>1, <2>2 DEF After, Decide
    <3>. QED
      BY <2>1, <3>1, <3>2, <3>3, <3>4 DEF QueryOf, ClaimsIn
  <2>. QED
    BY <1>2, <2>1, <2>2
<1>11. ASSUME NEW p \in Task, LoadLedger(p)
       PROVE  QueryInv'
  <2> DEFINE c     == call[p]
             found == Found(p, "ledger", Loaded(p))
  <2>1. /\ call'[p].seen = c.seen \cup found /\ call'[p].left = c.left
        /\ call'[p].pc = After(c.op, "ledger", c.left)
        /\ call'[p].op = c.op /\ call'[p].missed = c.missed
        /\ \A q \in Task \ {p} : call'[q] = call[q]
    BY <1>11, CallAfterLedger
  <2>2. ASSUME c.op = "query"
        PROVE  QueryOf(p)'
    <3>1. /\ c.left = Loaded(p)
          /\ \A r \in c.seen : r \in file /\ r.table = "claims" /\ r.at <= c.target
      BY <1>11, <2>2 DEF LoadLedger, QueryInv, QueryOf, Loaded, ClaimsIn
    <3>2. ASSUME NEW r \in c.seen
          PROVE  RowOf("ledger", r.claim, r.at) \in found
      <4>1. RowOf("ledger", r.claim, r.at) \in file
        BY <1>0, <3>1 DEF FileInv
      <4>2. r.claim \in Loaded(p)
        BY <3>1 DEF Loaded
      <4>. QED
        BY <2>2, <3>1, <4>1, <4>2 DEF Found, Visible, RowOf
    <3>3. \A r \in found : r \in file /\ r.table = "ledger" /\ r.claim \in c.left
      BY <3>1 DEF Found
    <3> HIDE DEF found
    <3>4. call'[p].pc = "assertions"
      BY <2>1, <2>2 DEF After
    <3>. QED
      BY <1>0, <2>1, <3>1, <3>2, <3>3, <3>4 DEF QueryOf
  <2>. QED
    BY <1>2, <2>1, <2>2
<1>12. ASSUME NEW p \in Task, NEW c, NEW loaded, NEW missed, Folded(p, c, loaded, missed),
              call[p].pc = "assertions",
              \/ loaded = Found(p, "assertions", {c}) /\ missed = {}
              \/ loaded = {} /\ missed = {c}
       PROVE  QueryInv'
  <2>1. /\ call'[p].pc = After(call[p].op, "assertions", call[p].left \ {c})
        /\ call'[p].seen = call[p].seen \cup loaded
        /\ call'[p].missed = call[p].missed \cup missed
        /\ call'[p].left = call[p].left \ {c}
        /\ call'[p].op = call[p].op /\ call'[p].now = call[p].now
        /\ call'[p].target = call[p].target
        /\ \A q \in Task \ {p} : call'[q] = call[q]
    BY <1>12, CallAfterFolded, Zenon
  <2> DEFINE left == call[p].left \ {c}
             all  == call[p].missed \cup missed
             seen == call[p].seen \cup loaded
  <2>2. ASSUME call[p].op = "query"
        PROVE  QueryOf(p)'
    <3>1. \A r \in call[p].seen :
            /\ r.table = "claims" => RowOf("ledger", r.claim, r.at) \in call[p].seen
            /\ r.table = "ledger" /\ r.at # r.claim /\ r.claim \notin call[p].left \cup call[p].missed
                 => RowOf("assertions", r.claim, r.at) \in call[p].seen
            /\ r \in file
      BY <1>12, <2>2 DEF QueryInv, QueryOf
    <3>2. \A r \in loaded : r \in file /\ r.table = "assertions"
      BY <1>12 DEF Found
    <3>3. ASSUME NEW r \in call[p].seen, r.table = "ledger", r.at # r.claim,
                 r.claim \notin left \cup all
          PROVE  RowOf("assertions", r.claim, r.at) \in seen
      <4>1. CASE r.claim = c
        <5>1. RowOf("assertions", r.claim, r.at) \in file
          BY <1>0, <3>1, <3>3 DEF FileInv
        <5>2. loaded = Found(p, "assertions", {c})
          BY <1>12, <3>3, <4>1
        <5>. QED
          BY <4>1, <5>1, <5>2 DEF Found, RowOf
      <4>2. CASE r.claim # c
        BY <3>1, <3>3, <4>2
      <4>. QED
        BY <4>1, <4>2
    <3>4. \A r \in seen :
            /\ r.table = "claims" => RowOf("ledger", r.claim, r.at) \in seen
            /\ r.table = "ledger" /\ r.at # r.claim /\ r.claim \notin left \cup all
                 => RowOf("assertions", r.claim, r.at) \in seen
            /\ r \in file'
      BY <1>0, <3>1, <3>2, <3>3
    <3>5. call'[p].pc = IF left # {} THEN "assertions" ELSE "answer"
      BY <2>1, <2>2 DEF After, Decide
    <3> HIDE DEF left, all, seen
    <3>6. ASSUME NEW r \in call'[p].seen
          PROVE  /\ r.table = "claims" => RowOf("ledger", r.claim, r.at) \in call'[p].seen
                 /\ r.table = "ledger" /\ r.at # r.claim /\ r.claim \notin call'[p].left \cup call'[p].missed
                      => RowOf("assertions", r.claim, r.at) \in call'[p].seen
                 /\ r \in file'
      BY <2>1, <3>4 DEF left, all, seen
    <3>7. call'[p].pc # "ledger" /\ (call'[p].pc = "answer" => call'[p].left = {})
      BY <2>1, <3>5 DEF left
    <3>. QED
      BY <3>6, <3>7 DEF QueryOf
  <2>. QED
    BY <1>2, <2>1, <2>2
<1>13. ASSUME NEW p \in Task, NEW c \in Instant, LoadAssertions(p, c) \/ MissAssertions(p, c)
       PROVE  QueryInv'
  BY <1>12, <1>13 DEF LoadAssertions, MissAssertions, Lenient
<1>14. ASSUME NEW p \in Task, Fail(p)
       PROVE  QueryInv'
  <2>1. CASE Goto(p, "return") \/ Goto(p, "rollback")
    BY <1>7, <2>1
  <2>2. CASE Lenient(p) /\ \E c \in call[p].left : Folded(p, c, {}, {c})
    BY <1>12, <2>2 DEF Lenient
  <2>. QED
    BY <1>14, <2>1, <2>2 DEF Fail, Drop, FailStatement
<1>. QED
  BY <1>4, <1>3, <1>6, <1>8, <1>9, <1>10, <1>11, <1>13, <1>14 DEF Next, vars

-----------------------------------------------------------------------------
\* In every reachable state the inductive invariant holds.
THEOREM StoreInvariant ==
  Spec => []IInv
<1>1. IInv /\ [Next]_vars => IInv'
  BY TypePreserved, FilePreserved, StepPreserved, TxnPreserved, LoadPreserved, QueryPreserved
     DEF IInv
<1>. QED
  BY <1>1, InitEstablishes, PTL DEF Spec

\* The state stays within its types.
THEOREM StoreTypes ==
  Spec => []TypeOK
<1>1. IInv => TypeOK
  BY DEF IInv
<1>. QED
  BY <1>1, StoreInvariant, PTL

\* A write call never meets the transaction of another (store_write_lock against the slot of
\* the store).
THEOREM NeverRefused ==
  Spec => []WriterNeverRefused
<1>1. ASSUME IInv, NEW p \in Task, Writes(p), call[p].pc \in Loading \cup {"begin", "pending"},
             slot = "out"
      PROVE  FALSE
  <2>1. PICK q \in Task : call[q].pc \in InTxn
    BY <1>1 DEF IInv, TxnInv
  <2>2. call[q].op \in Writing /\ call[q].pc # "lock"
    BY <1>1, <2>1 DEF IInv, StepInv, StepOf, InTxn
  <2>3. p = q
    BY <1>1, <2>2, OneWriter DEF IInv, Writes, Loading
  <2>. QED
    BY <1>1, <2>1, <2>3 DEF InTxn, Loading
<1>2. IInv => WriterNeverRefused
  BY <1>1 DEF WriterNeverRefused
<1>. QED
  BY <1>2, StoreInvariant, PTL

\* What a write call decided on is still all there is when it writes (reads before
\* begin_atomic under the same lock, and no tx-time cutoff on the write path).
THEOREM CurrentDecisions ==
  Spec => []DecidesOnCurrent
<1>1. IInv => DecidesOnCurrent
  BY DEF IInv, LoadInv, LoadOf, DecidesOnCurrent
<1>. QED
  BY <1>1, StoreInvariant, PTL

\* A query never folds half of a write, unless it missed a claim's assertions (the atomic
\* unit of a write, and the order of the loads of query_memory).
THEOREM WholeAnswers ==
  Spec => []AnswersWhole
<1>1. ASSUME IInv, NEW p \in Task, call[p].pc = "answer"
      PROVE  call[p].op = "query" /\ QueryOf(p)
  BY <1>1 DEF IInv, StepInv, StepOf, QueryInv
<1>2. IInv => AnswersWhole
  BY <1>1 DEF AnswersWhole, QueryOf
<1>. QED
  BY <1>2, StoreInvariant, PTL

-----------------------------------------------------------------------------
(* The contract of the port.                                               *)

\* An instant stands for one call, and a write call that has not committed yet has no rows.
NowInv ==
  /\ \A r \in file : r.at <= clock /\ (r.table = "claims" => r.claim = r.at)
  /\ \A p \in Task : call[p].op # "none" => call[p].now <= clock
  /\ \A p, q \in Task : p # q /\ call[p].op # "none" /\ call[q].op # "none"
                          => call[p].now # call[q].now
  /\ \A p \in Task : Writes(p) /\ call[p].pc \notin {"return", "pending"}
                       => \A r \in file : r.at # call[p].now

\* The steps of a call between its first and its last one.
Middle(p) ==
  \/ Lock(p) \/ LoadClaims(p) \/ LoadLedger(p) \/ Refused(p)
  \/ \E c \in Instant : LoadAssertions(p, c) \/ MissAssertions(p, c)
  \/ Decline(p) \/ Begin(p) \/ Append(p) \/ Commit(p) \/ Rollback(p) \/ InsertPending(p) \/ Fail(p)

\* They leave the call what it is and all other calls as they are, and write only its rows.
LEMMA MiddleSteps ==
  ASSUME IInv, NEW p \in Task, Middle(p)
  PROVE  /\ call'[p].op = call[p].op /\ call'[p].now = call[p].now /\ clock' = clock
         /\ \A q \in Task \ {p} : call'[q] = call[q]
         /\ call[p].pc \in {"return", "pending"} => call'[p].pc \in {"return", "pending"}
         /\ \/ file' = file
            \/ /\ call[p].pc = "commit" /\ file' = file \cup {First(p), Second(p)}
               /\ call'[p].pc \in {"return", "pending"} /\ Writes(p)
            \/ /\ call[p].pc = "pending" /\ Writes(p)
               /\ file' = file \cup {RowOf("pending", call[p].now, call[p].now)}
<1>. USE DEF IInv, TypeOK, Call
<1>1. ASSUME NEW l, Goto(p, l)
      PROVE  /\ call'[p].op = call[p].op /\ call'[p].now = call[p].now /\ call'[p].pc = l
             /\ \A q \in Task \ {p} : call'[q] = call[q]
  BY <1>1 DEF Goto
<1>2. ASSUME NEW c, NEW loaded, NEW missed, Folded(p, c, loaded, missed)
      PROVE  /\ call'[p].op = call[p].op /\ call'[p].now = call[p].now
             /\ \A q \in Task \ {p} : call'[q] = call[q]
  BY <1>2 DEF Folded
<1>3. CASE Lock(p) \/ Refused(p) \/ Decline(p) \/ Begin(p) \/ Rollback(p)
  BY <1>1, <1>3 DEF Lock, Refused, Decline, Begin, Rollback
<1>4. CASE LoadClaims(p) \/ LoadLedger(p)
  <2>1. ASSUME NEW l, NEW seen, NEW left,
               \/ call' = [call EXCEPT ![p] = [@ EXCEPT !.seen = seen, !.left = left, !.pc = l]]
               \/ call' = [call EXCEPT ![p] = [@ EXCEPT !.seen = seen, !.pc = l]]
        PROVE  /\ call'[p].op = call[p].op /\ call'[p].now = call[p].now
               /\ \A q \in Task \ {p} : call'[q] = call[q]
    BY <2>1
  <2>2. CASE LoadClaims(p)
    <3> DEFINE seen == Found(p, "claims", IF call[p].op \in Names THEN {call[p].target} ELSE Instant)
               left == {r.claim : r \in seen}
               l    == After(call[p].op, "claims", left)
    <3>1. call' = [call EXCEPT ![p] = [@ EXCEPT !.seen = seen, !.left = left, !.pc = l]]
      BY <2>2 DEF LoadClaims
    <3>2. call[p].pc = "claims" /\ UNCHANGED <<file, clock>>
      BY <2>2 DEF LoadClaims
    <3> HIDE DEF seen, left, l
    <3>3. /\ call'[p].op = call[p].op /\ call'[p].now = call[p].now
          /\ \A q \in Task \ {p} : call'[q] = call[q]
      BY <2>1, <3>1
    <3>. QED
      BY <3>2, <3>3
  <2>3. CASE LoadLedger(p)
    <3> DEFINE seen == call[p].seen \cup Found(p, "ledger", Loaded(p))
               l    == After(call[p].op, "ledger", call[p].left)
    <3>1. call' = [call EXCEPT ![p] = [@ EXCEPT !.seen = seen, !.pc = l]]
      BY <2>3 DEF LoadLedger
    <3>2. call[p].pc = "ledger" /\ UNCHANGED <<file, clock>>
      BY <2>3 DEF LoadLedger
    <3> HIDE DEF seen, l
    <3>3. /\ call'[p].op = call[p].op /\ call'[p].now = call[p].now
          /\ \A q \in Task \ {p} : call'[q] = call[q]
      BY <2>1, <3>1
    <3>. QED
      BY <3>2, <3>3
  <2>. QED
    BY <1>4, <2>2, <2>3
<1>5. CASE \E c \in Instant : LoadAssertions(p, c) \/ MissAssertions(p, c)
  BY <1>2, <1>5 DEF LoadAssertions, MissAssertions, Lenient
<1>6. CASE Append(p)
  BY <1>1, <1>6 DEF Append
<1>7. CASE Commit(p)
  <2>1. open = {First(p), Second(p)} /\ call[p].op \in Writing
    BY <1>7 DEF Commit, TxnInv, TxnOf, StepInv, StepOf, InTxn
  <2>. QED
    BY <1>1, <1>7, <2>1 DEF Commit, Writes
<1>8. CASE InsertPending(p)
  BY <1>1, <1>8 DEF InsertPending, StepInv, StepOf, Writes
<1>9. CASE Fail(p)
  BY <1>1, <1>2, <1>9 DEF Fail, Drop, FailStatement, Lenient
<1>. QED
  BY <1>3, <1>4, <1>5, <1>6, <1>7, <1>8, <1>9 DEF Middle

\* What a transaction has appended when it commits bears the instant of its call.
LEMMA OwnRows ==
  ASSUME NEW p \in Task
  PROVE  /\ First(p).at = call[p].now /\ Second(p).at = call[p].now
         /\ First(p).table \in {"claims", "assertions"} /\ Second(p).table = "ledger"
         /\ First(p).table = "claims" => First(p).claim = call[p].now
BY DEF First, Second, Claimed, RowOf

\* No two calls ever stand for the same instant.
LEMMA NowPreserved ==
  ASSUME IInv, NowInv, [Next]_vars
  PROVE  NowInv'
<1>. USE DEF Writes
<1>1. CASE UNCHANGED vars
  BY <1>1 DEF NowInv, vars
<1>2. CASE Crash
  <2>1. (\A p \in Task : call'[p].op = "none") /\ file' = file /\ clock' = clock
    BY <1>2 DEF Crash, Idle
  <2>. QED
    BY <2>1 DEF NowInv
<1>3. ASSUME NEW p \in Task, NEW op \in Op, NEW target \in 0..MaxClock, Start(p, op, target)
      PROVE  NowInv'
  <2>1. /\ clock' = clock + 1 /\ file' = file /\ call'[p].now = clock + 1
        /\ \A q \in Task \ {p} : call'[q] = call[q]
    BY <1>3 DEF Start, Begun, CallAt, IInv, TypeOK
  <2>2. clock \in Nat /\ \A q \in Task : call[q].now \in Nat
    BY SqliteStoreAssumption DEF IInv, TypeOK, Call
  <2>3. \A r \in file : r.at \in Nat /\ r.at <= clock
    BY DEF NowInv, IInv, TypeOK, Row, Instant
  <2>4. \A r \in file : r.at <= clock + 1 /\ r.at # clock + 1
    BY <2>2, <2>3
  <2>5. \A q \in Task : call[q].op # "none" => call[q].now <= clock + 1 /\ call[q].now # clock + 1
    BY <2>2 DEF NowInv
  <2>. QED
    BY <2>1, <2>2, <2>4, <2>5 DEF NowInv
<1>4. ASSUME NEW p \in Task, Return(p)
      PROVE  NowInv'
  <2>1. /\ call'[p].op = "none" /\ file' = file /\ clock' = clock
        /\ \A q \in Task \ {p} : call'[q] = call[q]
    BY <1>4 DEF Return, Idle, IInv, TypeOK
  <2>. QED
    BY <2>1 DEF NowInv
<1>5. ASSUME NEW p \in Task, Middle(p)
      PROVE  NowInv'
  <2>1. /\ call'[p].op = call[p].op /\ call'[p].now = call[p].now /\ clock' = clock
        /\ \A q \in Task \ {p} : call'[q] = call[q]
        /\ call[p].pc \in {"return", "pending"} => call'[p].pc \in {"return", "pending"}
    BY <1>5, MiddleSteps
  <2>2. CASE file' = file
    BY <2>1, <2>2 DEF NowInv
  <2>3. CASE file' # file
    <3>1. /\ \A r \in file' \ file : r.at = call[p].now /\ (r.table = "claims" => r.claim = r.at)
          /\ call[p].op # "none" /\ call'[p].pc \in {"return", "pending"}
      BY <1>5, <2>1, <2>3, MiddleSteps, OwnRows DEF RowOf
    <3>2. \A q \in Task \ {p} : call[q].op # "none" => call[q].now # call[p].now
      BY <3>1 DEF NowInv
    <3>. QED
      BY <2>1, <3>1, <3>2 DEF NowInv
  <2>. QED
    BY <2>2, <2>3
<1>. QED
  BY <1>1, <1>2, <1>3, <1>4, <1>5 DEF Next, Middle

\* The adapter keeps the contract of PersistencePort: rows of one call appear together, with its
\* ledger entry, and the row of a pending adjudication after its claim, although a failing COMMIT
\* or ROLLBACK loses the connection (commit_and_return, rollback_and_return, insert_pending).
THEOREM ImplementsPort ==
  Spec => KeepsPort
<1>1. Init => NowInv /\ Port!Init
  BY DEF Init, NowInv, Idle, Writes, Port!Init
<1>2. IInv /\ NowInv /\ [Next]_vars => [Port!Next]_file
  <2>. SUFFICES ASSUME IInv, NowInv, [Next]_vars, file' # file
                PROVE  Port!Next
    OBVIOUS
  <2>1. PICK p \in Task : Middle(p)
    BY DEF Next, Middle, Crash, Start, Return, vars
  <2>2. CASE call[p].pc = "commit" /\ file' = file \cup {First(p), Second(p)} /\ Writes(p)
    <3>1. \A r \in file : r.at # call[p].now
      BY <2>2 DEF NowInv
    <3>2. file' \ file = {First(p), Second(p)}
      BY <2>2, <3>1, OwnRows
    <3>3. Port!Appended({First(p), Second(p)})
      BY <3>1, OwnRows DEF Port!Appended
    <3>. QED
      BY <2>2, <3>2, <3>3 DEF Port!Next
  <2>3. CASE call[p].pc = "pending" /\ file' = file \cup {RowOf("pending", call[p].now, call[p].now)}
    <3> DEFINE row == RowOf("pending", call[p].now, call[p].now)
    <3>1. row.table = "pending" /\ row.at = call[p].now
      BY DEF RowOf
    <3>2. \E s \in file : s.at = row.at /\ s.table = "claims"
      BY <2>3, <3>1 DEF IInv, TxnInv, TxnOf, ClaimsIn, NowInv
    <3> HIDE DEF row
    <3>3. file' \ file = {row} /\ file \subseteq file'
      BY <2>3 DEF row
    <3>4. Port!Registered({row})
      BY <3>1, <3>2 DEF Port!Registered
    <3>. QED
      BY <3>3, <3>4 DEF Port!Next
  <2>. QED
    BY <2>1, <2>2, <2>3, MiddleSteps
<1>. QED
  BY <1>1, <1>2, NowPreserved, StoreInvariant, PTL DEF Spec, KeepsPort, Port!Spec
=============================================================================
