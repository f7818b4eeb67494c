------------------------------ MODULE PyBridge ------------------------------
(* Python threads that share engines: the interpreter's lock (GIL), the write *)
(* lock of an engine, and the oracle, a Python object that a worker thread of  *)
(* an engine calls in the middle of an ingest.                               *)
EXTENDS Naturals, Sequences

CONSTANTS
  Thread,    \* Python threads of the host process, which call engines when they like
  Engine,    \* PyEngine and PyOracleEngine objects, each with a store of its own
  Asking,    \* the engines opened with an oracle
  Handle,    \* UUIDs an oracle can return
  Nobody, NoHandle,
  MaxClaim   \* bound: ingests

ASSUME BridgeAssumption ==
  /\ Asking \subseteq Engine /\ MaxClaim \in Nat
  /\ Nobody \notin Thread \X {"host", "oracle"} /\ NoHandle \notin Handle

VARIABLES
  gil,     \* the context that runs Python code, or Nobody
  lock,    \* who is between acquiring and dropping an engine's guards
  call,    \* what every context is doing
  claim,   \* the ingests, in the order they were called
  row      \* the pending rows: which ingest a handle stands for, 0 for none

vars == <<gil, lock, call, claim, row>>

\* Python code runs on the threads of the host and, while an ingest of one of them
\* asks its oracle, on a blocking thread of the engine's runtime.
Context == Thread \X {"host", "oracle"}

NoCall == [pc |-> "attach", op |-> "none", engine |-> CHOOSE e \in Engine : TRUE,
           claim |-> 0, handle |-> NoHandle, error |-> "none"]

Host(t) == <<t, "host">>
Worker(t) == <<t, "oracle">>

\* A store just opened.
Opened == [h \in Handle |-> 0]

Init ==
  /\ gil = Nobody
  /\ lock = [e \in Engine |-> Nobody]
  /\ call = [x \in Context |-> IF x[2] = "host" THEN NoCall ELSE [NoCall EXCEPT !.pc = "absent"]]
  /\ claim = <<>>
  /\ row = [e \in Engine |-> Opened]

At(x, pc) == call[x].pc = pc
Goto(x, pc) == call' = [call EXCEPT ![x].pc = pc]
Fails(x, error) == call' = [call EXCEPT ![x] = [@ EXCEPT !.pc = "unlock", !.error = error]]
Returns(x) == call' = [call EXCEPT ![x] = NoCall]

-----------------------------------------------------------------------------
(* The interpreter.  Only the context that has the GIL runs.               *)

Runs(x) == gil = x /\ At(x, "python")

\* A context that returns to Python, or a worker that calls its oracle, waits for the GIL.
Attach(x) ==
  /\ At(x, "attach") /\ gil = Nobody
  /\ gil' = x
  /\ Goto(x, "python")
  /\ UNCHANGED <<lock, claim, row>>

\* The interpreter lets another context run, or the code waits for something else.
Switch(x) ==
  /\ Runs(x)
  /\ gil' = Nobody
  /\ Goto(x, "attach")
  /\ UNCHANGED <<lock, claim, row>>

\* Every method gives the GIL away for as long as it blocks on the engine.
Detach(x, c) ==
  /\ Runs(x)
  /\ gil' = Nobody
  /\ call' = [call EXCEPT ![x] = c]
  /\ UNCHANGED <<lock, row>>

\* An oracle may call engines, but no write of one that has an oracle itself: its own
\* is locked by the ingest that asks.
Writable(x) == IF x[2] = "host" THEN Engine ELSE Engine \ Asking

CallIngest(x, e) ==
  /\ e \in Writable(x) /\ Len(claim) < MaxClaim
  /\ claim' = Append(claim, [engine |-> e, disp |-> "none", handle |-> NoHandle,
                               status |-> "none", told |-> "waiting"])
  /\ Detach(x, [NoCall EXCEPT !.pc = "lock", !.op = "ingest", !.engine = e, !.claim = Len(claim) + 1])

CallSubmit(x, e, h) ==
  /\ e \in Writable(x) \cap Asking
  /\ Detach(x, [NoCall EXCEPT !.pc = "look", !.op = "submit", !.engine = e, !.handle = h])
  /\ UNCHANGED claim

CallSweep(x, e) ==
  /\ e \in Writable(x) \cap Asking
  /\ Detach(x, [NoCall EXCEPT !.pc = "look", !.op = "sweep", !.engine = e])
  /\ UNCHANGED claim

\* assert_validity
CallWrite(x, e) ==
  /\ e \in Writable(x)
  /\ Detach(x, [NoCall EXCEPT !.pc = "lock", !.op = "write", !.engine = e])
  /\ UNCHANGED claim

CallReconcile(x, e) ==
  /\ e \in Writable(x)
  /\ Detach(x, [NoCall EXCEPT !.pc = "lock", !.op = "reconcile", !.engine = e])
  /\ UNCHANGED claim

\* The queries and resolve_live_claim_for_line take no lock; nor does
\* list_pending_adjudications, which only an engine with an oracle has.
CallRead(x, e) ==
  /\ Detach(x, [NoCall EXCEPT !.pc = "look", !.op = "read", !.engine = e])
  /\ UNCHANGED claim

CallPending(x, e) == e \in Asking /\ CallRead(x, e)

-----------------------------------------------------------------------------
(* The engine, without the GIL.                                            *)

Registered(e, c) == \E h \in Handle : row[e][h] = c

\* Queued by its ingest, or by a reconcile.
Queued(c) == claim[c].disp \in {"queued", "requeued"}
Queue(e)  == {c \in DOMAIN claim : claim[c].engine = e /\ Queued(c)}

\* No row of theirs is still 'pending'.
Orphans(e) == {c \in Queue(e) : claim[c].status # "pending"}

\* What a call reads before it takes a lock.  Somebody's open transaction refuses it
\* (StorageError), an unknown handle is a NotFoundError, a sweep may find nothing to do
\* (its loop over several orphans is one call for each here).
OpenTxn(e) == \E z \in Context : At(z, "inside") /\ call[z].engine = e
Look(x) ==
  LET e == call[x].engine  c == row[e][call[x].handle] IN
  /\ At(x, "look")
  /\ \/ OpenTxn(e) /\ Returns(x)
     \/ call[x].op = "read" /\ Returns(x)
     \/ call[x].op = "submit" /\ c = 0 /\ Returns(x)
     \/ /\ call[x].op = "submit" /\ c # 0
        /\ call' = [call EXCEPT ![x] = [@ EXCEPT !.pc = "lock", !.claim = c, !.handle = NoHandle]]
     \/ call[x].op = "sweep" /\ Orphans(e) = {} /\ Returns(x)
     \/ /\ call[x].op = "sweep"
        /\ \E o \in Orphans(e) : call' = [call EXCEPT ![x] = [@ EXCEPT !.pc = "lock", !.claim = o]]
  /\ UNCHANGED <<gil, lock, claim, row>>

Lock(x) ==
  /\ At(x, "lock") /\ lock[call[x].engine] = Nobody
  /\ lock' = [lock EXCEPT ![call[x].engine] = x]
  /\ Goto(x, "inside")
  /\ UNCHANGED <<gil, claim, row>>

Now(x, disp) == claim' = [claim EXCEPT ![call[x].claim].disp = disp]

\* The transaction of an ingest.  A conflict goes to the oracle where there is one.
Store(x) ==
  /\ At(x, "inside") /\ call[x].op = "ingest"
  /\ \/ Now(x, "settled") /\ Goto(x, "unlock")
     \/ call[x].engine \in Asking /\ Now(x, "queued") /\ Goto(x, "ask")
  /\ UNCHANGED <<gil, lock, row>>

\* The claims of Q are queued by a reconcile, those of D are given another disposition, and the
\* rows of R are resolved.
Disposed(Q, D, R) ==
  claim' = [c \in DOMAIN claim |->
              [claim[c] EXCEPT !.disp   = IF c \in Q THEN "requeued" ELSE IF c \in D THEN "settled" ELSE @,
                               !.status = IF c \in R THEN "resolved" ELSE @]]

\* A Bound of a queued claim is refused.  A Reopen is not: a verdict that had waited may have
\* bounded the claim after a reconcile queued it.
Write(x) ==
  /\ At(x, "inside") /\ call[x].op = "write"
  /\ \/ Disposed({}, {}, {})
     \/ \E c \in Queue(call[x].engine) : Disposed({}, {c}, {})
  /\ Goto(x, "unlock")
  /\ UNCHANGED <<gil, lock, row>>

\* A pass gives each claim that the requested lines believe a disposition anew, a queued one among
\* them: with an oracle those that conflict are queued, but no oracle is asked and no row written.
\* Which are believed and which conflict is left to SubjectLine.
Reconcile(x) ==
  LET e == call[x].engine
      stored == {c \in DOMAIN claim : claim[c].engine = e /\ claim[c].disp # "none"}
  IN  /\ At(x, "inside") /\ call[x].op = "reconcile"
      /\ \E S \in SUBSET stored : \E Q \in SUBSET (IF e \in Asking THEN S ELSE {}) :
           Disposed(Q, S, {})
      /\ Goto(x, "unlock")
      /\ UNCHANGED <<gil, lock, row>>

\* A verdict, or the sweep's reversion, of a claim that is still queued.  An affirmation and an
\* abstention have an entry for the incumbent too, which may be queued itself.  An entry counts
\* unless a younger one has queued the claim since the call read its clock.
Settle(x) ==
  LET c == call[x].claim
      submit == call[x].op = "submit"
  IN  /\ At(x, "inside") /\ call[x].op \in {"submit", "sweep"}
      /\ IF Queued(c)
         THEN /\ \E i \in IF submit THEN Queue(call[x].engine) ELSE {c} : \E D \in SUBSET {c, i} :
                   Disposed({}, D, IF submit THEN {c} ELSE {})
              /\ Goto(x, "unlock")
         ELSE Fails(x, "NotFoundError") /\ UNCHANGED claim
      /\ UNCHANGED <<gil, lock, row>>

\* The bridge: a blocking thread of the runtime calls the oracle.
Ask(x) ==
  /\ At(x, "ask")
  /\ call' = [[call EXCEPT ![x].pc = "asking"] EXCEPT ![Worker(x[1])] = NoCall]
  /\ UNCHANGED <<gil, lock, claim, row>>

\* The oracle returns a handle, or raises, or returns what is no UUID.
Reply(y) ==
  /\ y[2] = "oracle" /\ Runs(y)
  /\ gil' = Nobody
  /\ LET gone == [call EXCEPT ![y].pc = "absent"]
     IN  \/ \E h \in Handle :
               call' = [gone EXCEPT ![Host(y[1])] = [@ EXCEPT !.pc = "insert", !.handle = h]]
         \/ call' = [gone EXCEPT ![Host(y[1])] = [@ EXCEPT !.pc = "unlock", !.error = "ConfigError"]]
  /\ UNCHANGED <<lock, claim, row>>

Registers(x) ==
  /\ row' = [row EXCEPT ![call[x].engine][call[x].handle] = call[x].claim]
  /\ claim' = [claim EXCEPT ![call[x].claim] = [@ EXCEPT !.handle = call[x].handle, !.status = "pending"]]
  /\ Goto(x, "unlock")

\* Mutant: INSERT OR REPLACE.
Insert_Replaces(x) ==
  /\ At(x, "insert")
  /\ Registers(x)
  /\ UNCHANGED <<gil, lock>>

\* A handle is the row's primary key: one that was used before, in a row of whatever
\* status, is refused.
Insert(x) ==
  /\ At(x, "insert")
  /\ IF row[call[x].engine][call[x].handle] = 0
     THEN Registers(x)
     ELSE Fails(x, "StorageError") /\ UNCHANGED <<row, claim>>
  /\ UNCHANGED <<gil, lock>>

Told(x) == claim' = IF call[x].op = "ingest"
                    THEN [claim EXCEPT ![call[x].claim].told =
                            IF call[x].error = "none" THEN "answered" ELSE "raised"]
                    ELSE claim

\* Mutant: an error leaves the method before the guards are dropped.
Unlock_KeepsOnError(x) ==
  /\ At(x, "unlock")
  /\ lock' = [lock EXCEPT ![call[x].engine] = IF call[x].error = "none" THEN Nobody ELSE @]
  /\ Returns(x) /\ Told(x)
  /\ UNCHANGED <<gil, row>>

\* The guards drop, and what the call returns is on its way to its caller.
Unlock(x) ==
  /\ At(x, "unlock")
  /\ lock' = [lock EXCEPT ![call[x].engine] = Nobody]
  /\ Returns(x) /\ Told(x)
  /\ UNCHANGED <<gil, row>>

-----------------------------------------------------------------------------
EngineStep(x) ==
  \/ Look(x) \/ Lock(x) \/ Store(x) \/ Write(x) \/ Reconcile(x)
  \/ Settle(x) \/ Ask(x) \/ Insert(x) \/ Unlock(x)

Next ==
  \E x \in Context :
     \/ Attach(x) \/ Switch(x) \/ EngineStep(x) \/ Reply(x)
     \/ \E e \in Engine :
          \/ CallIngest(x, e) \/ CallWrite(x, e) \/ CallReconcile(x, e) \/ CallSweep(x, e)
          \/ CallRead(x, e) \/ CallPending(x, e)
          \/ \E h \in Handle : CallSubmit(x, e, h)

\* The runtime drives every call on, tokio hands its mutex over in FIFO order, the
\* interpreter lets every context run in turn, and an oracle returns, as its contract
\* ("non-blocking") asks.  Nothing makes the host call.
Fairness ==
  /\ \A t \in Thread : SF_vars(\E x \in {Host(t), Worker(t)} : EngineStep(x) \/ Attach(x))
  /\ \A t \in Thread : SF_vars(Reply(Worker(t)))
  /\ WF_vars(\E x \in Context : Switch(x))

Spec == Init /\ [][Next]_vars /\ Fairness

-----------------------------------------------------------------------------
\* Every call returns to the thread that made it, whatever its oracle does meanwhile: the
\* GIL, the locks of the engines and the oracles are never waited for in a circle.
HostCallsReturn == \A t \in Thread : ~At(Host(t), "python") ~> Runs(Host(t))

\* A claim left queued that no handle leads to: its ingest raised, or a reconcile queued it, which
\* asks no oracle and tells its own caller only.  And a handle leads to a claim only if the caller
\* of its ingest got an answer, and it is the one that its oracle gave.
OrphansAreTold ==
  \A c \in DOMAIN claim :
    LET k == claim[c]
    IN  Queued(c) /\ k.told # "waiting" =>
          IF Registered(k.engine, c)
            THEN k.told = "answered" /\ row[k.engine][k.handle] = c
            ELSE k.told # "answered" \/ k.disp = "requeued"
=============================================================================
