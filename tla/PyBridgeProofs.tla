--------------------------- MODULE PyBridgeProofs ---------------------------
(***************************************************************************)
(* Why a claim left queued without a handle is one that a reconcile queued *)
(* or the caller of its ingest got an exception for, for any number of     *)
(* threads, engines, handles and ingests, whatever the oracles do.         *)
(*                                                                         *)
(* The argument: an ingest registers its claim once, under a handle that   *)
(* was free, and a row is never taken over by another claim; so what the   *)
(* call knows when it returns stays true for good.  No other call makes a  *)
(* claim one that its ingest has queued; a reconcile that queues it anew   *)
(* leaves its mark.                                                        *)
(***************************************************************************)
EXTENDS PyBridge, SequenceTheorems, TLAPS

Pc    == {"absent", "attach", "python", "look", "lock", "inside", "ask", "asking", "insert", "unlock"}
Error == {"none", "NotFoundError", "ConfigError", "StorageError"}
Call  == [pc : Pc, op : {"none", "ingest", "submit", "sweep", "write", "reconcile", "read"},
          engine : Engine \cup {NoCall.engine}, claim : Nat,
          handle : Handle \cup {NoHandle}, error : Error]
Claim == [engine : Engine, disp : {"none", "settled", "queued", "requeued"},
          handle : Handle \cup {NoHandle}, status : {"none", "pending", "resolved"},
          told : {"waiting", "answered", "raised"}]

Types ==
  /\ call \in [Context -> Call]
  /\ claim \in Seq(Claim)
  /\ row \in [Engine -> [Handle -> Nat]]

\* Which calls take which steps.
StepOf(c) ==
  /\ c.op = "none" <=> c.pc \in {"absent", "attach", "python"}
  /\ c.op # "none" => c.engine \in Engine
  /\ c.pc \in {"ask", "asking", "insert"} => c.op = "ingest" /\ c.engine \in Asking
  /\ c.pc = "look" => c.op # "ingest"
  /\ c.op \in {"submit", "sweep"} /\ c.pc # "look" => c.claim \in DOMAIN claim
  /\ c.pc = "insert" \/ (c.op = "submit" /\ c.pc = "look") => c.handle \in Handle
  /\ c.pc # "unlock" => c.error = "none"
StepInv == \A x \in Context : StepOf(call[x])

\* A worker is there as long as an ingest of its thread waits for the oracle, and does not
\* ingest into an engine that would ask again.
BridgeInv ==
  /\ \A t \in Thread : /\ call[Host(t)].pc # "absent"
                       /\ call[Worker(t)].pc # "absent" <=> call[Host(t)].pc = "asking"
                       /\ call[Worker(t)].op = "ingest" => call[Worker(t)].engine \notin Asking

\* Its handle leads to the claim.
Reached(e, c) == claim[c].handle \in Handle /\ row[e][claim[c].handle] = c

\* An ingest works on a claim of its own, which it has registered or not.
Ingests(x) == call[x].op = "ingest"
Knows(x) ==
  LET c == call[x].claim  e == call[x].engine
  IN  /\ c \in DOMAIN claim /\ claim[c].engine = e /\ claim[c].told = "waiting"
      /\ call[x].pc # "unlock" \/ call[x].error # "none" => ~Registered(e, c)
      /\ Registered(e, c) => Reached(e, c)
      /\ call[x].pc = "unlock" /\ call[x].error = "none" /\ claim[c].disp = "queued" => Reached(e, c)
IngestInv ==
  /\ \A x \in Context : Ingests(x) => Knows(x)
  /\ \A x, y \in Context : x # y /\ Ingests(x) /\ Ingests(y) => call[x].claim # call[y].claim

\* A row stands for a claim of its engine.
RowInv == \A e \in Engine, h \in Handle :
  row[e][h] # 0 => row[e][h] \in DOMAIN claim /\ claim[row[e][h]].engine = e

\* What the caller of a finished ingest was told.
Truly(c) ==
  claim[c].told # "waiting" =>
    /\ Registered(claim[c].engine, c) => claim[c].told = "answered" /\ Reached(claim[c].engine, c)
    /\ claim[c].told = "answered" /\ claim[c].disp = "queued" => Reached(claim[c].engine, c)
ToldInv == \A c \in DOMAIN claim : Truly(c)

IInv == Types /\ StepInv /\ BridgeInv /\ IngestInv /\ RowInv /\ ToldInv

-----------------------------------------------------------------------------
(* Contexts, records and sequences.                                        *)

\* A context is the host's side of a thread, or its worker.
LEMMA Contexts ==
  /\ \A x \in Context : \E t \in Thread : x = Host(t) \/ x = Worker(t)
  /\ \A t \in Thread : /\ Host(t) \in Context /\ Host(t)[1] = t /\ Host(t)[2] = "host"
                       /\ Worker(t) \in Context /\ Worker(t)[1] = t /\ Worker(t)[2] = "oracle"
  /\ \A t, u \in Thread : /\ Host(t) # Worker(u)
                          /\ Host(t) = Host(u) => t = u
                          /\ Worker(t) = Worker(u) => t = u
  BY DEF Context, Host, Worker

\* A thread that does nothing for the engine.
LEMMA NoCallType ==
  /\ NoCall \in Call /\ [NoCall EXCEPT !.pc = "absent"] \in Call
  /\ NoCall.pc = "attach" /\ NoCall.op = "none" /\ NoCall.error = "none"
  BY DEF NoCall, Call, Pc, Error

\* A claim of a sequence replaced by another.
LEMMA Replaced ==
  ASSUME NEW s \in Seq(Claim), NEW c \in DOMAIN s, NEW k \in Claim
  PROVE  /\ [s EXCEPT ![c] = k] \in Seq(Claim)
         /\ DOMAIN [s EXCEPT ![c] = k] = DOMAIN s
         /\ \A d \in DOMAIN s : [s EXCEPT ![c] = k][d] = IF d = c THEN k ELSE s[d]
  BY ExceptSeq

\* A claim appended.
LEMMA Appended ==
  ASSUME NEW s \in Seq(Claim), NEW k \in Claim
  PROVE  /\ Append(s, k) \in Seq(Claim)
         /\ DOMAIN Append(s, k) = DOMAIN s \cup {Len(s) + 1}
         /\ Len(s) + 1 \notin DOMAIN s /\ Len(s) + 1 \in Nat
         /\ \A d \in DOMAIN s : Append(s, k)[d] = s[d]
         /\ Append(s, k)[Len(s) + 1] = k
  BY AppendProperties

\* The places of a sequence are counted from one.
LEMMA Places ==
  ASSUME Types
  PROVE  \A c \in DOMAIN claim : c \in Nat /\ c # 0 /\ claim[c] \in Claim
  BY DEF Types

-----------------------------------------------------------------------------
(* What one step changes.                                                  *)

\* Claims come into being and rows are added; only the claim an ingest of x works on is told
\* something, queued by its ingest, or registered.
Owns(x, c) == Ingests(x) /\ c = call[x].claim
Grows(x) ==
  /\ DOMAIN claim \subseteq DOMAIN claim'
  /\ \A c \in DOMAIN claim :
       /\ claim'[c].engine = claim[c].engine
       /\ Owns(x, c) \/ /\ claim'[c].told = claim[c].told /\ claim'[c].handle = claim[c].handle
                        /\ claim'[c].disp = "queued" => claim[c].disp = "queued"
  /\ \A e \in Engine, h \in Handle :
       \/ row'[e][h] = row[e][h]
       \/ row[e][h] = 0 /\ Ingests(x) /\ e = call[x].engine /\ row'[e][h] = call[x].claim

\* The rest of what was known stays true.
LEMMA OthersKnow ==
  ASSUME IInv, NEW x \in Context, Grows(x), NEW y \in Context \ {x}, call'[y] = call[y], Ingests(y)
  PROVE  Knows(y)'
<1>. DEFINE c == call[y].claim
            e == call[y].engine
<1>1. Knows(y) /\ ~Owns(x, c) /\ e \in Engine
  BY DEF IInv, IngestInv, StepInv, StepOf, Ingests, Owns
<1>2. /\ c \in DOMAIN claim' /\ claim'[c].engine = e /\ claim'[c].told = "waiting"
      /\ claim'[c].handle = claim[c].handle /\ (claim'[c].disp = "queued" => claim[c].disp = "queued")
  BY <1>1 DEF Knows, Grows
<1>3. ~Registered(e, c) => ~Registered(e, c)'
  BY <1>1 DEF Registered, Grows, Owns
<1>4. ASSUME NEW h \in Handle, row[e][h] = c
      PROVE  row'[e][h] = c
  BY <1>1, <1>4, Places DEF Grows, Knows, IInv
<1>5. Registered(e, c)' => Registered(e, c)
  BY <1>3
<1>6. Reached(e, c) => Reached(e, c)'
  BY <1>1, <1>2, <1>4 DEF Reached, Knows
<1>. QED
  BY <1>1, <1>2, <1>3, <1>5, <1>6 DEF Knows

\* So does what a caller was told of a claim that is not being worked on.
LEMMA ToldStays ==
  ASSUME IInv, NEW x \in Context, Grows(x), NEW c \in DOMAIN claim, ~Owns(x, c)
  PROVE  Truly(c)'
<1>1. Truly(c) /\ claim[c].engine \in Engine /\ c # 0
  BY Places DEF IInv, ToldInv, Claim
<1>2. /\ claim'[c].engine = claim[c].engine /\ claim'[c].told = claim[c].told
      /\ claim'[c].handle = claim[c].handle /\ (claim'[c].disp = "queued" => claim[c].disp = "queued")
  BY DEF Grows
<1>3. ~Registered(claim[c].engine, c) => ~Registered(claim[c].engine, c)'
  BY <1>1 DEF Registered, Grows, Owns
<1>4. ASSUME NEW h \in Handle, row[claim[c].engine][h] = c
      PROVE  row'[claim[c].engine][h] = c
  BY <1>1, <1>4 DEF Grows
<1>5. Reached(claim[c].engine, c) => Reached(claim[c].engine, c)'
  BY <1>2, <1>4 DEF Reached
<1>. QED
  BY <1>1, <1>2, <1>3, <1>5 DEF Truly

\* Rows stand for claims of their engine.
LEMMA RowsStay ==
  ASSUME IInv, NEW x \in Context, Grows(x)
  PROVE  RowInv'
<1>. SUFFICES ASSUME NEW e \in Engine, NEW h \in Handle, row'[e][h] # 0
              PROVE  row'[e][h] \in DOMAIN claim' /\ claim'[row'[e][h]].engine = e
  BY DEF RowInv
<1>1. CASE row'[e][h] = row[e][h]
  BY <1>1 DEF IInv, RowInv, Grows
<1>2. CASE Ingests(x) /\ e = call[x].engine /\ row'[e][h] = call[x].claim
  BY <1>2 DEF IInv, IngestInv, Knows, Grows
<1>. QED
  BY <1>1, <1>2 DEF Grows

\* A step of one context that keeps the invariant of its own call keeps all of it.
Bridged(s, c) ==
  /\ c.pc = "absent" <=> s.pc = "absent"
  /\ c.pc = "asking" <=> s.pc = "asking"
LEMMA OneStep ==
  ASSUME IInv, NEW x \in Context, Grows(x), NEW c \in Call,
         call' = [call EXCEPT ![x] = c], claim' \in Seq(Claim), row' \in [Engine -> [Handle -> Nat]],
         StepOf(c)', Bridged(call[x], c), x[2] = "oracle" /\ c.op = "ingest" => c.engine \notin Asking,
         Ingests(x)' => /\ Knows(x)'
                        /\ Owns(x, c.claim) \/ c.claim \notin DOMAIN claim,
         \A d \in DOMAIN claim' : d \notin DOMAIN claim \/ Owns(x, d) => Truly(d)'
  PROVE  IInv'
<1>1. call'[x] = c /\ \A y \in Context \ {x} : call'[y] = call[y]
  BY DEF IInv, Types
<1>2. Types'
  BY DEF IInv, Types
<1>3. StepInv'
  <2>. SUFFICES ASSUME NEW y \in Context PROVE StepOf(call[y])'
    BY DEF StepInv
  <2>1. CASE y = x
    BY <1>1, <2>1 DEF StepOf
  <2>2. CASE y # x
    BY <1>1, <2>2 DEF IInv, StepInv, StepOf, Grows
  <2>. QED
    BY <2>1, <2>2
<1>4. BridgeInv'
  <2>. SUFFICES ASSUME NEW t \in Thread
                PROVE  /\ call'[Host(t)].pc # "absent"
                       /\ call'[Worker(t)].pc # "absent" <=> call'[Host(t)].pc = "asking"
                       /\ call'[Worker(t)].op = "ingest" => call'[Worker(t)].engine \notin Asking
    BY DEF BridgeInv
  <2>1. /\ Host(t) \in Context /\ Worker(t) \in Context /\ Worker(t)[2] = "oracle"
    BY Contexts
  <2>2. \A y \in Context : Bridged(call[y], call'[y])
    BY <1>1 DEF Bridged
  <2>3. /\ call[Host(t)].pc # "absent"
        /\ call[Worker(t)].pc # "absent" <=> call[Host(t)].pc = "asking"
        /\ call[Worker(t)].op = "ingest" => call[Worker(t)].engine \notin Asking
    BY DEF IInv, BridgeInv
  <2>. QED
    BY <1>1, <2>1, <2>2, <2>3 DEF Bridged
<1>5. IngestInv'
  <2>1. ASSUME NEW y \in Context, Ingests(y)' PROVE Knows(y)'
    BY <1>1, <2>1, OthersKnow DEF Ingests
  <2>2. ASSUME NEW y \in Context \ {x}, Ingests(x)', Ingests(y)' PROVE call'[x].claim # call'[y].claim
    <3>1. Ingests(y) /\ call'[y] = call[y] /\ call'[x] = c
      BY <1>1, <2>2 DEF Ingests
    <3>2. call[y].claim \in DOMAIN claim
      BY <3>1 DEF IInv, IngestInv, Knows
    <3>3. Ingests(x) => call[x].claim # call[y].claim
      BY <3>1 DEF IInv, IngestInv
    <3>. QED
      BY <2>2, <3>1, <3>2, <3>3 DEF Owns
  <2>3. ASSUME NEW y \in Context \ {x}, NEW z \in Context \ {x}, y # z, Ingests(y)', Ingests(z)'
        PROVE  call'[y].claim # call'[z].claim
    BY <1>1, <2>3 DEF IInv, IngestInv, Ingests
  <2>. QED
    BY <2>1, <2>2, <2>3 DEF IngestInv
<1>6. RowInv'
  BY RowsStay
<1>7. ToldInv'
  BY ToldStays DEF ToldInv
<1>. QED
  BY <1>2, <1>3, <1>4, <1>5, <1>6, <1>7 DEF IInv

-----------------------------------------------------------------------------
(* Steps that change neither claims nor rows.                              *)

\* A call that goes on, or ends, or begins to do something else than ingest.
LEMMA QuietStep ==
  ASSUME IInv, NEW x \in Context, NEW c \in Call, call' = [call EXCEPT ![x] = c],
         UNCHANGED <<claim, row>>, StepOf(c), Bridged(call[x], c),
         c.op = "ingest" => /\ Ingests(x) /\ c.claim = call[x].claim /\ c.engine = call[x].engine
                            /\ call[x].pc # "unlock" /\ (c.pc = "unlock" => c.error # "none")
  PROVE  IInv'
<1>1. Grows(x)
  BY DEF Grows
<1>2. claim' \in Seq(Claim) /\ row' \in [Engine -> [Handle -> Nat]] /\ StepOf(c)'
  BY DEF IInv, Types, StepOf
<1>3. ASSUME x[2] = "oracle", c.op = "ingest" PROVE c.engine \notin Asking
  <2>1. PICK t \in Thread : x = Worker(t)
    BY <1>3, Contexts
  <2>. QED
    BY <1>3, <2>1 DEF IInv, BridgeInv, Ingests
<1>4. call'[x] = c
  BY DEF IInv, Types
<1>5. Ingests(x)' => Knows(x)' /\ Owns(x, c.claim)
  BY <1>4 DEF IInv, IngestInv, Ingests, Knows, Owns, Registered, Reached
<1>6. ASSUME NEW d \in DOMAIN claim', d \notin DOMAIN claim \/ Owns(x, d) PROVE Truly(d)'
  BY <1>6 DEF IInv, IngestInv, Knows, Owns, Truly
<1>. QED
  BY <1>1, <1>2, <1>3, <1>5, <1>6, OneStep

\* The fields of a call that goes on at l.
LEMMA Onward ==
  ASSUME NEW s \in Call, NEW l \in Pc
  PROVE  /\ [s EXCEPT !.pc = l] \in Call
         /\ [s EXCEPT !.pc = l].pc = l /\ [s EXCEPT !.pc = l].op = s.op
         /\ [s EXCEPT !.pc = l].engine = s.engine /\ [s EXCEPT !.pc = l].claim = s.claim
         /\ [s EXCEPT !.pc = l].handle = s.handle /\ [s EXCEPT !.pc = l].error = s.error
  BY DEF Call

\* The fields of a call that fails.
LEMMA Failing ==
  ASSUME NEW s \in Call, NEW e \in Error
  PROVE  LET c == [s EXCEPT !.pc = "unlock", !.error = e]
         IN  /\ c \in Call /\ c.pc = "unlock" /\ c.op = s.op /\ c.engine = s.engine
             /\ c.claim = s.claim /\ c.handle = s.handle /\ c.error = e
  BY DEF Call, Pc

\* What the invariant says of the call of x.
LEMMA OwnCall ==
  ASSUME IInv, NEW x \in Context
  PROVE  call[x] \in Call /\ StepOf(call[x]) /\ (Ingests(x) => Knows(x))
  BY DEF IInv, Types, StepInv, IngestInv

\* The interpreter's steps.
LEMMA Interpreter ==
  ASSUME IInv, NEW x \in Context, Attach(x) \/ Switch(x)
  PROVE  IInv'
<1>1. PICK l \in {"python", "attach"} : Goto(x, l) /\ call[x].pc \in {"python", "attach"} /\ UNCHANGED <<claim, row>>
  BY DEF Attach, Switch, Runs, At
<1>. DEFINE c == [call[x] EXCEPT !.pc = l]
<1>2. call' = [call EXCEPT ![x] = c]
  BY <1>1 DEF Goto
<1>3. c \in Call /\ c.pc = l /\ c.op = call[x].op /\ c.engine = call[x].engine /\ c.error = call[x].error
  <2>1. call[x] \in Call /\ l \in Pc
    BY OwnCall DEF Pc
  <2>. QED
    BY <2>1, Onward
<1>. HIDE DEF c
<1>4. c.op = "none" /\ StepOf(c) /\ Bridged(call[x], c)
  BY <1>1, <1>3, OwnCall DEF StepOf, Bridged
<1>. QED
  BY <1>1, <1>2, <1>3, <1>4, QuietStep

\* A new call that is no ingest.
LEMMA OtherCalls ==
  ASSUME IInv, NEW x \in Context, NEW e \in Engine,
         \/ CallWrite(x, e) \/ CallReconcile(x, e) \/ CallSweep(x, e) \/ CallRead(x, e)
         \/ CallPending(x, e)
         \/ \E h \in Handle : CallSubmit(x, e, h)
  PROVE  IInv'
<1>1. PICK c : /\ \/ c = [NoCall EXCEPT !.pc = "lock", !.op = "write", !.engine = e]
                  \/ c = [NoCall EXCEPT !.pc = "lock", !.op = "reconcile", !.engine = e]
                  \/ c = [NoCall EXCEPT !.pc = "look", !.op = "sweep", !.engine = e]
                  \/ c = [NoCall EXCEPT !.pc = "look", !.op = "read", !.engine = e]
                  \/ \E h \in Handle : c = [NoCall EXCEPT !.pc = "look", !.op = "submit", !.engine = e, !.handle = h]
               /\ Detach(x, c) /\ claim' = claim
  BY DEF CallWrite, CallReconcile, CallSweep, CallRead, CallPending, CallSubmit
<1>2. /\ c \in Call /\ c.pc \in {"lock", "look"} /\ c.engine = e /\ c.error = "none"
      /\ c.op \in {"write", "reconcile", "sweep", "read", "submit"}
      /\ c.pc = "lock" => c.op \in {"write", "reconcile"}
      /\ c.op = "submit" => c.handle \in Handle
  <2>1. ASSUME NEW s \in Call, s.error = "none", NEW l \in {"lock", "look"},
               NEW o \in {"write", "reconcile", "sweep", "read", "submit"}, c = [s EXCEPT !.pc = l, !.op = o, !.engine = e]
        PROVE  c \in Call /\ c.pc = l /\ c.op = o /\ c.engine = e /\ c.error = "none"
    BY <2>1 DEF Call, Pc
  <2>2. ASSUME NEW s \in Call, s.error = "none", NEW h \in Handle,
               c = [s EXCEPT !.pc = "look", !.op = "submit", !.engine = e, !.handle = h]
        PROVE  /\ c \in Call /\ c.pc = "look" /\ c.op = "submit" /\ c.engine = e /\ c.error = "none"
               /\ c.handle = h
    BY <2>2 DEF Call, Pc
  <2>. QED
    BY <1>1, <2>1, <2>2, NoCallType
<1>3. call' = [call EXCEPT ![x] = c] /\ UNCHANGED <<claim, row>> /\ call[x].pc = "python"
  BY <1>1 DEF Detach, Runs, At
<1>4. StepOf(c) /\ Bridged(call[x], c)
  BY <1>2, <1>3 DEF StepOf, Bridged
<1>. QED
  BY <1>2, <1>3, <1>4, QuietStep

\* The end of a call that is no ingest.
LEMMA Ends ==
  ASSUME IInv, NEW x \in Context, Returns(x), UNCHANGED <<claim, row>>,
         call[x].pc \notin {"absent", "asking"}
  PROVE  IInv'
<1>1. NoCall \in Call /\ StepOf(NoCall) /\ Bridged(call[x], NoCall) /\ NoCall.op # "ingest"
  BY NoCallType DEF StepOf, Bridged
<1>. QED
  BY <1>1, QuietStep DEF Returns

\* What a call reads before it takes a lock.
LEMMA LookStep ==
  ASSUME IInv, NEW x \in Context, Look(x)
  PROVE  IInv'
<1>1. call[x].pc = "look" /\ UNCHANGED <<claim, row>>
  BY DEF Look, At
<1>2. CASE Returns(x)
  BY <1>1, <1>2, Ends
<1>3. ASSUME NEW k \in DOMAIN claim, call[x].op \in {"submit", "sweep"},
             NEW h \in Handle \cup {NoHandle}, NEW c, call' = [call EXCEPT ![x] = c],
             c = [call[x] EXCEPT !.pc = "lock", !.claim = k, !.handle = h]
      PROVE  IInv'
  <2>1. /\ c \in Call /\ c.pc = "lock" /\ c.op = call[x].op /\ c.engine = call[x].engine
        /\ c.claim = k /\ c.error = call[x].error
    BY <1>3, Places, OwnCall DEF Call, Pc, IInv
  <2>2. StepOf(c) /\ Bridged(call[x], c) /\ c.op # "ingest"
    BY <1>1, <1>3, <2>1, OwnCall DEF StepOf, Bridged
  <2>. QED
    BY <1>1, <1>3, <2>1, <2>2, QuietStep
<1>4. ASSUME call[x].op = "submit", NEW k, k = row[call[x].engine][call[x].handle], k # 0,
             call' = [call EXCEPT ![x] = [@ EXCEPT !.pc = "lock", !.claim = k, !.handle = NoHandle]]
      PROVE  IInv'
  <2>1. k \in DOMAIN claim
    BY <1>1, <1>4, OwnCall DEF IInv, RowInv, StepOf, Types
  <2>. QED
    BY <1>3, <1>4, <2>1
<1>5. ASSUME call[x].op = "sweep", NEW k \in Orphans(call[x].engine),
             call' = [call EXCEPT ![x] = [@ EXCEPT !.pc = "lock", !.claim = k]]
      PROVE  IInv'
  <2>1. k \in DOMAIN claim
    BY <1>5 DEF Orphans, Queue
  <2>2. call[x] \in Call
    BY OwnCall
  <2>3. [call[x] EXCEPT !.pc = "lock", !.claim = k]
          = [call[x] EXCEPT !.pc = "lock", !.claim = k, !.handle = call[x].handle]
    BY <2>2 DEF Call
  <2>4. call[x].handle \in Handle \cup {NoHandle}
    BY <2>2 DEF Call
  <2>. QED
    BY <1>3, <1>5, <2>1, <2>3, <2>4
<1>. QED
  BY <1>1, <1>2, <1>4, <1>5 DEF Look

\* A call that enters its critical section.
LEMMA LockStep ==
  ASSUME IInv, NEW x \in Context, Lock(x)
  PROVE  IInv'
<1>. DEFINE c == [call[x] EXCEPT !.pc = "inside"]
<1>1. call[x].pc = "lock" /\ call' = [call EXCEPT ![x] = c] /\ UNCHANGED <<claim, row>>
  BY DEF Lock, At, Goto
<1>2. /\ c \in Call /\ c.pc = "inside" /\ c.op = call[x].op /\ c.engine = call[x].engine
      /\ c.claim = call[x].claim /\ c.handle = call[x].handle /\ c.error = call[x].error
  <2>1. call[x] \in Call /\ "inside" \in Pc
    BY OwnCall DEF Pc
  <2>. QED
    BY <2>1, Onward
<1>. HIDE DEF c
<1>3. StepOf(c) /\ Bridged(call[x], c)
  BY <1>1, <1>2, OwnCall DEF StepOf, Bridged
<1>. QED
  BY <1>1, <1>2, <1>3, QuietStep DEF Ingests

\* A call that fails with the locks in its hands.
LEMMA FailsInside ==
  ASSUME IInv, NEW x \in Context, NEW e \in Error \ {"none"}, Fails(x, e), UNCHANGED <<claim, row>>,
         call[x].pc \in {"inside", "insert"}
  PROVE  IInv'
<1>. DEFINE c == [call[x] EXCEPT !.pc = "unlock", !.error = e]
<1>1. call' = [call EXCEPT ![x] = c]
  BY DEF Fails
<1>2. /\ c \in Call /\ c.pc = "unlock" /\ c.op = call[x].op /\ c.engine = call[x].engine
      /\ c.claim = call[x].claim /\ c.handle = call[x].handle /\ c.error = e
  <2>1. call[x] \in Call /\ e \in Error
    BY OwnCall
  <2>. QED
    BY <2>1, Failing
<1>. HIDE DEF c
<1>3. StepOf(c) /\ Bridged(call[x], c)
  BY <1>2, OwnCall DEF StepOf, Bridged
<1>. QED
  BY <1>1, <1>2, <1>3, QuietStep DEF Ingests

-----------------------------------------------------------------------------
(* Steps of a thread together with its worker.                             *)

\* The oracle is called, or answers: claims and rows stay.
LEMMA TwoSteps ==
  ASSUME IInv, NEW t \in Thread, NEW c \in Call, NEW d \in Call,
         call' = [[call EXCEPT ![Host(t)] = c] EXCEPT ![Worker(t)] = d], UNCHANGED <<claim, row>>,
         StepOf(c), StepOf(d), d.op # "ingest", d.pc # "absent" <=> c.pc = "asking", c.pc # "absent",
         Ingests(Host(t)), call[Host(t)].pc # "unlock", call[Worker(t)].op # "ingest",
         c.op = "ingest", c.claim = call[Host(t)].claim, c.engine = call[Host(t)].engine,
         c.pc = "unlock" => c.error # "none"
  PROVE  IInv'
<1>1. /\ call'[Host(t)] = c /\ call'[Worker(t)] = d /\ call' \in [Context -> Call]
      /\ \A y \in Context \ {Host(t), Worker(t)} : call'[y] = call[y]
      /\ Host(t) \in Context /\ Worker(t) \in Context
  BY Contexts DEF IInv, Types
<1>2. Types' /\ RowInv' /\ ToldInv'
  BY <1>1 DEF IInv, Types, RowInv, ToldInv, Truly, Registered, Reached
<1>3. StepInv'
  BY <1>1 DEF IInv, StepInv, StepOf
<1>4. BridgeInv'
  <2>. SUFFICES ASSUME NEW u \in Thread
                PROVE  /\ call'[Host(u)].pc # "absent"
                       /\ call'[Worker(u)].pc # "absent" <=> call'[Host(u)].pc = "asking"
                       /\ call'[Worker(u)].op = "ingest" => call'[Worker(u)].engine \notin Asking
    BY DEF BridgeInv
  <2>1. CASE u = t
    BY <1>1, <2>1
  <2>2. CASE u # t
    <3>1. Host(u) \in Context \ {Host(t), Worker(t)} /\ Worker(u) \in Context \ {Host(t), Worker(t)}
      BY <2>2, Contexts
    <3>. QED
      BY <1>1, <3>1 DEF IInv, BridgeInv
  <2>. QED
    BY <2>1, <2>2
<1>5. \A y \in Context : Ingests(y)' => /\ Ingests(y) /\ call'[y].claim = call[y].claim
                                        /\ call'[y].engine = call[y].engine
  BY <1>1 DEF Ingests
<1>6. ASSUME NEW y \in Context, Ingests(y)' PROVE Knows(y)'
  <2>1. Ingests(y) /\ Knows(y)
    BY <1>5, <1>6 DEF IInv, IngestInv
  <2>2. CASE y = Host(t)
    BY <1>1, <2>1, <2>2 DEF Knows, Registered, Reached
  <2>3. CASE y # Host(t)
    <3>1. call'[y] = call[y]
      BY <1>1, <1>6, <2>3 DEF Ingests
    <3>. QED
      BY <2>1, <3>1 DEF Knows, Registered, Reached
  <2>. QED
    BY <2>2, <2>3
<1>7. IngestInv'
  <2>1. ASSUME NEW y \in Context, NEW z \in Context, y # z, Ingests(y)', Ingests(z)'
        PROVE  call'[y].claim # call'[z].claim
    <3>1. Ingests(y) /\ Ingests(z) /\ call'[y].claim = call[y].claim /\ call'[z].claim = call[z].claim
      BY <1>5, <2>1
    <3>. QED
      BY <2>1, <3>1 DEF IInv, IngestInv
  <2>. QED
    BY <1>6, <2>1 DEF IngestInv
<1>. QED
  BY <1>2, <1>3, <1>4, <1>7 DEF IInv

\* Who asks is a host; its worker is not there yet.
LEMMA AskStep ==
  ASSUME IInv, NEW x \in Context, Ask(x)
  PROVE  IInv'
<1>1. call[x].pc = "ask" /\ Ingests(x) /\ call[x].engine \in Asking /\ UNCHANGED <<claim, row>>
  BY OwnCall DEF Ask, At, StepOf, Ingests
<1>2. PICK t \in Thread : x = Host(t)
  BY <1>1, Contexts DEF IInv, BridgeInv, Ingests
<1>3. call[Worker(t)].pc = "absent" /\ call[Worker(t)].op = "none"
  BY <1>1, <1>2, Contexts DEF IInv, BridgeInv, StepInv, StepOf
<1>. DEFINE c == [call[x] EXCEPT !.pc = "asking"]
<1>4. call' = [[call EXCEPT ![Host(t)] = c] EXCEPT ![Worker(t)] = NoCall]
  BY <1>2, Contexts DEF Ask
<1>5. /\ c \in Call /\ c.pc = "asking" /\ c.op = call[x].op /\ c.engine = call[x].engine
      /\ c.claim = call[x].claim /\ c.handle = call[x].handle /\ c.error = call[x].error
  BY OwnCall, Onward DEF Pc
<1>. HIDE DEF c
<1>6. StepOf(c)
  BY <1>1, <1>5, OwnCall DEF StepOf
<1>7. NoCall \in Call /\ StepOf(NoCall) /\ NoCall.op # "ingest" /\ NoCall.pc # "absent"
  BY NoCallType DEF StepOf
<1>. QED
  BY <1>1, <1>2, <1>3, <1>4, <1>5, <1>6, <1>7, TwoSteps DEF Ingests

\* The worker's thread has waited for the answer, or the exception.
LEMMA ReplyStep ==
  ASSUME IInv, NEW y \in Context, Reply(y)
  PROVE  IInv'
<1>1. y[2] = "oracle" /\ call[y].pc = "python" /\ UNCHANGED <<claim, row>>
  BY DEF Reply, Runs, At
<1>2. PICK t \in Thread : y = Worker(t) /\ y[1] = t
  BY <1>1, Contexts
<1>3. call[Host(t)].pc = "asking" /\ call[y].op = "none"
  BY <1>1, <1>2, OwnCall DEF IInv, BridgeInv, StepOf
<1>4. Host(t) \in Context /\ Host(t) # Worker(t) /\ Ingests(Host(t))
  BY <1>3, OwnCall, Contexts DEF StepOf, Ingests
<1>. DEFINE s == call[Host(t)]
            d == [call[y] EXCEPT !.pc = "absent"]
<1>5. /\ d \in Call /\ d.pc = "absent" /\ d.op = "none" /\ d.error = call[y].error
  <2>1. call[y] \in Call /\ "absent" \in Pc
    BY OwnCall DEF Pc
  <2>. QED
    BY <1>3, <2>1, Onward
<1>6. PICK c : /\ call' = [[call EXCEPT ![y] = d] EXCEPT ![Host(t)] = c]
               /\ \/ \E h \in Handle : c = [s EXCEPT !.pc = "insert", !.handle = h]
                  \/ c = [s EXCEPT !.pc = "unlock", !.error = "ConfigError"]
  <2>1. Host(y[1]) = Host(t) /\ [call EXCEPT ![y] = d][Host(t)] = s
    BY <1>2, <1>4 DEF IInv, Types
  <2>2. CASE \E h \in Handle :
          call' = [[call EXCEPT ![y] = d] EXCEPT ![Host(y[1])] = [@ EXCEPT !.pc = "insert", !.handle = h]]
    BY <2>1, <2>2
  <2>3. CASE call' = [[call EXCEPT ![y] = d] EXCEPT
                        ![Host(y[1])] = [@ EXCEPT !.pc = "unlock", !.error = "ConfigError"]]
    BY <2>1, <2>3
  <2>. QED
    BY <2>2, <2>3 DEF Reply
<1>7. call' = [[call EXCEPT ![Host(t)] = c] EXCEPT ![Worker(t)] = d]
  BY <1>2, <1>4, <1>6 DEF IInv, Types
<1>8. /\ c \in Call /\ c.op = s.op /\ c.claim = s.claim /\ c.engine = s.engine
      /\ \/ c.pc = "insert" /\ c.handle \in Handle /\ c.error = s.error
         \/ c.pc = "unlock" /\ c.error # "none" /\ c.handle = s.handle
  <2>1. s \in Call
    BY <1>4, OwnCall
  <2>2. ASSUME NEW h \in Handle, c = [s EXCEPT !.pc = "insert", !.handle = h]
        PROVE  /\ c \in Call /\ c.op = s.op /\ c.claim = s.claim /\ c.engine = s.engine
               /\ c.pc = "insert" /\ c.handle = h /\ c.error = s.error
    BY <2>1, <2>2 DEF Call, Pc
  <2>3. ASSUME c = [s EXCEPT !.pc = "unlock", !.error = "ConfigError"]
        PROVE  /\ c \in Call /\ c.op = s.op /\ c.claim = s.claim /\ c.engine = s.engine
               /\ c.pc = "unlock" /\ c.handle = s.handle /\ c.error = "ConfigError"
    <3>1. "ConfigError" \in Error
      BY DEF Error
    <3>. QED
      BY <2>1, <2>3, <3>1, Failing
  <2>. QED
    BY <1>6, <2>2, <2>3
<1>. HIDE DEF d
<1>9. StepOf(c) /\ StepOf(d)
  BY <1>1, <1>2, <1>3, <1>4, <1>5, <1>8, OwnCall DEF StepOf
<1>. QED
  BY <1>1, <1>2, <1>3, <1>4, <1>5, <1>7, <1>8, <1>9, TwoSteps DEF Ingests

-----------------------------------------------------------------------------
(* Steps that write.                                                       *)

\* A claim that gets another disposition, handle or answer.
LEMMA Restated ==
  ASSUME IInv, NEW c \in DOMAIN claim, NEW k \in Claim, claim' = [claim EXCEPT ![c] = k]
  PROVE  /\ claim' \in Seq(Claim) /\ DOMAIN claim' = DOMAIN claim /\ claim'[c] = k
         /\ \A d \in DOMAIN claim \ {c} : claim'[d] = claim[d]
  BY Replaced DEF IInv, Types

\* A new ingest: nobody knows its claim, and no row has it.
LEMMA IngestCalled ==
  ASSUME IInv, NEW x \in Context, NEW e \in Engine, CallIngest(x, e)
  PROVE  IInv'
<1>. PICK n, k : /\ n = Len(claim) + 1
                 /\ k = [engine |-> e, disp |-> "none", handle |-> NoHandle,
                         status |-> "none", told |-> "waiting"]
  OBVIOUS
<1>. PICK c : c = [NoCall EXCEPT !.pc = "lock", !.op = "ingest", !.engine = e, !.claim = n]
  OBVIOUS
<1>1. /\ e \in Writable(x) /\ claim' = Append(claim, k) /\ call' = [call EXCEPT ![x] = c] /\ row' = row
      /\ call[x].pc = "python"
  BY DEF CallIngest, Detach, Runs, At
<1>2. k \in Claim /\ k.engine = e /\ k.disp = "none" /\ k.told = "waiting"
  BY DEF Claim
<1>3. /\ claim' \in Seq(Claim) /\ DOMAIN claim' = DOMAIN claim \cup {n} /\ n \notin DOMAIN claim
      /\ n \in Nat /\ claim'[n] = k /\ \A d \in DOMAIN claim : claim'[d] = claim[d]
  BY <1>1, <1>2, Appended DEF IInv, Types
<1>4. c \in Call /\ c.pc = "lock" /\ c.op = "ingest" /\ c.engine = e /\ c.claim = n /\ c.error = "none"
  <2>1. ASSUME NEW s \in Call
        PROVE  LET r == [s EXCEPT !.pc = "lock", !.op = "ingest", !.engine = e, !.claim = n]
               IN  /\ r \in Call /\ r.pc = "lock" /\ r.op = "ingest" /\ r.engine = e /\ r.claim = n
                   /\ r.error = s.error
    BY <1>3 DEF Call, Pc
  <2>. QED
    BY <2>1, NoCallType
<1>5. call'[x] = c
  BY <1>1 DEF IInv, Types
<1>6. Grows(x)
  BY <1>1, <1>3 DEF Grows
<1>7. StepOf(c)' /\ Bridged(call[x], c)
  BY <1>1, <1>4 DEF StepOf, Bridged
<1>8. x[2] = "oracle" => c.engine \notin Asking
  BY <1>1, <1>4 DEF Writable
<1>9. ~Registered(e, n)'
  BY <1>1, <1>3, Places DEF Registered, IInv, RowInv, Types
<1>10. Knows(x)'
  BY <1>2, <1>3, <1>4, <1>5, <1>9 DEF Knows
<1>11. ~Ingests(x)
  BY <1>1, OwnCall DEF Ingests, StepOf
<1>12. ASSUME NEW d \in DOMAIN claim', d \notin DOMAIN claim \/ Owns(x, d) PROVE Truly(d)'
  BY <1>2, <1>3, <1>11, <1>12 DEF Owns, Truly
<1>. QED
  BY <1>1, <1>3, <1>4, <1>6, <1>7, <1>8, <1>10, <1>12, OneStep DEF IInv, Types

\* A call that has changed the disposition of its claim.
LEMMA DispositionStep ==
  ASSUME IInv, NEW x \in Context, call[x].pc = "inside", call[x].claim \in DOMAIN claim,
         NEW disp \in {"settled", "queued"}, Now(x, disp),
         NEW l \in {"ask", "unlock"}, Goto(x, l), row' = row,
         l = "ask" => call[x].engine \in Asking,
         Ingests(x), disp = "queued" <=> l = "ask"
  PROVE  IInv'
<1>. PICK k, c : k = [claim[call[x].claim] EXCEPT !.disp = disp] /\ c = [call[x] EXCEPT !.pc = l]
  OBVIOUS
<1>1. /\ k \in Claim /\ k.disp = disp /\ k.engine = claim[call[x].claim].engine
      /\ k.handle = claim[call[x].claim].handle /\ k.told = claim[call[x].claim].told
  <2>1. claim[call[x].claim] \in Claim
    BY Places DEF IInv
  <2>. QED
    BY <2>1 DEF Claim
<1>2. claim' = [claim EXCEPT ![call[x].claim] = k] /\ call' = [call EXCEPT ![x] = c]
  BY DEF Now, Goto
<1>3. /\ c \in Call /\ c.pc = l /\ c.op = call[x].op /\ c.engine = call[x].engine
      /\ c.claim = call[x].claim /\ c.handle = call[x].handle /\ c.error = call[x].error
  <2>1. call[x] \in Call /\ l \in Pc
    BY OwnCall DEF Pc
  <2>. QED
    BY <2>1, Onward
<1>4. /\ claim' \in Seq(Claim) /\ DOMAIN claim' = DOMAIN claim /\ claim'[call[x].claim] = k
      /\ \A d \in DOMAIN claim \ {call[x].claim} : claim'[d] = claim[d]
  BY <1>1, <1>2, Restated
<1>5. call'[x] = c
  BY <1>2 DEF IInv, Types
<1>6. Grows(x)
  BY <1>1, <1>4 DEF Grows, Owns
<1>7. StepOf(c)' /\ Bridged(call[x], c)
  BY <1>3, <1>4, OwnCall DEF StepOf, Bridged, Ingests
<1>8. ASSUME x[2] = "oracle", c.op = "ingest" PROVE c.engine \notin Asking
  <2>1. PICK t \in Thread : x = Worker(t)
    BY <1>8, Contexts
  <2>. QED
    BY <1>3, <1>8, <2>1 DEF IInv, BridgeInv
<1>9. Ingests(x)' => Knows(x)' /\ Owns(x, c.claim)
  <2>. SUFFICES ASSUME Ingests(x)' PROVE Knows(x)' /\ Owns(x, c.claim)
    OBVIOUS
  <2>1. Ingests(x) /\ Knows(x) /\ call[x].error = "none"
    BY <1>3, <1>5, OwnCall DEF Ingests, StepOf
  <2>2. ~Registered(call[x].engine, call[x].claim)'
    BY <1>3, <1>5, <2>1 DEF Knows, Registered
  <2>3. l = "unlock" => claim'[call[x].claim].disp # "queued"
    BY <1>1, <1>4, <2>1
  <2>4. call[x].claim \in DOMAIN claim' /\ k.engine = call[x].engine /\ k.told = "waiting"
    BY <1>1, <1>4, <2>1 DEF Knows
  <2>5. Knows(x)'
    <3>. PICK n, e : n = call[x].claim /\ e = call[x].engine
      OBVIOUS
    <3>1. n \in DOMAIN claim' /\ claim'[n].engine = e /\ claim'[n].told = "waiting"
      BY <1>4, <2>4
    <3>2. call'[x].claim = n /\ call'[x].engine = e /\ call'[x].error = "none"
      BY <1>3, <1>5, <2>1
    <3>3. ~Registered(e, n)'
      BY <1>3, <1>5, <2>2 DEF Registered
    <3>4. call'[x].pc = "unlock" => claim'[n].disp # "queued"
      BY <1>3, <1>5, <2>3
    <3>. QED
      BY <3>1, <3>2, <3>3, <3>4 DEF Knows
  <2>. QED
    BY <1>3, <2>1, <2>5 DEF Owns
<1>10. ASSUME NEW d \in DOMAIN claim', d \notin DOMAIN claim \/ Owns(x, d) PROVE Truly(d)'
  BY <1>1, <1>4, <1>10, OwnCall DEF Owns, Knows, Truly
<1>. QED
  BY <1>2, <1>3, <1>4, <1>6, <1>7, <1>8, <1>9, <1>10, OneStep DEF IInv, Types

\* The transaction of an ingest.
LEMMA StoreStep ==
  ASSUME IInv, NEW x \in Context, Store(x)
  PROVE  IInv'
<1>1. call[x].pc = "inside" /\ Ingests(x) /\ row' = row /\ call[x].claim \in DOMAIN claim
  BY OwnCall DEF Store, At, Ingests, Knows
<1>. QED
  BY <1>1, DispositionStep DEF Store

\* Claims that get another disposition from a call that is no ingest.
LEMMA DisposedStep ==
  ASSUME IInv, NEW x \in Context, call[x].pc = "inside", ~Ingests(x), Goto(x, "unlock"), row' = row,
         NEW Q, NEW D, NEW R, Disposed(Q, D, R)
  PROVE  IInv'
<1>1. /\ claim' \in Seq(Claim) /\ DOMAIN claim' = DOMAIN claim
      /\ \A d \in DOMAIN claim : /\ claim'[d].engine = claim[d].engine
                                 /\ claim'[d].handle = claim[d].handle /\ claim'[d].told = claim[d].told
                                 /\ claim'[d].disp = "queued" => claim[d].disp = "queued"
  <2>. DEFINE K(d) == [claim[d] EXCEPT
                         !.disp   = IF d \in Q THEN "requeued" ELSE IF d \in D THEN "settled" ELSE @,
                         !.status = IF d \in R THEN "resolved" ELSE @]
  <2>1. claim' = [d \in DOMAIN claim |-> K(d)]
    BY Zenon DEF Disposed
  <2>2. ASSUME NEW d \in DOMAIN claim
        PROVE  /\ K(d) \in Claim /\ K(d).engine = claim[d].engine /\ K(d).handle = claim[d].handle
               /\ K(d).told = claim[d].told /\ (K(d).disp = "queued" => claim[d].disp = "queued")
    <3>1. claim[d] \in Claim
      BY Places DEF IInv
    <3>. QED
      BY <3>1 DEF Claim
  <2>. HIDE DEF K
  <2>3. claim \in Seq(Claim) /\ DOMAIN claim = 1..Len(claim) /\ Len(claim) \in Nat
    BY DEF IInv, Types
  <2>4. claim' \in [1..Len(claim) -> Claim]
    BY <2>1, <2>2, <2>3
  <2>. QED
    BY <2>1, <2>2, <2>3, <2>4
<1>. PICK c : c = [call[x] EXCEPT !.pc = "unlock"]
  OBVIOUS
<1>2. call' = [call EXCEPT ![x] = c]
  BY DEF Goto
<1>3. /\ c \in Call /\ c.pc = "unlock" /\ c.op = call[x].op /\ c.engine = call[x].engine
      /\ c.claim = call[x].claim /\ c.handle = call[x].handle /\ c.error = call[x].error
  <2>1. call[x] \in Call /\ "unlock" \in Pc
    BY OwnCall DEF Pc
  <2>. QED
    BY <2>1, Onward
<1>4. Grows(x)
  BY <1>1 DEF Grows
<1>5. StepOf(c)' /\ Bridged(call[x], c) /\ c.op # "ingest"
  BY <1>1, <1>3, OwnCall DEF StepOf, Bridged, Ingests
<1>6. ~Ingests(x)'
  BY <1>2, <1>5 DEF Ingests, IInv, Types
<1>7. \A d \in DOMAIN claim' : d \in DOMAIN claim /\ ~Owns(x, d)
  BY <1>1 DEF Owns
<1>. QED
  BY <1>1, <1>2, <1>3, <1>4, <1>5, <1>6, <1>7, OneStep DEF IInv, Types

\* A verdict or a reversion, of a claim that is still queued.
LEMMA SettleStep ==
  ASSUME IInv, NEW x \in Context, Settle(x)
  PROVE  IInv'
<1>1. /\ call[x].pc = "inside" /\ ~Ingests(x) /\ row' = row
      /\ call[x].op \in {"submit", "sweep"}
  BY DEF Settle, At, Ingests
<1>2. CASE Queued(call[x].claim)
  <2>1. PICK i, D, R : Disposed({}, D, R) /\ Goto(x, "unlock")
    BY <1>2, Zenon DEF Settle
  <2>. QED
    BY <1>1, <2>1, DisposedStep
<1>3. CASE ~Queued(call[x].claim)
  BY <1>1, <1>3, FailsInside DEF Settle, Error
<1>. QED
  BY <1>2, <1>3

\* A bound, a reopening, or a pass over the lines of an agent.
LEMMA WriteStep ==
  ASSUME IInv, NEW x \in Context, Write(x) \/ Reconcile(x)
  PROVE  IInv'
<1>1. call[x].pc = "inside" /\ ~Ingests(x) /\ row' = row /\ Goto(x, "unlock")
  BY DEF Write, Reconcile, At, Ingests
<1>2. PICK Q, D : Disposed(Q, D, {})
  BY Zenon DEF Write, Reconcile
<1>. QED
  BY <1>1, <1>2, DisposedStep

\* The handle becomes the row's, or is refused because a row has it.
LEMMA InsertStep ==
  ASSUME IInv, NEW x \in Context, Insert(x)
  PROVE  IInv'
<1>1. /\ call[x].pc = "insert" /\ Ingests(x) /\ Knows(x) /\ call[x] \in Call
      /\ call[x].handle \in Handle /\ call[x].engine \in Engine /\ call[x].error = "none"
  BY OwnCall DEF Insert, At, StepOf, Ingests
<1>2. CASE row[call[x].engine][call[x].handle] # 0
  BY <1>1, <1>2, FailsInside DEF Insert, Error
<1>3. CASE row[call[x].engine][call[x].handle] = 0
  <2>. PICK k, c : /\ k = [claim[call[x].claim] EXCEPT !.handle = call[x].handle, !.status = "pending"]
                   /\ c = [call[x] EXCEPT !.pc = "unlock"]
    OBVIOUS
  <2>1. /\ claim' = [claim EXCEPT ![call[x].claim] = k] /\ call' = [call EXCEPT ![x] = c]
        /\ row' = [row EXCEPT ![call[x].engine][call[x].handle] = call[x].claim]
    BY <1>3 DEF Insert, Registers, Goto
  <2>2. /\ k \in Claim /\ k.disp = claim[call[x].claim].disp /\ k.engine = claim[call[x].claim].engine
        /\ k.handle = call[x].handle /\ k.told = claim[call[x].claim].told
    <3>1. claim[call[x].claim] \in Claim
      BY <1>1, Places DEF IInv, Knows
    <3>. QED
      BY <1>1, <3>1 DEF Claim
  <2>3. /\ c \in Call /\ c.pc = "unlock" /\ c.op = call[x].op /\ c.engine = call[x].engine
        /\ c.claim = call[x].claim /\ c.handle = call[x].handle /\ c.error = call[x].error
    <3>1. "unlock" \in Pc
      BY DEF Pc
    <3>. QED
      BY <1>1, <3>1, Onward
  <2>4. /\ claim' \in Seq(Claim) /\ DOMAIN claim' = DOMAIN claim /\ claim'[call[x].claim] = k
        /\ \A d \in DOMAIN claim \ {call[x].claim} : claim'[d] = claim[d]
    BY <1>1, <2>1, <2>2, Restated DEF Knows
  <2>5. call'[x] = c
    BY <2>1 DEF IInv, Types
  <2>6. /\ row' \in [Engine -> [Handle -> Nat]]
        /\ \A e \in Engine, h \in Handle :
             row'[e][h] = IF e = call[x].engine /\ h = call[x].handle THEN call[x].claim ELSE row[e][h]
    BY <1>1, <2>1, Places DEF IInv, Types, Knows
  <2>7. Grows(x)
    <3>1. ASSUME NEW d \in DOMAIN claim
          PROVE  /\ claim'[d].engine = claim[d].engine
                 /\ Owns(x, d) \/ claim'[d] = claim[d]
      BY <1>1, <2>2, <2>4 DEF Owns
    <3>2. ASSUME NEW e \in Engine, NEW h \in Handle
          PROVE  \/ row'[e][h] = row[e][h]
                 \/ row[e][h] = 0 /\ Ingests(x) /\ e = call[x].engine /\ row'[e][h] = call[x].claim
      BY <1>1, <1>3, <2>6
    <3>. QED
      BY <2>4, <3>1, <3>2 DEF Grows
  <2>8. StepOf(c)' /\ Bridged(call[x], c)
    BY <1>1, <2>3, <2>4, OwnCall DEF StepOf, Bridged, Ingests
  <2>9. ASSUME x[2] = "oracle" PROVE c.engine \notin Asking
    <3>1. PICK t \in Thread : x = Worker(t)
      BY <2>9, Contexts
    <3>. QED
      BY <1>1, <2>3, <3>1 DEF IInv, BridgeInv, Ingests
  <2>10. Knows(x)' /\ Owns(x, c.claim)
    <3>1. /\ call[x].claim \in DOMAIN claim' /\ k.engine = call[x].engine /\ k.told = "waiting"
      BY <1>1, <2>2, <2>4 DEF Knows
    <3>2. row'[call[x].engine][k.handle] = call[x].claim /\ k.handle \in Handle
      BY <1>1, <2>2, <2>6
    <3>3. Knows(x)'
      <4>. PICK n, e : n = call[x].claim /\ e = call[x].engine
        OBVIOUS
      <4>1. n \in DOMAIN claim' /\ claim'[n].engine = e /\ claim'[n].told = "waiting"
        BY <2>4, <3>1
      <4>2. claim'[n].handle \in Handle /\ row'[e][claim'[n].handle] = n
        BY <2>4, <3>2
      <4>3. call'[x].claim = n /\ call'[x].engine = e /\ call'[x].pc = "unlock" /\ call'[x].error = "none"
        BY <1>1, <2>3, <2>5
      <4>. QED
        BY <4>1, <4>2, <4>3 DEF Knows, Reached
    <3>. QED
      BY <1>1, <2>3, <3>3 DEF Owns
  <2>11. ASSUME NEW d \in DOMAIN claim', d \notin DOMAIN claim \/ Owns(x, d) PROVE Truly(d)'
    BY <1>1, <2>2, <2>4, <2>11 DEF Owns, Knows, Truly
  <2>. QED
    BY <2>1, <2>3, <2>4, <2>6, <2>7, <2>8, <2>9, <2>10, <2>11, OneStep
<1>. QED
  BY <1>2, <1>3

\* What the caller is told is what the call knew.
LEMMA UnlockStep ==
  ASSUME IInv, NEW x \in Context, Unlock(x)
  PROVE  IInv'
<1>1. call[x].pc = "unlock" /\ Returns(x) /\ Told(x) /\ row' = row
  BY DEF Unlock, At
<1>2. CASE ~Ingests(x)
  BY <1>1, <1>2, Ends DEF Told, Ingests
<1>3. CASE Ingests(x)
  <2>. PICK a, i, e : /\ a = IF call[x].error = "none" THEN "answered" ELSE "raised"
                      /\ i = call[x].claim /\ e = call[x].engine
    OBVIOUS
  <2>. PICK k : k = [claim[i] EXCEPT !.told = a]
    OBVIOUS
  <2>1. claim' = [claim EXCEPT ![i] = k] /\ call' = [call EXCEPT ![x] = NoCall]
    BY <1>1, <1>3 DEF Told, Returns, Ingests
  <2>2. Knows(x) /\ call[x].error \in Error /\ e \in Engine
    BY <1>3, OwnCall DEF Call, StepOf, Ingests
  <2>3. a \in {"answered", "raised"} /\ (a = "answered" <=> call[x].error = "none")
    OBVIOUS
  <2>4. /\ k \in Claim /\ k.disp = claim[i].disp /\ k.engine = claim[i].engine
        /\ k.handle = claim[i].handle /\ k.told = a
    <3>1. claim[i] \in Claim
      BY <2>2, Places DEF IInv, Knows
    <3>. QED
      BY <2>3, <3>1 DEF Claim
  <2>5. /\ claim' \in Seq(Claim) /\ DOMAIN claim' = DOMAIN claim /\ claim'[i] = k
        /\ \A d \in DOMAIN claim \ {i} : claim'[d] = claim[d]
    BY <2>1, <2>2, <2>4, Restated DEF Knows
  <2>6. Grows(x)
    BY <1>1, <1>3, <2>4, <2>5 DEF Grows, Owns
  <2>7. NoCall \in Call /\ StepOf(NoCall)' /\ Bridged(call[x], NoCall) /\ NoCall.op # "ingest"
    BY <1>1, NoCallType DEF StepOf, Bridged
  <2>8. ~Ingests(x)'
    BY <2>1, <2>7 DEF Ingests, IInv, Types
  <2>9. Truly(i)'
    <3>1. /\ Registered(e, i)' <=> Registered(e, i)
          /\ Reached(e, i)' <=> Reached(e, i)
      BY <1>1, <2>4, <2>5 DEF Registered, Reached
    <3>2. claim'[i].engine = e /\ claim'[i].told = a /\ claim'[i].disp = claim[i].disp
      BY <2>2, <2>4, <2>5 DEF Knows
    <3>. QED
      BY <1>1, <2>2, <2>3, <3>1, <3>2 DEF Knows, Truly
  <2>10. \A d \in DOMAIN claim' : d \notin DOMAIN claim \/ Owns(x, d) => Truly(d)'
    BY <2>5, <2>9 DEF Owns
  <2>. QED
    BY <1>1, <2>1, <2>5, <2>6, <2>7, <2>8, <2>10, OneStep DEF IInv, Types
<1>. QED
  BY <1>2, <1>3

-----------------------------------------------------------------------------
\* A host that has called nothing.
LEMMA InitIInv == Init => IInv
<1>. SUFFICES ASSUME Init PROVE IInv
  OBVIOUS
<1>1. \A x \in Context : call[x] \in {NoCall, [NoCall EXCEPT !.pc = "absent"]}
  BY DEF Init
<1>. DEFINE Away == [NoCall EXCEPT !.pc = "absent"]
<1>2. /\ Away \in Call /\ Away.pc = "absent" /\ Away.op = "none" /\ Away.error = "none"
  <2>1. "absent" \in Pc
    BY DEF Pc
  <2>. QED
    BY <2>1, NoCallType, Onward
<1>3. Types
  BY <1>1, <1>2, NoCallType DEF Init, Types, Opened
<1>. HIDE DEF Away
<1>4. StepInv /\ IngestInv
  BY <1>1, <1>2, NoCallType DEF StepInv, StepOf, IngestInv, Ingests, Away
<1>5. BridgeInv
  <2>. SUFFICES ASSUME NEW t \in Thread
                PROVE  call[Host(t)] = NoCall /\ call[Worker(t)] = Away
    BY <1>2, NoCallType DEF BridgeInv
  <2>. QED
    BY Contexts DEF Init, Away
<1>6. RowInv /\ ToldInv
  BY DEF Init, Opened, RowInv, ToldInv
<1>. QED
  BY <1>3, <1>4, <1>5, <1>6 DEF IInv

\* Every step keeps the invariant.
LEMMA NextIInv == IInv /\ [Next]_vars => IInv'
<1>. SUFFICES ASSUME IInv, [Next]_vars PROVE IInv'
  OBVIOUS
<1>1. CASE UNCHANGED vars
  BY <1>1 DEF vars, IInv, Types, StepInv, StepOf, BridgeInv, IngestInv, Ingests, Knows, Registered,
              Reached, RowInv, ToldInv, Truly
<1>2. ASSUME NEW x \in Context, EngineStep(x)
      PROVE  IInv'
  BY <1>2, LookStep, LockStep, WriteStep, StoreStep, SettleStep, AskStep, InsertStep, UnlockStep DEF EngineStep
<1>3. ASSUME NEW x \in Context, Attach(x) \/ Switch(x) \/ Reply(x)
      PROVE  IInv'
  BY <1>3, Interpreter, ReplyStep
<1>4. ASSUME NEW x \in Context, NEW e \in Engine,
             \/ CallIngest(x, e) \/ CallWrite(x, e) \/ CallReconcile(x, e) \/ CallSweep(x, e)
             \/ CallRead(x, e) \/ CallPending(x, e)
             \/ \E h \in Handle : CallSubmit(x, e, h)
      PROVE  IInv'
  BY <1>4, IngestCalled, OtherCalls
<1>. QED
  BY <1>1, <1>2, <1>3, <1>4 DEF Next

\* A claim that a handle leads to is one whose ingest was answered, with that handle; a queued claim
\* that none leads to is one whose ingest raised or that a reconcile has queued (oracle.rs,
\* ingest_claim.rs, reconcile.rs).
THEOREM OrphansAreAlwaysTold == Spec => []OrphansAreTold
<1>1. IInv => OrphansAreTold
  <2>. SUFFICES ASSUME IInv, NEW c \in DOMAIN claim, Queued(c), claim[c].told # "waiting"
                PROVE  IF Registered(claim[c].engine, c)
                         THEN claim[c].told = "answered" /\ row[claim[c].engine][claim[c].handle] = c
                         ELSE claim[c].told # "answered" \/ claim[c].disp = "requeued"
    BY Zenon DEF OrphansAreTold
  <2>1. Truly(c)
    BY DEF IInv, ToldInv
  <2>. QED
    BY <2>1 DEF Truly, Reached, Registered, Queued
<1>. QED
  BY <1>1, InitIInv, NextIInv, PTL DEF Spec
=============================================================================
