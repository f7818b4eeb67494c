---------------------------- MODULE FacadeProofs ----------------------------
(***************************************************************************)
(* What the ergonomic layers keep, for every set of hosts, offers and      *)
(* instants.                                                               *)
(*                                                                         *)
(* The line beneath takes a step of SubjectLine whatever a host does       *)
(* (FacadeLineStep), so its invariants hold here as well.  FacadeTypesKept *)
(* and NothingHidden need no more.                                         *)
(*                                                                         *)
(* OneHostCloses and EndedForGood hold when calls take effect in the order *)
(* they read the clock: the end a host was told of is a row (ClosedInv),   *)
(* and it stays the last assertion about the claim until somebody brings   *)
(* the claim back (EndedInv).                                              *)
(***************************************************************************)
EXTENDS Facade, SubjectLineProofs
-----------------------------------------------------------------------------
(* The line beneath.                                                       *)

HostType == [pc : {"idle", "resolved", "answered"}, claim : Known \cup {NoClaim},
             at : BoundAt \cup {0}, now : 0..clock, said : Said \cup {"nothing"}]

\* What the calls of end_fact keep: the line is in order, and a host that goes on to bound a
\* claim knows a claim of the line and an instant to bound it at.
FacadeInv ==
  /\ LineInv
  /\ host \in [Host -> HostType]
  /\ \A h \in Host : /\ host[h].said = "nothing" <=> host[h].pc # "answered"
                     /\ host[h].pc = "resolved" => host[h].claim \in Known /\ host[h].at \in BoundAt

\* The second call of end_fact bounds as assert_validity does, or writes nothing.
LEMMA CloseIsACall ==
  ASSUME FacadeInv, NEW h \in Host, NEW call \in waiting \cup {Fresh}, Close(h, call)
  PROVE  LET c == ClaimOf(host[h].claim)
             said == BoundAnswer(c, host[h].at, call.now)
         IN  /\ c \in claims /\ c.tx = host[h].claim
             /\ said = "closed" => AssertBound(c, host[h].at, call)
             /\ said # "closed" => Tick
<1> DEFINE c == ClaimOf(host[h].claim)
           said == BoundAnswer(c, host[h].at, call.now)
<1>1. LineInv /\ host[h].pc = "resolved" /\ host[h].claim \in Known /\ host[h].at \in BoundAt
  BY DEF Close, FacadeInv
<1>2. c \in claims /\ c.tx = host[h].claim
  BY <1>1, ClaimOfKnown
<1>3. Runs(call) /\ UNCHANGED <<claims, pending>> /\ c.tx \in call.known
  BY DEF Close
<1>4. ASSUME said # "closed" PROVE Tick
  <2>1. UNCHANGED <<assertions, ledger>>
    BY <1>4 DEF Close
  <2>. QED
    BY <1>1, <1>3, <2>1, LineTypes DEF Tick, Runs
<1>5. ASSUME said = "closed" PROVE AssertBound(c, host[h].at, call)
  <2>1. Bounded(c.tx, host[h].at, call.now, "host_bound", c.tx)
    BY <1>5 DEF Close
  <2>2. c.start \in Nat /\ c.end \in Nat /\ host[h].at \in Nat
    BY <1>1, <1>2, LineTypes, SubjectLineAssumption
  <2>3. /\ ~Queued(c) /\ ~Denied(L, c) /\ ~(host[h].at < c.start)
        /\ ActiveBound(L, c, call.now) = Never /\ ~(c.end <= host[h].at)
    <3>. HIDE DEF c
    <3>. QED
      BY <1>5 DEF BoundAnswer
  <2>. QED
    BY <1>3, <2>1, <2>2, <2>3 DEF AssertBound
<1>. QED
  BY <1>2, <1>4, <1>5

\* Whatever a host does, the line beneath takes a step of its own.
LEMMA FacadeLineStep ==
  ASSUME FacadeInv, [FacadeNext]_facadeVars
  PROVE  LineStep
<1>1. LineInv
  BY DEF FacadeInv
<1>2. CASE Next
  BY <1>2 DEF LineStep
<1>3. ASSUME NEW h \in Host, NEW at \in BoundAt, Resolve(h, at) PROVE LineStep
  BY <1>1, <1>3, LineTypes DEF Resolve, LineStep, Tick
<1>4. ASSUME NEW h \in Host, NEW call \in waiting \cup {Fresh}, Close(h, call) PROVE LineStep
  <2>1. CASE BoundAnswer(ClaimOf(host[h].claim), host[h].at, call.now) = "closed"
    <3>1. /\ AssertBound(ClaimOf(host[h].claim), host[h].at, call) /\ ClaimOf(host[h].claim) \in claims
          /\ host[h].at \in BoundAt
      BY <1>4, <2>1, CloseIsACall DEF Close, FacadeInv
    <3>2. Call(call)
      BY <3>1 DEF Call
    <3>. QED
      BY <3>2 DEF LineStep, Next
  <2>2. CASE BoundAnswer(ClaimOf(host[h].claim), host[h].at, call.now) # "closed"
    BY <1>4, <2>2, CloseIsACall DEF LineStep
  <2>. QED
    BY <2>1, <2>2
<1>5. CASE UNCHANGED facadeVars
  BY <1>1, <1>5, StutterTicks DEF facadeVars, vars
<1>. QED
  BY <1>2, <1>3, <1>4, <1>5 DEF FacadeNext

\* assert_validity answers one of the things a host can be told.
LEMMA BoundAnswerType == \A c, at, now : BoundAnswer(c, at, now) \in Said
  BY DEF BoundAnswer, Said

\* Every step keeps what hosts were told well-formed.
LEMMA FacadeStep == FacadeInv /\ [FacadeNext]_facadeVars => FacadeInv'
<1>. SUFFICES ASSUME FacadeInv, [FacadeNext]_facadeVars PROVE FacadeInv'
  OBVIOUS
<1>1. LineStep /\ LineInv /\ LineInv'
  BY FacadeLineStep, LineStepKept DEF FacadeInv
<1>2. Known \subseteq Known' /\ clock <= clock' /\ clock \in Nat /\ clock' \in Nat
  <2>1. CASE ReadClock
    BY <1>1, <2>1, LineTypes DEF ReadClock, Known
  <2>2. CASE Reconcile
    BY <1>1, <2>2, LineTypes DEF Reconcile, Known
  <2>3. ASSUME NEW call \in waiting \cup {Fresh}, Call(call)
        PROVE  Known \subseteq Known' /\ clock <= clock' /\ clock \in Nat /\ clock' \in Nat
    BY <1>1, <2>3, CallOrderly DEF Takes, WritesOrderly, Appended, Known
  <2>4. CASE Tick
    BY <1>1, <2>4, LineTypes DEF Tick, Known
  <2>. QED
    BY <1>1, <2>1, <2>2, <2>3, <2>4 DEF LineStep, Next
<1>3. HostType \subseteq HostType'
  BY <1>2 DEF HostType
<1>4. host \in [Host -> HostType']
  BY <1>3 DEF FacadeInv
<1>5. CASE UNCHANGED host
  BY <1>1, <1>2, <1>4, <1>5 DEF FacadeInv
<1>6. ASSUME NEW h \in Host, NEW at \in BoundAt, Resolve(h, at) PROVE FacadeInv'
  <2>1. PICK r : /\ r \in HostType'
                 /\ host' = [host EXCEPT ![h] = r]
                 /\ r.said = "nothing" <=> r.pc # "answered"
                 /\ r.pc = "resolved" => r.claim \in Known' /\ r.at \in BoundAt
    <3> DEFINE now == clock + 1
               Answered(said) == [pc |-> "answered", claim |-> NoClaim, at |-> at, now |-> now, said |-> said]
               Found(c) == [pc |-> "resolved", claim |-> c.tx, at |-> at, now |-> now, said |-> "nothing"]
               Fits(r) == /\ r \in HostType'
                          /\ r.said = "nothing" <=> r.pc # "answered"
                          /\ r.pc = "resolved" => r.claim \in Known' /\ r.at \in BoundAt
    <3>1. now \in 0..clock' /\ clock' = now
      BY <1>2, <1>6 DEF Resolve
    <3>2. Fits(Answered("no_live_claim")) /\ Fits(Answered("ambiguous"))
      BY <3>1 DEF HostType, Said
    <3>3. \A c \in Recall(L, now) : Fits(Found(c))
      <4>. SUFFICES ASSUME NEW c \in Recall(L, now) PROVE Fits(Found(c))
        OBVIOUS
      <4>1. c \in claims
        <5>1. AsOf(L, now).claims \subseteq claims
          BY DEF AsOf, L
        <5>. QED
          BY <5>1, FoldSubset DEF Recall
      <4>2. c.tx \in Known'
        BY <1>2, <4>1 DEF Known
      <4>. QED
        BY <3>1, <4>2 DEF HostType
    <3>4. \/ host' = [host EXCEPT ![h] = Answered("no_live_claim")]
          \/ host' = [host EXCEPT ![h] = Answered("ambiguous")]
          \/ \E c \in Recall(L, now) : host' = [host EXCEPT ![h] = Found(c)]
      BY <1>6 DEF Resolve
    <3>. HIDE DEF now, Answered, Found
    <3>. QED
      BY <3>2, <3>3, <3>4
  <2>. QED
    BY <1>1, <1>2, <1>4, <2>1 DEF FacadeInv
<1>7. ASSUME NEW h \in Host, NEW call \in waiting \cup {Fresh}, Close(h, call) PROVE FacadeInv'
  <2> DEFINE said == BoundAnswer(ClaimOf(host[h].claim), host[h].at, call.now)
  <2>1. said \in Said /\ Runs(call)
    BY <1>7, BoundAnswerType DEF Close
  <2>2. host' = [host EXCEPT ![h] = [@ EXCEPT !.pc = "answered", !.now = call.now, !.said = said]]
    BY <1>7 DEF Close
  <2>. HIDE DEF said
  <2>3. call.now \in 0..clock'
    BY <1>1, <2>1, RunsTakes DEF Takes
  <2>4. \A s \in HostType' :
          LET r == [s EXCEPT !.pc = "answered", !.now = call.now, !.said = said]
          IN  r \in HostType' /\ r.pc = "answered" /\ r.said = said
    BY <2>1, <2>3 DEF HostType
  <2>5. host[h] \in HostType'
    BY <1>4
  <2>6. said # "nothing"
    BY <2>1 DEF Said
  <2>. QED
    BY <1>1, <1>2, <1>4, <2>2, <2>4, <2>5, <2>6 DEF FacadeInv
<1>8. CASE UNCHANGED facadeVars
  BY <1>5, <1>8 DEF facadeVars
<1>. QED
  BY <1>5, <1>6, <1>7, <1>8 DEF FacadeNext

\* Hosts that have not called yet are well-formed,
LEMMA FacadeInitial == FacadeInit => FacadeInv
<1>. SUFFICES ASSUME FacadeInit PROVE FacadeInv
  OBVIOUS
<1>1. LineInv
  BY LineInit DEF FacadeInit
<1>2. [pc |-> "idle", claim |-> NoClaim, at |-> 0, now |-> 0, said |-> "nothing"] \in HostType
  BY <1>1, LineTypes DEF HostType
<1>. QED
  BY <1>1, <1>2 DEF FacadeInit, FacadeInv

\* and so is what they are told from then on.
LEMMA FacadeInvariant == FacadeSpec => []FacadeInv
  BY FacadeInitial, FacadeStep, PTL DEF FacadeSpec

\* Claims named by a host exist, and are what it was answered about.
THEOREM FacadeTypesKept == FacadeSpec => []FacadeTypeOK
<1>1. FacadeInv => FacadeTypeOK
  BY DEF FacadeInv, FacadeTypeOK, LineInv, HostType
<1>. QED
  BY <1>1, FacadeInvariant, PTL

\* A belief that is not contested is of one claim at most.
LEMMA UncontestedIsOne ==
  ASSUME LineInv, NEW S, S \subseteq claims, Status(L, S) # "Contested"
  PROVE  S = Primary(S)
<1>1. IsFiniteSet(S)
  BY FS_Subset DEF LineInv
<1>2. Cardinality(S) \in Nat
  BY <1>1, FS_CardinalityType
<1>3. CASE S = {}
  BY <1>3 DEF Primary
<1>4. CASE S # {}
  <2>1. ~(Cardinality(S) > 1)
    BY <1>4 DEF Status
  <2>2. Cardinality(S) # 0
    BY <1>1, <1>4, FS_EmptySet
  <2>3. Cardinality(S) = 1
    BY <1>2, <2>1, <2>2
  <2>. QED
    BY <2>3 DEF Primary
<1>. QED
  BY <1>3, <1>4

\* Whatever the two recalls make of a belief, every live claim is shown to the host as the value or
\* as a candidate (recall in both ergonomic layers).
THEOREM NothingHidden == FacadeSpec => []NoneHidden
<1>1. FacadeInv => NoneHidden
  <2>. SUFFICES ASSUME FacadeInv PROVE NoneHidden
    OBVIOUS
  <2>1. LineInv
    BY DEF FacadeInv
  <2>2. PICK S : S = Recall(L, clock)
    OBVIOUS
  <2>3. S \subseteq claims
    BY <2>1, <2>2, ReadsAll, FoldSubset DEF L
  <2>4. Primary(S) \subseteq S
    BY DEF Primary
  <2>5. Status(L, S) # "Contested" => S = Primary(S)
    BY <2>1, <2>3, UncontestedIsOne
  <2>6. RustRecall(S).value \cup RustRecall(S).candidates = S
    BY <2>4, <2>5 DEF RustRecall
  <2>7. PythonRecall(S).value \cup PythonRecall(S).candidates = S
    BY <2>4, <2>5 DEF PythonRecall, Alternatives
  <2>. QED
    BY <2>2, <2>6, <2>7 DEF NoneHidden
<1>. QED
  BY <1>1, FacadeInvariant, PTL

-----------------------------------------------------------------------------
(* Hosts that end facts, when calls take effect in the order they read the *)
(* clock.                                                                  *)

\* PromptInv, of the line beneath.
LEMMA FacadePrompt ==
  ASSUME MaxWaiting = 0
  PROVE  FacadeSpec => []PromptInv
<1>1. FacadeInit => PromptInv
  BY PromptInit DEF FacadeInit
<1>2. FacadeInv /\ PromptInv /\ [FacadeNext]_facadeVars => PromptInv'
  BY FacadeLineStep, PromptStep DEF FacadeInv
<1>. QED
  BY <1>1, <1>2, FacadeInvariant, PTL DEF FacadeSpec

\* The claim c ended at the instant at, and that is the last word on it.
EndedAt(c, at) ==
  /\ ~Queued(c)
  /\ \E a \in assertions : a.claim = c.tx /\ LastOf(a) /\ a.kind = "Bound" /\ a.at = at

\* Nothing since now brought the claim back that was ended.
NotBroughtBack(c, now) ==
  /\ ~EndedAhead(c.tx)
  /\ \A e \in ledger : e.claim = c.tx /\ e.by \in {"reopen", "affirm"} => e.at < now

\* A host that was told its fact ended was answered about the last end of it;
EndedInv ==
  \A h \in Host : \A c \in claims :
    Ended(h) /\ host[h].claim = c.tx /\ NotBroughtBack(c, host[h].now) => EndedAt(c, host[h].at)

\* and the host that was told it closed the fact wrote that end.
ClosedInv ==
  \A h \in Host : host[h].said = "closed" =>
    \E a \in assertions : /\ a.claim = host[h].claim /\ a.kind = "Bound"
                          /\ a.at = host[h].at /\ a.asserted = host[h].now

\* The end of a claim that was never ended ahead is its bound.
LEMMA EndIsBound ==
  ASSUME LineInv, PromptInv, NEW c \in claims, NEW t \in Nat, clock <= t, ~EndedAhead(c.tx),
         NEW at, EndedAt(c, at)
  PROVE  ActiveBound(L, c, t) = at /\ at \in Nat /\ at < Never
<1>1. PICK a \in assertions : a.claim = c.tx /\ LastOf(a) /\ a.kind = "Bound" /\ a.at = at
  BY DEF EndedAt
<1>2. a.at <= t /\ a.at < Never /\ a.at \in Nat
  BY <1>1, LineTypes DEF EndedAhead, PromptInv, ToldInv
<1>. QED
  BY <1>1, <1>2, BoundIsLast

\* A claim with a bound has that of its last assertion.
LEMMA BoundIsEnd ==
  ASSUME LineInv, NEW c \in claims, ~EndedAhead(c.tx), NEW t \in Nat, clock <= t,
         ActiveBound(L, c, t) # Never
  PROVE  \E a \in assertions : /\ a.claim = c.tx /\ LastOf(a) /\ a.kind = "Bound"
                               /\ a.at = ActiveBound(L, c, t)
<1>1. PICK b \in assertions : b.claim = c.tx
  BY BoundOfNone
<1>2. PICK a \in assertions : a.claim = c.tx /\ LastOf(a)
  BY <1>1, LastExists
<1>3. a.at <= t
  BY <1>2, LineTypes DEF EndedAhead
<1>. QED
  BY <1>2, <1>3, BoundIsLast

\* A step that brings nothing back leaves an end what it is.
LEMMA EndKept ==
  ASSUME LineInv, LineInv', PromptInv, LineStep, NEW c \in claims, NEW at, EndedAt(c, at),
         NEW now, now <= clock, now \in Nat, NotBroughtBack(c, now)'
  PROVE  EndedAt(c, at)'
<1>1. c \in claims' /\ ledger \subseteq ledger' /\ assertions \subseteq assertions' /\ Prompt
  BY RowsStay DEF PromptInv
<1>2. ~EndedAhead(c.tx)
  BY <1>1 DEF NotBroughtBack, EndedAhead
<1>3. clock \in Nat /\ clock <= clock + 1 /\ clock + 1 \in Nat
  BY LineTypes
<1>4. ActiveBound(L, c, clock + 1) # Never /\ ~Live(L, c, clock + 1)
  BY <1>2, <1>3, EndIsBound, LineTypes DEF Live
<1>5. PICK a \in assertions : a.claim = c.tx /\ LastOf(a) /\ a.kind = "Bound" /\ a.at = at
  BY DEF EndedAt
<1>6. ASSUME \A b : b.claim = c.tx => (b \in assertions' <=> b \in assertions), Latest(L', c).disp # "Queued"
      PROVE  EndedAt(c, at)'
  <2>1. LastOf(a)'
    BY <1>1, <1>5, <1>6 DEF LastOf
  <2>. QED
    BY <1>1, <1>5, <1>6, <2>1 DEF EndedAt, Queued
<1>7. CASE Untouched(c)
  <2>1. Latest(L', c) = Latest(L, c)
    BY <1>1, <1>7, TouchedLatest
  <2>. QED
    BY <1>6, <1>7, <2>1 DEF Untouched, EndedAt, Queued
<1>8. ASSUME NEW n, NEW new, Touched(c, n, new), How(c, n, new, clock + 1)
      PROVE  EndedAt(c, at)'
  <2>1. n.at = clock + 1
    BY <1>8, EntryFields
       DEF How, HandsOver, IsPreferred, IsDenied, IsDoubted, Lapses, IsBounded, IsReopened, IsNoted
  <2>2. n.by \notin {"reopen", "affirm"}
    <3>1. n \in ledger' /\ n.claim = c.tx
      BY <1>8 DEF Touched
    <3>2. ~(n.at < now)
      BY <1>3, <2>1
    <3>. QED
      BY <3>1, <3>2 DEF NotBroughtBack
  <2>3. IsDoubted(c, n, new, clock + 1)
    BY <1>4, <1>8, <2>2, EntryFields
       DEF EndedAt, How, HandsOver, IsPreferred, IsDenied, Lapses, IsBounded, IsReopened, IsNoted
  <2>4. new = {} /\ n.disp = "Contested"
    BY <2>3, EntryFields DEF IsDoubted
  <2>5. Latest(L', c) = n
    BY <1>1, <1>8, <2>1, TouchedLatest
  <2>. QED
    BY <1>6, <1>8, <2>4, <2>5 DEF Touched
<1>. QED
  BY <1>1, <1>7, <1>8, StepTells DEF ToldOf

\* What a step does to a host: nothing, or a first call that ends nothing, or the second call,
\* which runs as the clock advances.
LEMMA HostStep ==
  ASSUME FacadeInv, PromptInv, [FacadeNext]_facadeVars, NEW h \in Host
  PROVE  \/ host'[h] = host[h]
         \/ ~Ended(h)'
         \/ /\ Close(h, Fresh) /\ host'[h].said = BoundAnswer(ClaimOf(host[h].claim), host[h].at, clock + 1)
            /\ host'[h].claim = host[h].claim /\ host'[h].at = host[h].at /\ host'[h].now = clock + 1
            /\ \A g \in Host \ {h} : host'[g] = host[g]
<1>0. host \in [Host -> HostType]
  BY DEF FacadeInv
<1>1. CASE UNCHANGED host
  BY <1>1
<1>2. ASSUME NEW g \in Host, NEW at \in BoundAt, Resolve(g, at)
      PROVE  host'[h] = host[h] \/ ~Ended(h)'
  <2>1. \E r : host' = [host EXCEPT ![g] = r] /\ r.said \notin {"closed", "no_op"}
    <3> DEFINE Answered(said) == [pc |-> "answered", claim |-> NoClaim, at |-> at, now |-> clock + 1, said |-> said]
               Found(c) == [pc |-> "resolved", claim |-> c.tx, at |-> at, now |-> clock + 1, said |-> "nothing"]
    <3>1. \/ host' = [host EXCEPT ![g] = Answered("no_live_claim")]
          \/ host' = [host EXCEPT ![g] = Answered("ambiguous")]
          \/ \E c \in Recall(L, clock + 1) : host' = [host EXCEPT ![g] = Found(c)]
      BY <1>2 DEF Resolve
    <3>2. /\ Answered("no_live_claim").said = "no_live_claim" /\ Answered("ambiguous").said = "ambiguous"
          /\ \A c : Found(c).said = "nothing"
      OBVIOUS
    <3>. HIDE DEF Answered, Found
    <3>. QED
      BY <3>1, <3>2
  <2>. QED
    BY <1>0, <2>1 DEF Ended
<1>3. ASSUME NEW g \in Host, NEW call \in waiting \cup {Fresh}, Close(g, call)
      PROVE  \/ host'[h] = host[h]
             \/ /\ Close(h, Fresh) /\ host'[h].said = BoundAnswer(ClaimOf(host[h].claim), host[h].at, clock + 1)
                /\ host'[h].claim = host[h].claim /\ host'[h].at = host[h].at /\ host'[h].now = clock + 1
                /\ \A x \in Host \ {h} : host'[x] = host[x]
  <2>1. Runs(call)
    BY <1>3 DEF Close
  <2>2. call = Fresh /\ call.now = clock + 1
    BY <2>1, PromptCall DEF PromptInv
  <2>3. PICK said : said = BoundAnswer(ClaimOf(host[g].claim), host[g].at, clock + 1)
    OBVIOUS
  <2>4. host' = [host EXCEPT ![g] = [@ EXCEPT !.pc = "answered", !.now = clock + 1, !.said = said]]
    BY <1>3, <2>2, <2>3 DEF Close
  <2>5. \A s \in HostType :
          LET r == [s EXCEPT !.pc = "answered", !.now = clock + 1, !.said = said]
          IN  r.said = said /\ r.now = clock + 1 /\ r.claim = s.claim /\ r.at = s.at
    BY DEF HostType
  <2>6. \A x \in Host \ {g} : host'[x] = host[x]
    BY <1>0, <2>4
  <2>7. /\ host'[g].said = said /\ host'[g].now = clock + 1 /\ host'[g].claim = host[g].claim
        /\ host'[g].at = host[g].at
    BY <1>0, <2>4, <2>5
  <2>8. CASE g = h
    BY <1>3, <2>2, <2>3, <2>6, <2>7, <2>8
  <2>. QED
    BY <2>6, <2>8
<1>4. CASE UNCHANGED facadeVars
  BY <1>1, <1>4 DEF facadeVars
<1>. QED
  BY <1>1, <1>2, <1>3, <1>4 DEF FacadeNext

\* A host names claims that were there when it read the clock.
LEMMA HostTypes ==
  ASSUME FacadeInv, NEW h \in Host
  PROVE  /\ host[h].claim \in Known \cup {NoClaim} /\ host[h].now \in Nat /\ host[h].now <= clock
         /\ host[h].at \in Nat
<1>1. PICK r : r = host[h] /\ r \in HostType
  BY DEF FacadeInv
<1>2. clock \in Nat /\ BoundAt \subseteq Nat
  BY LineTypes, SubjectLineAssumption DEF FacadeInv
<1>3. r.claim \in Known \cup {NoClaim} /\ r.now \in 0..clock /\ r.at \in BoundAt \cup {0}
  BY <1>1 DEF HostType
<1>4. r.now \in Nat /\ r.now <= clock
  <2>1. \A m \in 0..clock : m \in Nat /\ m <= clock
    BY <1>2
  <2>. QED
    BY <1>3, <2>1
<1>5. r.at \in Nat
  <2>1. \A at \in BoundAt \cup {0} : at \in Nat
    BY SubjectLineAssumption
  <2>. QED
    BY <1>3, <2>1
<1>. QED
  BY <1>1, <1>3, <1>4, <1>5

\* The claim a host names is not one that a step brings.
LEMMA NamedIsKnown ==
  ASSUME FacadeInv, LineInv', PromptInv, LineStep, NEW h \in Host, NEW c \in claims', host[h].claim = c.tx
  PROVE  c \in claims
<1>1. ASSUME c \notin claims PROVE FALSE
  <2>1. LineInv
    BY DEF FacadeInv
  <2>2. c.tx = clock + 1 /\ c.tx \notin Known
    BY <1>1, <2>1, StepIngests DEF PromptInv, JustIngested
  <2>. QED
    BY <2>1, <2>2, HostTypes, LineTypes DEF NoClaim
<1>. QED
  BY <1>1

\* The second call of end_fact, when it ended the claim: by an end of its own,
LEMMA CloseEnds ==
  ASSUME FacadeInv, FacadeInv', PromptInv, NEW h \in Host, Close(h, Fresh),
         BoundAnswer(ClaimOf(host[h].claim), host[h].at, clock + 1) = "closed",
         NEW c \in claims, c.tx = host[h].claim, NEW at, at = host[h].at
  PROVE  /\ ActiveBound(L, c, clock + 1) = Never
         /\ \E a \in assertions' : /\ a.claim = c.tx /\ a.kind = "Bound"
                                   /\ a.at = at /\ a.asserted = clock + 1
         /\ EndedAt(c, at)'
<1>1. LineInv /\ LineInv' /\ Fresh.now = clock + 1
  BY DEF FacadeInv, Fresh
<1>2. c = ClaimOf(host[h].claim)
  <2>1. ClaimOf(host[h].claim) \in claims /\ ClaimOf(host[h].claim).tx = host[h].claim
    BY CloseIsACall
  <2>. QED
    BY <1>1, <2>1, LineTypes
<1>3. AssertBound(c, at, Fresh)
  BY <1>1, <1>2, CloseIsACall
<1>4. PICK n, b : /\ n = Entry(c.tx, "Superseded", clock + 1, "host_bound", c.tx)
                  /\ b = Assertion(c.tx, "Bound", at, clock + 1)
  OBVIOUS
<1>5. /\ n.claim = c.tx /\ n.disp = "Superseded" /\ n.at = clock + 1
      /\ b.claim = c.tx /\ b.kind = "Bound" /\ b.at = at /\ b.asserted = clock + 1
  BY <1>4, EntryFields, AssertionFields
<1>6. ledger' = ledger \cup {n} /\ assertions' = assertions \cup {b} /\ claims' = claims
  BY <1>1, <1>3, <1>4 DEF AssertBound, Bounded
<1>7. LastOf(b)'
  BY <1>1, <1>5, <1>6, LineTypes DEF LastOf
<1>8. Latest(L', c) = n
  <2>1. \A f \in ledger' : f.claim = c.tx => f.at <= n.at
    BY <1>1, <1>5, <1>6, LineTypes
  <2>. QED
    BY <1>1, <1>5, <1>6, <2>1, LatestBecomes
<1>9. EndedAt(c, at)'
  BY <1>5, <1>6, <1>7, <1>8 DEF EndedAt, Queued
<1>10. ActiveBound(L, c, clock + 1) = Never
  BY <1>1, <1>3 DEF AssertBound
<1>. QED
  BY <1>5, <1>6, <1>9, <1>10

\* or because it had ended at that very instant.
LEMMA CloseFindsEnded ==
  ASSUME FacadeInv, NEW h \in Host, Close(h, Fresh),
         BoundAnswer(ClaimOf(host[h].claim), host[h].at, clock + 1) = "no_op",
         NEW c \in claims, c.tx = host[h].claim, ~EndedAhead(c.tx), NEW at, at = host[h].at
  PROVE  EndedAt(c, at)'
<1>1. LineInv
  BY DEF FacadeInv
<1>2. c = ClaimOf(host[h].claim)
  <2>1. ClaimOf(host[h].claim) \in claims /\ ClaimOf(host[h].claim).tx = host[h].claim
    BY CloseIsACall
  <2>. QED
    BY <1>1, <2>1, LineTypes
<1>3. ~Queued(c) /\ ActiveBound(L, c, clock + 1) # Never /\ ActiveBound(L, c, clock + 1) = at
  <2>1. BoundAnswer(c, at, clock + 1) = "no_op"
    BY <1>2
  <2>. QED
    BY <2>1 DEF BoundAnswer
<1>4. EndedAt(c, at)
  BY <1>1, <1>3, BoundIsEnd, LineTypes DEF EndedAt
<1>5. UNCHANGED <<claims, ledger, assertions>>
  BY DEF Close, Fresh
<1>. QED
  BY <1>4, <1>5 DEF EndedAt, Queued, LastOf, L

\* A host that was told it closed the fact has its row, whatever happens next.
LEMMA ClosedKept ==
  ASSUME FacadeInv, FacadeInv', PromptInv, ClosedInv, [FacadeNext]_facadeVars
  PROVE  ClosedInv'
<1>1. SUFFICES ASSUME NEW h \in Host, host'[h].said = "closed"
               PROVE  \E a \in assertions' : /\ a.claim = host'[h].claim /\ a.kind = "Bound"
                                             /\ a.at = host'[h].at /\ a.asserted = host'[h].now
  BY DEF ClosedInv
<1>2. assertions \subseteq assertions' /\ Ended(h)'
  BY <1>1, FacadeLineStep, RowsStay DEF FacadeInv, Ended
<1>3. CASE host'[h] = host[h]
  BY <1>1, <1>2, <1>3 DEF ClosedInv
<1>4. ASSUME Close(h, Fresh), host'[h].said = BoundAnswer(ClaimOf(host[h].claim), host[h].at, clock + 1),
             host'[h].claim = host[h].claim, host'[h].at = host[h].at, host'[h].now = clock + 1
      PROVE  \E a \in assertions' : /\ a.claim = host'[h].claim /\ a.kind = "Bound"
                                    /\ a.at = host'[h].at /\ a.asserted = host'[h].now
  <2>1. PICK c \in claims : c.tx = host[h].claim
    BY <1>4, CloseIsACall
  <2>2. PICK at : at = host[h].at
    OBVIOUS
  <2>. QED
    BY <1>1, <1>4, <2>1, <2>2, CloseEnds
<1>. QED
  BY <1>2, <1>3, <1>4, HostStep

\* A host that closes a fact after another one finds that it was reopened since.
LEMMA ClosesOnce ==
  ASSUME FacadeInv, FacadeInv', PromptInv, ClosedInv, OneCloses, [FacadeNext]_facadeVars
  PROVE  OneCloses'
<1>1. SUFFICES ASSUME NEW g \in Host, NEW h \in Host,
                      host'[g].said = "closed", host'[h].said = "closed",
                      host'[g].claim = host'[h].claim, host'[g].now < host'[h].now,
                      ~EndedAhead(host[h].claim)'
               PROVE  \E a \in assertions' :
                        /\ a.claim = host'[h].claim /\ a.kind = "Reopen"
                        /\ host'[g].now < a.asserted /\ a.asserted < host'[h].now
  BY DEF OneCloses
<1>2. LineInv /\ assertions \subseteq assertions' /\ Ended(g)' /\ Ended(h)'
  BY <1>1, FacadeLineStep, RowsStay DEF FacadeInv, Ended
<1>3. ~EndedAhead(host'[h].claim)
  BY <1>1, <1>2 DEF EndedAhead
<1>4. /\ host[g].now \in Nat /\ host[g].now <= clock /\ host[h].now \in Nat /\ host[h].now <= clock
      /\ clock \in Nat
  BY <1>2, HostTypes, LineTypes
<1>5. CASE host'[g] = host[g] /\ host'[h] = host[h]
  BY <1>1, <1>2, <1>3, <1>5 DEF OneCloses
<1>6. ASSUME host'[g] = host[g], Close(h, Fresh),
             host'[h].said = BoundAnswer(ClaimOf(host[h].claim), host[h].at, clock + 1),
             host'[h].claim = host[h].claim, host'[h].now = clock + 1
      PROVE  \E a \in assertions' :
               /\ a.claim = host'[h].claim /\ a.kind = "Reopen"
               /\ host'[g].now < a.asserted /\ a.asserted < host'[h].now
  <2>1. PICK c \in claims : c.tx = host[h].claim
    BY <1>6, CloseIsACall
  <2>2. PICK at : at = host[h].at
    OBVIOUS
  <2>3. ActiveBound(L, c, clock + 1) = Never
    BY <1>1, <1>6, <2>1, <2>2, CloseEnds
  <2>4. PICK b \in assertions : b.claim = c.tx /\ b.kind = "Bound" /\ b.asserted = host[g].now
    BY <1>1, <1>6, <2>1 DEF ClosedInv
  <2>5. PICK a \in assertions : a.claim = c.tx /\ LastOf(a)
    BY <1>2, <2>4, LastExists
  <2>6. a.at <= clock + 1 /\ clock <= clock + 1 /\ clock + 1 \in Nat /\ a.at < Never /\ Never \in Nat /\ a.at \in Nat
    BY <1>2, <1>3, <1>6, <2>1, <2>5, LineTypes DEF EndedAhead, PromptInv, ToldInv
  <2>7. a.kind # "Bound"
    BY <1>2, <2>3, <2>5, <2>6, BoundIsLast
  <2>8. a.kind = "Reopen" /\ a.asserted \in Nat /\ a.asserted <= clock
    BY <1>2, <2>7, LineTypes
  <2>9. b.asserted <= a.asserted
    BY <2>4, <2>5 DEF LastOf
  <2>10. b.asserted # a.asserted
    BY <1>2, <2>4, <2>5, <2>7 DEF LineInv
  <2>11. host'[g].now < a.asserted /\ a.asserted < host'[h].now
    BY <1>4, <1>6, <2>4, <2>8, <2>9, <2>10
  <2>. QED
    BY <1>2, <1>6, <2>1, <2>5, <2>8, <2>11
<1>7. ASSUME host'[g].now = clock + 1, host'[h].now = clock + 1 \/ host'[h] = host[h]
      PROVE  FALSE
  BY <1>1, <1>4, <1>7
<1>8. \/ host'[g] = host[g]
      \/ host'[g].now = clock + 1
  BY <1>2, HostStep
<1>9. \/ host'[h] = host[h]
      \/ /\ Close(h, Fresh) /\ host'[h].claim = host[h].claim /\ host'[h].now = clock + 1
         /\ host'[h].said = BoundAnswer(ClaimOf(host[h].claim), host[h].at, clock + 1)
  BY <1>2, HostStep
<1>. QED
  BY <1>5, <1>6, <1>7, <1>8, <1>9

\* An end that a host was told of is the last one, until it is brought back.
LEMMA EndedKept ==
  ASSUME FacadeInv, FacadeInv', PromptInv, EndedInv, [FacadeNext]_facadeVars
  PROVE  EndedInv'
<1>1. SUFFICES ASSUME NEW h \in Host, NEW c \in claims', Ended(h)', host'[h].claim = c.tx,
                      NotBroughtBack(c, host[h].now)', NEW at, at = host'[h].at
               PROVE  EndedAt(c, at)'
  BY DEF EndedInv
<1>2. LineInv /\ LineInv' /\ LineStep
  BY FacadeLineStep DEF FacadeInv
<1>3. CASE host'[h] = host[h]
  <2>1. c \in claims
    BY <1>1, <1>2, <1>3, NamedIsKnown
  <2>2. PICK now : now = host[h].now /\ now \in Nat /\ now <= clock
    BY HostTypes
  <2>3. NotBroughtBack(c, now)'
    BY <1>1, <1>3, <2>2 DEF NotBroughtBack
  <2>4. NotBroughtBack(c, now)
    BY <1>2, <2>3, RowsStay DEF NotBroughtBack, EndedAhead
  <2>5. EndedAt(c, at)
    BY <1>1, <1>3, <2>1, <2>2, <2>4 DEF EndedInv, Ended
  <2>. QED
    BY <1>2, <2>1, <2>2, <2>3, <2>5, EndKept
<1>4. ASSUME Close(h, Fresh), host'[h].said = BoundAnswer(ClaimOf(host[h].claim), host[h].at, clock + 1),
             host'[h].claim = host[h].claim, host'[h].at = host[h].at
      PROVE  EndedAt(c, at)'
  <2>1. c \in claims /\ c.tx = host[h].claim /\ at = host[h].at
    BY <1>1, <1>4 DEF Close
  <2>2. ~EndedAhead(c.tx)
    BY <1>1, <1>2, RowsStay DEF NotBroughtBack, EndedAhead
  <2>3. host'[h].said \in {"closed", "no_op"}
    BY <1>1 DEF Ended
  <2>4. CASE host'[h].said = "closed"
    BY <1>4, <2>1, <2>4, CloseEnds
  <2>5. CASE host'[h].said = "no_op"
    BY <1>4, <2>1, <2>2, <2>5, CloseFindsEnded
  <2>. QED
    BY <2>3, <2>4, <2>5
<1>. QED
  BY <1>1, <1>3, <1>4, HostStep

\* OneCloses: of hosts that race to end one fact, the second is told so only if it was reopened
\* meanwhile (AlreadyBound), when calls take effect in the order they read the clock.
THEOREM OneHostCloses ==
  ASSUME MaxWaiting = 0
  PROVE  FacadeSpec => []OneCloses
<1>1. FacadeInit => ClosedInv /\ OneCloses
  BY DEF FacadeInit, ClosedInv, OneCloses
<1>2. (FacadeInv /\ FacadeInv' /\ PromptInv /\ ClosedInv /\ OneCloses) /\ [FacadeNext]_facadeVars
        => ClosedInv' /\ OneCloses'
  BY ClosedKept, ClosesOnce
<1>3. FacadeSpec => []PromptInv
  BY FacadePrompt
<1>. QED
  BY <1>1, <1>2, <1>3, FacadeInvariant, PTL DEF FacadeSpec

\* A claim that ended is not read, now or at an instant from its end on.
LEMMA EndedIsNotRead ==
  ASSUME LineInv, PromptInv, NEW c \in claims, ~EndedAhead(c.tx), NEW at, EndedAt(c, at)
  PROVE  /\ c \notin Recall(L, clock)
         /\ \A v \in Instant : at <= v => c \notin RecallAt(L, clock, v)
<1>1. ActiveBound(L, c, clock) = at /\ at \in Nat /\ at < Never /\ Never \in Nat
  BY EndIsBound, LineTypes
<1>2. c \notin RawLive(L, clock)
  BY <1>1 DEF RawLive, Live
<1>3. \A v : c \notin Fold(L, clock, v)
  BY <1>2, FoldSubset
<1>4. ASSUME NEW v \in Instant, at <= v PROVE ~Holds(Window(L, c, clock), v)
  <2>1. Window(L, c, clock).end <= at /\ Window(L, c, clock).end \in Nat
    BY <1>1, WindowTypes
  <2>. QED
    BY <1>1, <1>4, <2>1, LineTypes DEF Holds, Instant
<1>5. ASSUME NEW v \in Instant, at <= v PROVE c \notin Narrowed(L, clock, v)
  BY <1>3, <1>4, <1>5 DEF Narrowed
<1>. QED
  BY <1>3, <1>5, ReadsAll

\* EndedStaysEnded: what a host was told it ended it never reads again, until somebody brings it
\* back (active_bound_at on every read path), when calls take effect in that order.
THEOREM EndedForGood ==
  ASSUME MaxWaiting = 0
  PROVE  FacadeSpec => []EndedStaysEnded
<1>1. FacadeInit => EndedInv
  BY DEF FacadeInit, EndedInv, Ended
<1>2. (FacadeInv /\ FacadeInv' /\ PromptInv /\ EndedInv) /\ [FacadeNext]_facadeVars => EndedInv'
  BY EndedKept
<1>3. FacadeInv /\ PromptInv /\ EndedInv => EndedStaysEnded
  <2>. SUFFICES ASSUME FacadeInv, PromptInv, EndedInv, NEW h \in Host, NEW c \in claims,
                       Ended(h), host[h].claim = c.tx, NotBroughtBack(c, host[h].now)
                PROVE  /\ c \notin Recall(L, clock)
                       /\ \A v \in Instant : host[h].at <= v => c \notin RecallAt(L, clock, v)
    BY DEF EndedStaysEnded, NotBroughtBack
  <2>1. EndedAt(c, host[h].at)
    BY DEF EndedInv
  <2>. QED
    BY <2>1, EndedIsNotRead DEF FacadeInv, NotBroughtBack
<1>4. FacadeSpec => []PromptInv
  BY FacadePrompt
<1>. QED
  BY <1>1, <1>2, <1>3, <1>4, FacadeInvariant, PTL DEF FacadeSpec
=============================================================================
