-------------------------- MODULE SubjectLineProofs --------------------------
(***************************************************************************)
(* What SubjectLine keeps, for every set of offers and instants, with or   *)
(* without an oracle, and every bound.                                     *)
(*                                                                         *)
(* PastImmutable: no step changes an answer about an instant that lies     *)
(* before the one the step is stamped with.  A step appends rows that all  *)
(* carry its instant (Appended); a view as of an earlier instant therefore *)
(* is the same view (SameView), and it is all that the fold and the        *)
(* point-in-time reads depend on (FoldDepends, NarrowedDepends).           *)
(*                                                                         *)
(* DeniedIsTraceless: a challenger whose denial is its last entry changes  *)
(* nothing.  That an entry IS the last of its claim needs an invariant:    *)
(* every claim that has entries has a latest one (LedgerInv).              *)
(*                                                                         *)
(* TypesKept: TypeOK, from LineInv: no two calls run with one instant, so  *)
(* that one names a row among those about a claim.                         *)
(*                                                                         *)
(* ReconcileSettles: the entries of a pass leave every claim it believed   *)
(* as live as it was, and so what the next pass would decide.              *)
(*                                                                         *)
(* HistoryIsTold: a dated claim whose end precedes its start is quarantined *)
(* for good (BackwardInv), so the windows that history shows have no       *)
(* instant that a read would not answer.                                   *)
(*                                                                         *)
(* HandOverIsExact and NothingIsSilent: when calls take effect in the      *)
(* order they read the clock (MaxWaiting = 0), the ledger and the          *)
(* assertions tell the same story (PromptInv): every end in the one is a   *)
(* bound in the other, and what a verdict ended it ended where the         *)
(* challenger starts.  Without that order a stale bound can be written     *)
(* beneath a newer one, and the two properties fail.                       *)
(***************************************************************************)
EXTENDS SubjectLine, FiniteSetTheorems, WellFoundedInduction, TLAPS

-----------------------------------------------------------------------------
\* At most one claim of a succession holds an instant: select_by_valid_time_instant, which
\* returns the first it meets, returns the only one there is.
LEMMA SuccessionHoldsOnce ==
  ASSUME NEW S, Succession(S), \A c \in S : c.start \in Int /\ c.end \in Int,
         NEW v \in Int, NEW c \in S, NEW d \in S, Holds(c, v), Holds(d, v)
  PROVE  c = d
  BY DEF Succession, Apart, Holds

-----------------------------------------------------------------------------
(* What an answer depends on.                                              *)

LatestOf(entries, c) ==
  CHOOSE e \in entries : e.claim = c.tx /\ \A f \in entries : f.claim = c.tx => f.at <= e.at

BoundOf(effective) ==
  LET last == CHOOSE a \in effective : \A b \in effective : b.asserted <= a.asserted
  IN  IF effective # {} /\ last.kind = "Bound" THEN last.at ELSE Never

FoldOf(live, v) ==
  IF Cardinality(live) > 1 /\ Succession(live) THEN {c \in live : Holds(c, v)} ELSE live

\* The same entries, and the same assertions have taken effect at t.
SameRecord(M, N, t) ==
  M.ledger = N.ledger /\ \A c : Effective(M, c, t) = Effective(N, c, t)

\* Two views agree at t when they have the same claims, too.
Agree(M, N, t) == M.claims = N.claims /\ SameRecord(M, N, t)

\* The record alone gives each claim its outcome, bound and liveness.
LEMMA ClaimDepends ==
  ASSUME NEW M, NEW N, NEW t, SameRecord(M, N, t), NEW c
  PROVE  /\ Latest(M, c) = Latest(N, c)
         /\ ActiveBound(M, c, t) = ActiveBound(N, c, t)
         /\ Live(M, c, t) <=> Live(N, c, t)
<1>1. Latest(M, c) = LatestOf(M.ledger, c) /\ Latest(N, c) = LatestOf(N.ledger, c)
  BY DEF Latest, LatestOf
<1>2. ActiveBound(M, c, t) = BoundOf(Effective(M, c, t))
  BY DEF ActiveBound, BoundOf
<1>3. ActiveBound(N, c, t) = BoundOf(Effective(N, c, t))
  BY DEF ActiveBound, BoundOf
<1>4. Latest(M, c) = Latest(N, c)
  BY <1>1 DEF SameRecord
<1>5. ActiveBound(M, c, t) = ActiveBound(N, c, t)
  BY <1>2, <1>3 DEF SameRecord
<1>. QED
  BY <1>4, <1>5 DEF Live, Excluded

\* Views that agree believe the same.
LEMMA FoldDepends ==
  ASSUME NEW M, NEW N, NEW t, Agree(M, N, t), NEW v
  PROVE  Fold(M, t, v) = Fold(N, t, v)
<1>1. M.claims = N.claims /\ \A c : Live(M, c, t) <=> Live(N, c, t)
  BY ClaimDepends DEF Agree
<1>2. RawLive(M, t) = RawLive(N, t)
  BY <1>1 DEF RawLive
<1>3. Fold(M, t, v) = FoldOf(RawLive(M, t), v)
  BY DEF Fold, FoldOf
<1>4. Fold(N, t, v) = FoldOf(RawLive(N, t), v)
  BY DEF Fold, FoldOf
<1>. QED
  BY <1>2, <1>3, <1>4

\* Views that agree answer alike for every instant.
LEMMA NarrowedDepends ==
  ASSUME NEW M, NEW N, NEW t, Agree(M, N, t), NEW v
  PROVE  Narrowed(M, t, v) = Narrowed(N, t, v)
<1> DEFINE R(K) == Reentrant(K, t)
           W(K) == {Window(K, c, t) : c \in R(K)}
           S(K) == {c \in R(K) : Holds(Window(K, c, t), v)}
<1>1. /\ M.claims = N.claims
      /\ \A c : /\ Latest(M, c) = Latest(N, c) /\ ActiveBound(M, c, t) = ActiveBound(N, c, t)
                /\ Live(M, c, t) <=> Live(N, c, t)
  BY ClaimDepends DEF Agree
<1>2. R(M) = R(N)
  BY <1>1 DEF Reentrant, HardExcluded, Denied
<1>3. W(M) = W(N) /\ S(M) = S(N)
  <2>1. \A c : Window(M, c, t) = Window(N, c, t)
    BY <1>1 DEF Window
  <2>. QED
    BY <1>2, <2>1
<1>4. Fold(M, t, v) = Fold(N, t, v)
  BY FoldDepends
<1>5. Narrowed(M, t, v) = IF Succession(W(M)) THEN S(M) ELSE Fold(M, t, v)
  BY DEF Narrowed
<1>6. Narrowed(N, t, v) = IF Succession(W(N)) THEN S(N) ELSE Fold(N, t, v)
  BY DEF Narrowed
<1>. QED
  BY <1>3, <1>4, <1>5, <1>6

-----------------------------------------------------------------------------
(* What a step appends.                                                    *)

\* Nothing is removed, and every new row is stamped with now.
Appended(now) ==
  /\ claims \subseteq claims' /\ \A c \in claims' \ claims : c.tx = now
  /\ ledger \subseteq ledger' /\ \A e \in ledger' \ ledger : e.at = now
  /\ assertions \subseteq assertions' /\ \A a \in assertions' \ assertions : a.asserted = now

\* A call appends rows with the instant it has read.
LEMMA CallAppends ==
  ASSUME NEW call, Call(call)
  PROVE  Appended(call.now) /\ Runs(call)
<1>1. ASSUME NEW offer \in Offer, Ingest(offer, call) PROVE Appended(call.now) /\ Runs(call)
  BY <1>1 DEF Ingest, Entry, Appended
<1>2. ASSUME NEW row \in pending, NEW verdict \in Verdict, Submit(row, verdict, call)
      PROVE  Appended(call.now) /\ Runs(call)
  <2>1. Affirm(row, call.now) => Appended(call.now)
    BY <1>2 DEF Submit, Affirm, Entry, Assertion, Appended
  <2>2. Deny(row, call.now) => Appended(call.now)
    BY <1>2 DEF Submit, Deny, Bounded, Entry, Assertion, Appended
  <2>3. Abstain(row, call.now) => Appended(call.now)
    BY <1>2 DEF Submit, Abstain, Entry, Appended
  <2>. QED
    BY <1>2, <2>1, <2>2, <2>3 DEF Submit, Verdict
<1>3. ASSUME NEW row \in pending, Expire(row, call) PROVE Appended(call.now) /\ Runs(call)
  BY <1>3 DEF Expire, Entry, Appended
<1>4. ASSUME NEW c \in claims, RevertOrphan(c, call) PROVE Appended(call.now) /\ Runs(call)
  BY <1>4 DEF RevertOrphan, Entry, Appended
<1>5. ASSUME NEW c \in claims, NEW at \in BoundAt, AssertBound(c, at, call)
      PROVE  Appended(call.now) /\ Runs(call)
  BY <1>5 DEF AssertBound, Bounded, Entry, Assertion, Appended
<1>6. ASSUME NEW c \in claims, Reopen(c, call) PROVE Appended(call.now) /\ Runs(call)
  BY <1>6 DEF Reopen, Entry, Assertion, Appended
<1>. QED
  BY <1>1, <1>2, <1>3, <1>4, <1>5, <1>6 DEF Call

\* So does reconcile, with the instant it reads under its locks.
LEMMA ReconcileAppends ==
  ASSUME Reconcile
  PROVE  Appended(clock + 1)
  BY DEF Reconcile, Note, Entry, Appended

-----------------------------------------------------------------------------
\* Every instant read is a number.
ClockInv == clock \in Nat /\ \A call \in waiting : call.now \in Nat

\* Every step keeps the clock invariant.
LEMMA ClockStep == ClockInv /\ [Next]_vars => ClockInv'
<1>. SUFFICES ASSUME ClockInv, [Next]_vars PROVE ClockInv'
  OBVIOUS
<1>1. CASE ReadClock
  BY <1>1 DEF ReadClock, ClockInv
<1>2. CASE Reconcile
  BY <1>2 DEF Reconcile, ClockInv
<1>3. ASSUME NEW call \in waiting \cup {Fresh}, Call(call) PROVE ClockInv'
  BY <1>3, CallAppends DEF Runs, ClockInv
<1>4. CASE UNCHANGED vars
  BY <1>4 DEF vars, ClockInv
<1>. QED
  BY <1>1, <1>2, <1>3, <1>4 DEF Next

\* Rows stamped later are not part of the view.
LEMMA SameView ==
  ASSUME NEW t \in Nat, NEW now \in Nat, t < now, Appended(now)
  PROVE  Agree(AsOf(L', t), AsOf(L, t), t)
<1>1. {c \in claims' : c.tx <= t} = {c \in claims : c.tx <= t}
  BY DEF Appended
<1>2. {e \in ledger' : e.at <= t} = {e \in ledger : e.at <= t}
  BY DEF Appended
<1>3. AsOf(L', t).claims = {c \in claims' : c.tx <= t} /\ AsOf(L, t).claims = {c \in claims : c.tx <= t}
  BY DEF AsOf, L
<1>4. AsOf(L', t).ledger = {e \in ledger' : e.at <= t} /\ AsOf(L, t).ledger = {e \in ledger : e.at <= t}
  BY DEF AsOf, L
<1>5. AsOf(L', t).assertions = assertions' /\ AsOf(L, t).assertions = assertions
  BY DEF AsOf, L
<1>6. ASSUME NEW c PROVE Effective(AsOf(L', t), c, t) = Effective(AsOf(L, t), c, t)
  BY <1>5 DEF Effective, Appended
<1>. QED
  BY <1>1, <1>2, <1>3, <1>4, <1>6 DEF Agree, SameRecord

-----------------------------------------------------------------------------
\* No call changes what the line was believed to be before the instant it is stamped with:
\* the cutoffs of query_memory hold against calls that commit late.
THEOREM PastImmutable == Spec => PastIsImmutable
<1> DEFINE Past == \A t \in 1..clock : (\A call \in waiting \ waiting' : t < call.now) =>
                     /\ Recall(L', t) = Recall(L, t)
                     /\ \A v \in Instant : RecallAt(L', t, v) = RecallAt(L, t, v)
<1>1. Init => ClockInv
  BY SubjectLineAssumption DEF Init, ClockInv
<1>2. ClockInv /\ [Next]_vars => [Past]_vars
  <2>. SUFFICES ASSUME ClockInv, Next, NEW t \in 1..clock,
                       \A call \in waiting \ waiting' : t < call.now
                PROVE  /\ Recall(L', t) = Recall(L, t)
                       /\ \A v \in Instant : RecallAt(L', t, v) = RecallAt(L, t, v)
    OBVIOUS
  <2>1. t \in Nat /\ t <= clock
    BY DEF ClockInv
  <2>2. PICK now \in Nat : t < now /\ Appended(now)
    <3>1. CASE ReadClock
      BY <2>1, <3>1 DEF ReadClock, Appended, ClockInv
    <3>2. CASE Reconcile
      BY <2>1, <3>2, ReconcileAppends DEF ClockInv
    <3>3. ASSUME NEW call \in waiting \cup {Fresh}, Call(call)
          PROVE  \E now \in Nat : t < now /\ Appended(now)
      <4>1. Appended(call.now) /\ Runs(call)
        BY <3>3, CallAppends
      <4>2. call.now \in Nat
        BY <3>3 DEF ClockInv, Fresh
      <4>3. t < call.now
        BY <2>1, <4>1 DEF Runs, Fresh, ClockInv
      <4>. QED
        BY <4>1, <4>2, <4>3
    <3>. QED
      BY <3>1, <3>2, <3>3 DEF Next
  <2>3. Agree(AsOf(L', t), AsOf(L, t), t)
    BY <2>1, <2>2, SameView
  <2>. QED
    BY <2>3, FoldDepends, NarrowedDepends DEF Recall, RecallAt
<1>. QED
  BY <1>1, <1>2, ClockStep, PTL DEF Spec, PastIsImmutable

-----------------------------------------------------------------------------
(* The ledger.                                                             *)

\* The latest entry of the claim identified with k.
IsLast(e, k) ==
  e \in ledger /\ e.claim = k /\ \A f \in ledger : f.claim = k => f.at <= e.at

LedgerInv ==
  /\ clock \in Nat /\ \A call \in waiting : call.now \in Nat /\ call.now <= clock
  /\ \A e \in ledger : e.at \in Nat /\ e.at <= clock /\ (e.by = "deny" => e.disp = "Superseded")
  /\ \A e \in ledger : \E last : IsLast(last, e.claim)
  /\ \A c \in claims : c.tx \in Nat /\ c.tx <= clock /\ \E e \in ledger : e.claim = c.tx

\* Entries with one and the same instant leave every claim with a latest entry.
LEMMA LastKept ==
  ASSUME NEW now \in Nat, Appended(now), \A e \in ledger : e.at \in Nat,
         \A e \in ledger : \E last : IsLast(last, e.claim),
         NEW e \in ledger'
  PROVE  \E last : IsLast(last, e.claim)'
<1>1. CASE \E f \in ledger : f.claim = e.claim
  <2>1. PICK old : IsLast(old, e.claim)
    BY <1>1
  <2>2. old \in ledger' /\ old.claim = e.claim /\ old.at \in Nat
    BY <2>1 DEF IsLast, Appended
  <2>3. CASE \A f \in ledger' : f.claim = e.claim => f.at <= old.at
    BY <2>2, <2>3 DEF IsLast
  <2>4. CASE \E f \in ledger' : f.claim = e.claim /\ ~(f.at <= old.at)
    <3>1. PICK f \in ledger' : f.claim = e.claim /\ ~(f.at <= old.at)
      BY <2>4
    <3>2. f.at = now /\ old.at <= now
      BY <2>1, <2>2, <3>1 DEF IsLast, Appended
    <3>3. \A g \in ledger' : g.claim = e.claim => g.at <= f.at
      BY <2>1, <2>2, <3>2 DEF IsLast, Appended
    <3>. QED
      BY <3>1, <3>3 DEF IsLast
  <2>. QED
    BY <2>3, <2>4
<1>2. CASE ~\E f \in ledger : f.claim = e.claim
  <2>1. \A f \in ledger' : f.claim = e.claim => f.at = now
    BY <1>2 DEF Appended
  <2>. QED
    BY <2>1 DEF IsLast
<1>. QED
  BY <1>1, <1>2

\* A call denies with Superseded only, and no claim enters without an entry.
LEMMA CallRecords ==
  ASSUME NEW call, Call(call)
  PROVE  /\ \A e \in ledger' \ ledger : e.by = "deny" => e.disp = "Superseded"
         /\ \A c \in claims' \ claims : \E e \in ledger' : e.claim = c.tx
<1> DEFINE Records ==
             /\ \A e \in ledger' \ ledger : e.by = "deny" => e.disp = "Superseded"
             /\ \A c \in claims' \ claims : \E e \in ledger' : e.claim = c.tx
<1>1. ASSUME NEW offer \in Offer, Ingest(offer, call) PROVE Records
  <2>1. PICK d : ledger' = ledger \cup {Entry(call.now, d, call.now, "ingest", call.now)}
    BY <1>1 DEF Ingest
  <2>2. \A e \in ledger' \ ledger : e.by = "ingest"
    BY <2>1 DEF Entry
  <2>3. \E e \in ledger' : e.claim = call.now
    <3>1. Entry(call.now, d, call.now, "ingest", call.now).claim = call.now
      BY DEF Entry
    <3>. QED
      BY <2>1, <3>1
  <2>4. \A c \in claims' \ claims : c.tx = call.now
    BY CallAppends DEF Appended
  <2>. QED
    BY <2>2, <2>3, <2>4
<1>2. ASSUME NEW row \in pending, NEW verdict \in Verdict, Submit(row, verdict, call)
      PROVE  Records
  <2>1. Affirm(row, call.now) => Records
    BY <1>2 DEF Submit, Affirm, Entry
  <2>2. Deny(row, call.now) => Records
    BY <1>2 DEF Submit, Deny, Bounded, Entry
  <2>3. Abstain(row, call.now) => Records
    BY <1>2 DEF Submit, Abstain, Entry
  <2>. QED
    BY <1>2, <2>1, <2>2, <2>3 DEF Submit, Verdict
<1>3. ASSUME NEW row \in pending, Expire(row, call) PROVE Records
  BY <1>3 DEF Expire, Entry
<1>4. ASSUME NEW c \in claims, RevertOrphan(c, call) PROVE Records
  BY <1>4 DEF RevertOrphan, Entry
<1>5. ASSUME NEW c \in claims, NEW at \in BoundAt, AssertBound(c, at, call) PROVE Records
  BY <1>5 DEF AssertBound, Bounded, Entry
<1>6. ASSUME NEW c \in claims, Reopen(c, call) PROVE Records
  BY <1>6 DEF Reopen, Entry
<1>. QED
  BY <1>1, <1>2, <1>3, <1>4, <1>5, <1>6 DEF Call

\* Rows stamped with an instant the clock has reached keep the ledger's invariant.
LEMMA LedgerKept ==
  ASSUME LedgerInv, NEW now \in Nat, Appended(now), now <= clock',
         clock' \in Nat, clock <= clock',
         \A call \in waiting' : call.now \in Nat /\ call.now <= clock',
         \A e \in ledger' \ ledger : e.by = "deny" => e.disp = "Superseded",
         \A c \in claims' \ claims : \E e \in ledger' : e.claim = c.tx
  PROVE  LedgerInv'
<1>1. \A e \in ledger' : e.at \in Nat /\ e.at <= clock' /\ (e.by = "deny" => e.disp = "Superseded")
  BY DEF LedgerInv, Appended
<1>2. \A e \in ledger' : \E last : IsLast(last, e.claim)'
  BY LastKept DEF LedgerInv
<1>3. \A c \in claims' : c.tx \in Nat /\ c.tx <= clock' /\ \E e \in ledger' : e.claim = c.tx
  BY DEF LedgerInv, Appended
<1>. QED
  BY <1>1, <1>2, <1>3 DEF LedgerInv

\* Every step keeps the ledger invariant: a claim with entries has a latest one.
LEMMA LedgerStep == LedgerInv /\ [Next]_vars => LedgerInv'
<1>. SUFFICES ASSUME LedgerInv, [Next]_vars PROVE LedgerInv'
  OBVIOUS
<1>1. CASE ReadClock
  <2>1. Appended(clock)
    BY <1>1 DEF ReadClock, Appended
  <2>. QED
    BY <1>1, <2>1, LedgerKept DEF ReadClock, LedgerInv
<1>2. CASE Reconcile
  <2>1. \A e \in ledger' \ ledger : e.by = "reconcile"
    BY <1>2 DEF Reconcile, Note, Entry
  <2>. QED
    BY <1>2, <2>1, ReconcileAppends, LedgerKept DEF Reconcile, LedgerInv
<1>3. ASSUME NEW call \in waiting \cup {Fresh}, Call(call) PROVE LedgerInv'
  <2>1. Appended(call.now) /\ Runs(call)
    BY <1>3, CallAppends
  <2>2. /\ call.now \in Nat /\ call.now <= clock'
        /\ clock' \in Nat /\ clock <= clock' /\ waiting' \subseteq waiting
    BY <1>3, <2>1 DEF Runs, Fresh, LedgerInv
  <2>. QED
    BY <1>3, <2>1, <2>2, CallRecords, LedgerKept DEF LedgerInv
<1>4. CASE UNCHANGED vars
  BY <1>4 DEF vars, LedgerInv, IsLast
<1>. QED
  BY <1>1, <1>2, <1>3, <1>4 DEF Next

-----------------------------------------------------------------------------
\* A claim that was denied may as well not be there: it is neither live nor does it re-enter.
LEMMA Traceless ==
  ASSUME NEW M, NEW N, NEW t, NEW c,
         N.claims = M.claims \ {c}, SameRecord(M, N, t), Denied(M, c)
  PROVE  /\ \A v : Fold(M, t, v) = Fold(N, t, v)
         /\ \A v : Narrowed(M, t, v) = Narrowed(N, t, v)
         /\ Rivals(M, t) = Rivals(N, t)
<1>1. \A d : /\ Latest(M, d) = Latest(N, d) /\ ActiveBound(M, d, t) = ActiveBound(N, d, t)
             /\ Live(M, d, t) <=> Live(N, d, t)
  BY ClaimDepends
<1>2. ~Live(M, c, t)
  BY DEF Live, Excluded, Denied
<1>3. RawLive(M, t) = RawLive(N, t)
  BY <1>1, <1>2 DEF RawLive
<1>4. Reentrant(M, t) = Reentrant(N, t)
  BY <1>1, <1>2 DEF Reentrant, HardExcluded, Denied
<1>5. \A d : Window(M, d, t) = Window(N, d, t)
  BY <1>1 DEF Window
<1>6. ASSUME NEW v PROVE Fold(M, t, v) = Fold(N, t, v)
  <2>1. Fold(M, t, v) = FoldOf(RawLive(M, t), v) /\ Fold(N, t, v) = FoldOf(RawLive(N, t), v)
    BY DEF Fold, FoldOf
  <2>. QED
    BY <1>3, <2>1
<1>7. ASSUME NEW v PROVE Narrowed(M, t, v) = Narrowed(N, t, v)
  <2> DEFINE R(K) == Reentrant(K, t)
             W(K) == {Window(K, d, t) : d \in R(K)}
             S(K) == {d \in R(K) : Holds(Window(K, d, t), v)}
  <2>1. W(M) = W(N) /\ S(M) = S(N)
    BY <1>4, <1>5
  <2>2. Narrowed(M, t, v) = IF Succession(W(M)) THEN S(M) ELSE Fold(M, t, v)
    BY DEF Narrowed
  <2>3. Narrowed(N, t, v) = IF Succession(W(N)) THEN S(N) ELSE Fold(N, t, v)
    BY DEF Narrowed
  <2>. QED
    BY <1>6, <2>1, <2>2, <2>3
<1>8. Rivals(M, t) = Rivals(N, t)
  BY <1>1, <1>4, <1>5 DEF Rivals
<1>. QED
  BY <1>6, <1>7, <1>8

\* The clock has reached every row: a view as of now is the whole line.
LEMMA WholeView ==
  ASSUME LedgerInv, NEW M, M.claims \subseteq claims, M.ledger = ledger,
         M = [claims |-> M.claims, ledger |-> M.ledger, assertions |-> M.assertions]
  PROVE  Agree(AsOf(M, clock), M, clock)
<1>1. {c \in M.claims : c.tx <= clock} = M.claims
  BY DEF LedgerInv
<1>2. {e \in M.ledger : e.at <= clock} = M.ledger
  BY DEF LedgerInv
<1> DEFINE A == AsOf(M, clock)
<1>3. /\ A.claims = {c \in M.claims : c.tx <= clock}
      /\ A.ledger = {e \in M.ledger : e.at <= clock}
      /\ A.assertions = M.assertions
  BY DEF AsOf
<1>. HIDE DEF A
<1>4. \A c : Effective(A, c, clock) = Effective(M, c, clock)
  BY <1>3 DEF Effective
<1>5. Agree(A, M, clock)
  BY <1>1, <1>2, <1>3, <1>4 DEF Agree, SameRecord
<1>. QED
  BY <1>5 DEF A

\* The entry that decides a claim's outcome is one of its own.
LEMMA LatestIsLast ==
  ASSUME LedgerInv, NEW c \in claims
  PROVE  IsLast(Latest(L, c), c.tx)
<1>1. \E last : IsLast(last, c.tx)
  BY DEF LedgerInv
<1>2. L.ledger = ledger
  BY DEF L
<1>. QED
  BY <1>1, <1>2 DEF Latest, IsLast

\* A challenger whose denial is its last entry changes no answer, and no later claim is
\* measured against it (build_denied_via_adjudication_set and its three users).
THEOREM DeniedIsTraceless == Spec => []DeniedLeavesNoTrace
<1>1. Init => LedgerInv
  BY SubjectLineAssumption DEF Init, LedgerInv
<1>2. LedgerInv => DeniedLeavesNoTrace
  <2>. SUFFICES ASSUME LedgerInv, NEW c \in claims, Latest(L, c).by = "deny"
                PROVE  LET without == [L EXCEPT !.claims = @ \ {c}]
                       IN  /\ Recall(L, clock) = Recall(without, clock)
                           /\ \A v \in Instant : RecallAt(L, clock, v) = RecallAt(without, clock, v)
                           /\ Rivals(L, clock) = Rivals(without, clock)
    BY DEF DeniedLeavesNoTrace
  <2> DEFINE without == [L EXCEPT !.claims = @ \ {c}]
  <2>1. Denied(L, c)
    BY LatestIsLast DEF LedgerInv, IsLast, Denied
  <2>2. /\ without = [claims |-> claims \ {c}, ledger |-> ledger, assertions |-> assertions]
        /\ L = [claims |-> claims, ledger |-> ledger, assertions |-> assertions]
    BY DEF L
  <2>. HIDE DEF without
  <2>3. /\ without.claims = L.claims \ {c} /\ without.ledger = L.ledger
        /\ without.assertions = L.assertions
        /\ without.claims \subseteq claims /\ L.claims \subseteq claims /\ L.ledger = ledger
    BY <2>2
  <2>4. Agree(AsOf(L, clock), L, clock) /\ Agree(AsOf(without, clock), without, clock)
    BY <2>2, <2>3, WholeView
  <2>5. SameRecord(L, without, clock)
    BY <2>3 DEF SameRecord, Effective
  <2>6. /\ \A v : Fold(L, clock, v) = Fold(without, clock, v)
        /\ \A v : Narrowed(L, clock, v) = Narrowed(without, clock, v)
        /\ Rivals(L, clock) = Rivals(without, clock)
    BY <2>1, <2>3, <2>5, Traceless
  <2>7. /\ Recall(L, clock) = Recall(without, clock)
        /\ \A v \in Instant : RecallAt(L, clock, v) = RecallAt(without, clock, v)
        /\ Rivals(L, clock) = Rivals(without, clock)
    BY <2>4, <2>6, FoldDepends, NarrowedDepends DEF Recall, RecallAt
  <2>. QED
    BY <2>7 DEF without
<1>. QED
  BY <1>1, <1>2, LedgerStep, PTL DEF Spec

\* A set of numbers that is not empty has a least one.
LEMMA LeastNat ==
  ASSUME NEW T, T \subseteq Nat, T # {}
  PROVE  \E n \in T : \A m \in T : n <= m
<1>1. IsWellFoundedOn(OpToRel(<, Nat), Nat)
  BY NatLessThanWellFounded
<1>2. PICK n \in T : \A m \in T : ~(<<m, n>> \in OpToRel(<, Nat))
  BY <1>1, WFMin
<1>3. \A m \in T : ~(m < n)
  BY <1>2 DEF OpToRel
<1>. QED
  BY <1>3

\* The first claim of a set in the order of ordering_key is one of the set, and before the rest.
LEMMA FirstIsFirst ==
  ASSUME NEW S, S # {}, \A c \in S : Key(c) \in Nat /\ c.tx \in Nat,
         \A c, d \in S : c.tx = d.tx => c = d
  PROVE  First(S) \in S /\ \A d \in S \ {First(S)} : Precedes(First(S), d)
<1>1. PICK k \in {Key(c) : c \in S} : \A j \in {Key(c) : c \in S} : k <= j
  <2>1. {Key(c) : c \in S} \subseteq Nat /\ {Key(c) : c \in S} # {}
    OBVIOUS
  <2>. QED
    BY <2>1, LeastNat
<1> DEFINE A == {c \in S : Key(c) = k}
<1>2. PICK t \in {c.tx : c \in A} : \A u \in {c.tx : c \in A} : t <= u
  <2>1. {c.tx : c \in A} \subseteq Nat /\ {c.tx : c \in A} # {}
    BY <1>1
  <2>. QED
    BY <2>1, LeastNat
<1>3. PICK c \in A : c.tx = t
  BY <1>2
<1>4. ASSUME NEW d \in S \ {c} PROVE Precedes(c, d)
  <2>1. k <= Key(d)
    BY <1>1
  <2>2. CASE Key(d) = k
    <3>1. d \in A /\ t <= d.tx /\ d.tx # t
      BY <1>2, <1>3, <2>2
    <3>. QED
      BY <1>3, <2>2, <3>1 DEF Precedes
  <2>3. CASE Key(d) # k
    BY <1>3, <2>1, <2>3 DEF Precedes
  <2>. QED
    BY <2>2, <2>3
<1>. QED
  BY <1>3, <1>4 DEF First

-----------------------------------------------------------------------------
(* Types.                                                                  *)

Claim == [value : {o.value : o \in Offer}, start : Nat, end : 0..Never, timed : BOOLEAN,
          origin : {"external", "derived"}, tx : Nat]

\* The instant was stamped on a row.
Stamped(now) ==
  \/ \E c \in claims : c.tx = now
  \/ \E e \in ledger : e.at = now
  \/ \E a \in assertions : a.asserted = now

\* What TypeOK needs to be inductive, and what makes an instant a name for a call: claims are
\* stamped offers, and no two calls run with one instant.
LineInv ==
  /\ TypeOK
  /\ claims \subseteq Claim /\ IsFiniteSet(claims)
  /\ \A row \in pending : row.challenger # row.incumbent
  /\ \A call \in waiting : ~Stamped(call.now)
  /\ \A g, h \in waiting : g.now = h.now => g = h
  /\ \A e, f \in ledger : e.claim = f.claim /\ e.at = f.at => e = f
  /\ \A a, b \in assertions : a.claim = b.claim /\ a.asserted = b.asserted => a = b

\* The clock may advance, and a call may return, without a row being written.
Tick ==
  /\ clock' \in {clock, clock + 1} /\ clock' <= MaxClock /\ waiting' \subseteq waiting
  /\ UNCHANGED <<claims, ledger, assertions, pending>>

LineStep == Next \/ Tick

\* A line that is in order, as a record of typed rows.
LEMMA LineTypes ==
  ASSUME LineInv
  PROVE  /\ clock \in Nat /\ Epoch \in Nat /\ MaxClock \in Nat /\ Never \in Nat
         /\ Epoch <= clock /\ clock <= MaxClock /\ MaxClock < Never
         /\ \A call \in waiting \cup {Fresh} :
              /\ call.now \in Nat /\ Epoch < call.now /\ call.known \subseteq Known
              /\ ~Stamped(call.now) /\ 0 < call.now
         /\ \A call \in waiting : call.now <= clock
         /\ \A c \in claims : /\ c \in Claim /\ c.tx \in Nat /\ Epoch < c.tx /\ c.tx <= clock
                              /\ c.start \in Nat /\ c.end \in Nat /\ c.end <= Never
                              /\ c.timed \in BOOLEAN /\ Key(c) \in Nat
         /\ \A c, d \in claims : c.tx = d.tx => c = d
         /\ \A e \in ledger : /\ e.claim \in Known /\ e.disp \in Disposition /\ e.at \in Nat
                              /\ Epoch < e.at /\ e.at <= clock /\ e.by \in Writer /\ e.about \in Known
         /\ \A a \in assertions : /\ a.claim \in Known /\ a.kind \in {"Bound", "Reopen"}
                                  /\ a.at \in Nat /\ a.asserted \in Nat
                                  /\ Epoch < a.asserted /\ a.asserted <= clock
         /\ \A row \in pending : row.challenger \in Known /\ row.incumbent \in Known
<1>1. /\ clock \in Nat /\ Epoch \in Nat /\ MaxClock \in Nat /\ Never \in Nat
      /\ Epoch <= clock /\ clock <= MaxClock /\ MaxClock < Never
  BY SubjectLineAssumption DEF LineInv, TypeOK
<1>2. \A c \in claims : /\ c \in Claim /\ c.tx \in Nat /\ Epoch < c.tx /\ c.tx <= clock
                        /\ c.start \in Nat /\ c.end \in Nat /\ c.end <= Never
                        /\ c.timed \in BOOLEAN /\ Key(c) \in Nat
  BY <1>1 DEF LineInv, TypeOK, Claim, Key
<1>3. \A e \in ledger : /\ e.claim \in Known /\ e.disp \in Disposition /\ e.at \in Nat
                        /\ Epoch < e.at /\ e.at <= clock /\ e.by \in Writer /\ e.about \in Known
  BY <1>1 DEF LineInv, TypeOK
<1>4. \A a \in assertions : /\ a.claim \in Known /\ a.kind \in {"Bound", "Reopen"}
                            /\ a.at \in Nat /\ a.asserted \in Nat
                            /\ Epoch < a.asserted /\ a.asserted <= clock
  BY <1>1 DEF LineInv, TypeOK
<1>5. \A call \in waiting : /\ call.now \in Nat /\ Epoch < call.now /\ call.now <= clock
                            /\ call.known \subseteq Known /\ ~Stamped(call.now)
  BY <1>1 DEF LineInv, TypeOK
<1>6. Fresh.now = clock + 1 /\ Fresh.known = Known
  BY DEF Fresh
<1>7. ~Stamped(clock + 1)
  BY <1>1, <1>2, <1>3, <1>4 DEF Stamped
<1>8. \A row \in pending : row.challenger \in Known /\ row.incumbent \in Known
  BY DEF LineInv, TypeOK
<1>9. \A c, d \in claims : c.tx = d.tx => c = d
  BY DEF LineInv, TypeOK
<1>10. \A call \in waiting \cup {Fresh} :
         /\ call.now \in Nat /\ Epoch < call.now /\ call.known \subseteq Known
         /\ ~Stamped(call.now) /\ 0 < call.now
  BY <1>1, <1>5, <1>6, <1>7
<1>. QED
  BY <1>1, <1>2, <1>3, <1>4, <1>5, <1>8, <1>9, <1>10

\* The claim a handle or a host names.
LEMMA ClaimOfKnown ==
  ASSUME LineInv, NEW tx \in Known
  PROVE  ClaimOf(tx) \in claims /\ ClaimOf(tx).tx = tx
  BY DEF ClaimOf, Known

\* A claim is the one its instant names.
LEMMA ClaimOfTx ==
  ASSUME LineInv, NEW c \in claims
  PROVE  c.tx \in Known /\ ClaimOf(c.tx) = c
  BY LineTypes DEF ClaimOf, Known

\* A bound narrows a window and leaves the rest of the claim.
LEMMA WindowOf ==
  ASSUME LineInv, NEW c \in claims, NEW M, NEW t
  PROVE  /\ \A f \in {"value", "start", "timed", "origin", "tx"} : Window(M, c, t)[f] = c[f]
         /\ Window(M, c, t).start = c.start /\ Window(M, c, t).timed = c.timed
         /\ Window(M, c, t).tx = c.tx /\ Window(M, c, t).value = c.value
         /\ Window(M, c, t).end = Least(c.end, ActiveBound(M, c, t))
         /\ Trusted(Window(M, c, t)) <=> Trusted(c)
         /\ Key(Window(M, c, t)) = Key(c)
<1>1. c \in Claim
  BY LineTypes
<1>. QED
  BY <1>1 DEF Window, Claim, Trusted, Key

\* Each rival is a claim that is live or re-enters, narrowed perhaps.
LEMMA RivalOf ==
  ASSUME LineInv, NEW t
  PROVE  /\ \A r \in Rivals(L, t) : \E c \in Reentrant(L, t) :
              c \in claims /\ r.tx = c.tx /\ Key(r) = Key(c) /\ r.value = c.value
         /\ \A r, s \in Rivals(L, t) : r.tx = s.tx => r = s
<1>1. Reentrant(L, t) \subseteq claims
  BY DEF Reentrant, L
<1> DEFINE R(c) == IF Live(L, c, t) THEN c ELSE Window(L, c, t)
<1>2. \A c \in claims : R(c).tx = c.tx /\ Key(R(c)) = Key(c) /\ R(c).value = c.value
  BY WindowOf
<1>3. Rivals(L, t) = {R(c) : c \in Reentrant(L, t)}
  BY DEF Rivals
<1>. HIDE DEF R
<1>4. \A r, s \in Rivals(L, t) : r.tx = s.tx => r = s
  BY <1>1, <1>2, <1>3, LineTypes
<1>. QED
  BY <1>1, <1>2, <1>3, <1>4

\* What the line believes are claims.
LEMMA FoldSubset ==
  ASSUME NEW M, NEW t, NEW v
  PROVE  Fold(M, t, v) \subseteq RawLive(M, t) /\ RawLive(M, t) \subseteq M.claims
<1>1. Fold(M, t, v) = FoldOf(RawLive(M, t), v)
  BY DEF Fold, FoldOf
<1>. QED
  BY <1>1 DEF FoldOf, RawLive

\* The claim a candidate is measured against is on the line.
LEMMA IncumbentKnown ==
  ASSUME LineInv, NEW t, NEW i \in Incumbent(Fold(L, t, t), Rivals(L, t))
  PROVE  i.tx \in Known
<1>1. Fold(L, t, t) \subseteq claims
  BY FoldSubset DEF L
<1>2. CASE Fold(L, t, t) # {}
  <2>1. First(Fold(L, t, t)) \in Fold(L, t, t)
    BY <1>1, <1>2, FirstIsFirst, LineTypes
  <2>. QED
    BY <1>1, <1>2, <2>1 DEF Incumbent, Known
<1>3. CASE Fold(L, t, t) = {} /\ Rivals(L, t) # {}
  <2>1. First(Rivals(L, t)) \in Rivals(L, t)
    BY <1>3, RivalOf, FirstIsFirst, LineTypes
  <2>. QED
    BY <1>3, <2>1, RivalOf DEF Incumbent, Known
<1>. QED
  BY <1>2, <1>3 DEF Incumbent

EntryType == [claim : Known, disp : Disposition, at : Epoch + 1..clock, by : Writer, about : Known]
AssertionType == [claim : Known, kind : {"Bound", "Reopen"}, at : Nat, asserted : Epoch + 1..clock]
RowType == [challenger : Known, incumbent : Known, status : {"pending", "resolved", "expired"}]

\* What a call has to write for the line to stay in order: typed rows with its own unused
\* instant, one entry and one assertion at most for a claim, an entry for a new claim.
WritesOrderly(now) ==
  /\ Appended(now)
  /\ claims' \subseteq Claim /\ \A c, d \in claims' \ claims : c = d
  /\ \A c \in claims' \ claims : \E e \in ledger' : e.claim = c.tx
  /\ ledger' \ ledger \subseteq EntryType'
  /\ \A e, f \in ledger' \ ledger : e.claim = f.claim => e = f
  /\ assertions' \ assertions \subseteq AssertionType'
  /\ \A a, b \in assertions' \ assertions : a.claim = b.claim => a = b
  /\ pending' \subseteq RowType' /\ \A row \in pending' : row.challenger # row.incumbent

\* An instant that is read and not yet used is a call's own.
Takes(now) ==
  /\ now \in Nat /\ Epoch < now /\ now <= clock' /\ ~Stamped(now)
  /\ clock \in Nat /\ clock' \in Nat /\ clock <= clock' /\ clock' <= MaxClock
  /\ waiting' \subseteq waiting /\ \A call \in waiting' : call.now # now

\* A call that runs takes its instant with it.
LEMMA RunsTakes ==
  ASSUME LineInv, NEW call \in waiting \cup {Fresh}, Runs(call)
  PROVE  Takes(call.now)
<1>1. CASE call \in waiting /\ waiting' = waiting \ {call} /\ UNCHANGED clock
  BY <1>1, LineTypes DEF LineInv, Takes
<1>2. CASE call = Fresh /\ clock < MaxClock /\ clock' = clock + 1 /\ UNCHANGED waiting
  <2>1. call.now = clock + 1
    BY <1>2 DEF Fresh
  <2>. QED
    BY <1>2, <2>1, LineTypes DEF Takes
<1>. QED
  BY <1>1, <1>2 DEF Runs

\* Orderly writes keep a line in order.
LEMMA OrderlyKept ==
  ASSUME LineInv, NEW now, Takes(now), WritesOrderly(now)
  PROVE  LineInv'
<1>1. /\ clock' \in Epoch..MaxClock /\ claims \subseteq claims' /\ Known \subseteq Known'
      /\ Epoch + 1..clock \subseteq Epoch + 1..clock'
  BY LineTypes DEF Takes, WritesOrderly, Appended, Known
<1>2. waiting' \subseteq [now : Epoch + 1..clock', known : SUBSET Known']
  BY <1>1 DEF LineInv, TypeOK, Takes
<1>3. /\ ledger' \subseteq EntryType' /\ assertions' \subseteq AssertionType'
  BY <1>1 DEF LineInv, TypeOK, WritesOrderly, EntryType, AssertionType
<1>4. ASSUME NEW c \in claims'
      PROVE  /\ c.tx \in Epoch + 1..clock' /\ (\A d \in claims' : c.tx = d.tx => c = d)
             /\ \E e \in ledger' : e.claim = c.tx
  <2>1. \A d \in claims : d.tx # now /\ d.tx \in Epoch + 1..clock
    BY LineTypes DEF Takes, Stamped
  <2>2. \A d \in claims' \ claims : d.tx = now
    BY DEF WritesOrderly, Appended
  <2>3. CASE c \in claims
    <3>1. \E e \in ledger' : e.claim = c.tx
      BY <2>3 DEF LineInv, TypeOK, WritesOrderly, Appended
    <3>2. \A d \in claims' : c.tx = d.tx => c = d
      BY <2>1, <2>2, <2>3, LineTypes
    <3>. QED
      BY <1>1, <2>1, <2>3, <3>1, <3>2
  <2>4. CASE c \notin claims
    <3>1. c.tx = now /\ \E e \in ledger' : e.claim = c.tx
      BY <2>2, <2>4 DEF WritesOrderly
    <3>2. \A d \in claims' : c.tx = d.tx => c = d
      BY <2>1, <2>4, <3>1 DEF WritesOrderly
    <3>3. now \in Epoch + 1..clock'
      BY LineTypes DEF Takes
    <3>. QED
      BY <3>1, <3>2, <3>3
  <2>. QED
    BY <2>3, <2>4
<1>5. TypeOK'
  BY <1>1, <1>2, <1>3, <1>4 DEF TypeOK, WritesOrderly, EntryType, AssertionType, RowType
<1>6. claims' \subseteq Claim /\ IsFiniteSet(claims')
  <2>1. CASE claims' = claims
    BY <2>1 DEF LineInv, WritesOrderly
  <2>2. CASE claims' # claims
    <3>1. PICK c \in claims' : claims' = claims \cup {c}
      BY <2>2 DEF WritesOrderly, Appended
    <3>. QED
      BY <3>1, FS_AddElement DEF LineInv, WritesOrderly
  <2>. QED
    BY <2>1, <2>2
<1>7. \A call \in waiting' : ~Stamped(call.now)'
  BY DEF LineInv, WritesOrderly, Appended, Takes, Stamped
<1>8. \A e, f \in ledger' : e.claim = f.claim /\ e.at = f.at => e = f
  BY DEF LineInv, WritesOrderly, Appended, Takes, Stamped
<1>9. \A a, b \in assertions' : a.claim = b.claim /\ a.asserted = b.asserted => a = b
  BY DEF LineInv, WritesOrderly, Appended, Takes, Stamped
<1>10. \A g, h \in waiting' : g.now = h.now => g = h
  BY DEF LineInv, Takes
<1>11. claims' \subseteq Claim'
  BY <1>6 DEF Claim
<1>. QED
  BY <1>5, <1>6, <1>7, <1>8, <1>9, <1>10, <1>11 DEF LineInv, WritesOrderly

\* A row of pending_adjudications keeps its claims when its status is set.
LEMMA BecomeRows ==
  ASSUME LineInv, NEW row \in pending, NEW status \in {"pending", "resolved", "expired"},
         Become(row, status), claims' = claims
  PROVE  pending' \subseteq RowType' /\ \A r \in pending' : r.challenger # r.incumbent
<1>1. row \in RowType /\ row.challenger # row.incumbent /\ pending \subseteq RowType
  BY DEF LineInv, TypeOK, RowType
<1>2. Known' = Known
  BY DEF Known
<1>3. \A r \in RowType : /\ [r EXCEPT !.status = status] \in RowType
                         /\ [r EXCEPT !.status = status].challenger = r.challenger
                         /\ [r EXCEPT !.status = status].incumbent = r.incumbent
  BY DEF RowType
<1>4. RowType' = RowType
  BY <1>2 DEF RowType
<1>. QED
  BY <1>1, <1>3, <1>4 DEF Become, LineInv

\* The gate decides one of the dispositions.
LEMMA GateType == \A c, conflict, oracle :
    Gate(c, conflict, oracle) \in {"Quarantined", "Inferred", "Cheap", "Queued", "Contested"}
  BY DEF Gate

\* Every write is orderly: ingest_claim,
LEMMA IngestOrderly ==
  ASSUME LineInv, NEW call \in waiting \cup {Fresh}, NEW offer \in Offer, Ingest(offer, call)
  PROVE  WritesOrderly(call.now)
<1> DEFINE now == call.now
           c == [value |-> offer.value, start |-> offer.start, end |-> offer.end,
                 timed |-> offer.timed, origin |-> offer.origin, tx |-> now]
           inc == Incumbent(Fold(L, now, now), Rivals(L, now))
<1>1. PICK d : /\ d \in Disposition
               /\ claims' = claims \cup {c} /\ ledger' = ledger \cup {Entry(now, d, now, "ingest", now)}
               /\ pending' = IF d # "Queued" THEN pending
                             ELSE pending \cup {[challenger |-> now, status |-> "pending",
                                                 incumbent |-> i.tx] : i \in inc}
               /\ assertions' = assertions /\ Runs(call)
  BY GateType DEF Ingest, Disposition
<1>2. Takes(now)
  BY <1>1, RunsTakes
<1>3. Appended(now)
  BY CallAppends DEF Call
<1>4. c \in Claim /\ c.tx = now /\ c.tx \in Known'
  <2>1. c \in Claim /\ c.tx = now
    BY <1>2, SubjectLineAssumption DEF Claim, Takes
  <2>. QED
    BY <1>1, <2>1 DEF Known
<1>. HIDE DEF c, inc
<1>5. now \in Known' /\ now \notin Known
  BY <1>2, <1>4 DEF Takes, Stamped, Known
<1>6. Entry(now, d, now, "ingest", now) \in EntryType'
  BY <1>1, <1>2, <1>5, LineTypes DEF Entry, EntryType, Writer, Takes
<1>7. Known \subseteq Known'
  BY <1>1 DEF Known
<1>8. pending' \subseteq RowType' /\ \A row \in pending' : row.challenger # row.incumbent
  <2>1. \A i \in inc : i.tx \in Known
    BY IncumbentKnown DEF inc
  <2>2. \A i \in inc : [challenger |-> now, status |-> "pending", incumbent |-> i.tx] \in RowType'
    BY <1>5, <1>7, <2>1 DEF RowType
  <2>3. pending \subseteq RowType'
    BY <1>7 DEF LineInv, TypeOK, RowType
  <2>4. \A row \in {[challenger |-> now, status |-> "pending", incumbent |-> i.tx] : i \in inc} :
          row.challenger # row.incumbent
    BY <1>5, <2>1
  <2>. QED
    BY <1>1, <2>2, <2>3, <2>4 DEF LineInv
<1>9. Entry(now, d, now, "ingest", now).claim = now
  BY DEF Entry
<1>10. claims' \subseteq Claim
  BY <1>1, <1>4 DEF LineInv
<1>11. assertions' \ assertions = {}
  BY <1>1
<1>12. \A x \in claims' \ claims : \E e \in ledger' : e.claim = x.tx
  BY <1>1, <1>4, <1>9
<1>. QED
  BY <1>1, <1>3, <1>6, <1>8, <1>9, <1>10, <1>11, <1>12 DEF WritesOrderly

\* the entries and assertions of a call that names claims of the line,
LEMMA TypedRows ==
  ASSUME LineInv, NEW now, Takes(now), claims' = claims
  PROVE  /\ \A tx, about \in Known, disp \in Disposition, by \in Writer :
              Entry(tx, disp, now, by, about) \in EntryType'
         /\ \A tx \in Known, kind \in {"Bound", "Reopen"}, at \in Nat :
              Assertion(tx, kind, at, now) \in AssertionType'
         /\ \A tx, disp, by, about : Entry(tx, disp, now, by, about).claim = tx
         /\ \A tx, kind, at : Assertion(tx, kind, at, now).claim = tx
<1>1. Known' = Known
  BY DEF Known
<1>. QED
  BY <1>1, LineTypes DEF Entry, EntryType, Assertion, AssertionType, Takes

\* submit_adjudication,
LEMMA SubmitOrderly ==
  ASSUME LineInv, NEW call \in waiting \cup {Fresh}, NEW row \in pending, NEW verdict \in Verdict,
         Submit(row, verdict, call)
  PROVE  WritesOrderly(call.now)
<1> DEFINE now == call.now
           c == ClaimOf(row.challenger)
<1>1. Runs(call) /\ claims' = claims /\ Become(row, "resolved")
  BY DEF Submit
<1>2. Takes(now) /\ now \in Nat
  BY <1>1, RunsTakes, LineTypes
<1>3. Appended(now)
  BY CallAppends DEF Call
<1>4. pending' \subseteq RowType' /\ \A r \in pending' : r.challenger # r.incumbent
  BY <1>1, BecomeRows
<1>5. row.challenger \in Known /\ row.incumbent \in Known /\ row.challenger # row.incumbent
  BY LineTypes DEF LineInv
<1>6. c \in claims /\ c.tx = row.challenger
  BY <1>5, ClaimOfKnown
<1>7. claims' \subseteq Claim /\ claims' \ claims = {}
  BY <1>1 DEF LineInv
<1> DEFINE Rows == /\ ledger' \ ledger \subseteq EntryType'
                   /\ \A e, f \in ledger' \ ledger : e.claim = f.claim => e = f
                   /\ assertions' \ assertions \subseteq AssertionType'
                   /\ \A a, b \in assertions' \ assertions : a.claim = b.claim => a = b
<1>8. CASE verdict = "affirm"
  <2>1. Affirm(row, now)
    BY <1>8 DEF Submit
  <2>2. HandOver(c, now) \in Nat
    BY <1>2, <1>6, LineTypes DEF HandOver
  <2>. HIDE DEF c, now
  <2>3. /\ assertions' = assertions \cup {Assertion(row.incumbent, "Bound", HandOver(c, now), now)}
        /\ ledger' = ledger \cup {Entry(row.incumbent, "Superseded", now, "affirm", c.tx),
                                  Entry(c.tx, "Cheap", now, "affirm", c.tx)}
    BY <2>1 DEF Affirm, c
  <2>4. /\ Assertion(row.incumbent, "Bound", HandOver(c, now), now) \in AssertionType'
        /\ Entry(row.incumbent, "Superseded", now, "affirm", c.tx) \in EntryType'
        /\ Entry(c.tx, "Cheap", now, "affirm", c.tx) \in EntryType'
    BY <1>1, <1>2, <1>5, <1>6, <2>2, TypedRows DEF Disposition, Writer, Verdict
  <2>5. /\ Entry(row.incumbent, "Superseded", now, "affirm", c.tx).claim = row.incumbent
        /\ Entry(c.tx, "Cheap", now, "affirm", c.tx).claim = row.challenger
    BY <1>6 DEF Entry
  <2>6. Rows
    BY <1>5, <2>3, <2>4, <2>5
  <2>. QED
    BY <1>3, <1>4, <1>7, <2>6 DEF WritesOrderly, now
<1>9. CASE verdict = "deny"
  <2>1. Deny(row, now)
    BY <1>9 DEF Submit
  <2>. HIDE DEF c, now
  <2>2. /\ assertions' = assertions \cup {Assertion(row.challenger, "Bound", now, now)}
        /\ ledger' = ledger \cup {Entry(row.challenger, "Superseded", now, "deny", row.challenger)}
    BY <2>1 DEF Deny, Bounded
  <2>3. /\ Assertion(row.challenger, "Bound", now, now) \in AssertionType'
        /\ Entry(row.challenger, "Superseded", now, "deny", row.challenger) \in EntryType'
    BY <1>1, <1>2, <1>5, TypedRows DEF Disposition, Writer, Verdict
  <2>4. Rows
    BY <2>2, <2>3
  <2>. QED
    BY <1>3, <1>4, <1>7, <2>4 DEF WritesOrderly, now
<1>10. CASE verdict = "unknown"
  <2>1. Abstain(row, now)
    BY <1>10 DEF Submit
  <2>. HIDE DEF c, now
  <2>2. /\ assertions' = assertions
        /\ ledger' = ledger \cup {Entry(tx, "Contested", now, "unknown", row.challenger) :
                                    tx \in {row.challenger, row.incumbent}}
    BY <2>1 DEF Abstain
  <2>3. \A tx \in {row.challenger, row.incumbent} :
          /\ Entry(tx, "Contested", now, "unknown", row.challenger) \in EntryType'
          /\ Entry(tx, "Contested", now, "unknown", row.challenger).claim = tx
    BY <1>1, <1>2, <1>5, TypedRows DEF Disposition, Writer, Verdict
  <2>4. Rows
    BY <2>2, <2>3
  <2>. QED
    BY <1>3, <1>4, <1>7, <2>4 DEF WritesOrderly, now
<1>. QED
  BY <1>8, <1>9, <1>10 DEF Verdict

\* the sweeps,
LEMMA SweepOrderly ==
  ASSUME LineInv, NEW call \in waiting \cup {Fresh}, NEW tx \in Known, Runs(call),
         claims' = claims, assertions' = assertions,
         ledger' = ledger \cup {Entry(tx, "Contested", call.now, "expiry", tx)},
         pending' \subseteq RowType', \A r \in pending' : r.challenger # r.incumbent
  PROVE  WritesOrderly(call.now)
<1>1. Takes(call.now)
  BY RunsTakes
<1>2. Entry(tx, "Contested", call.now, "expiry", tx) \in EntryType'
  BY <1>1, TypedRows DEF Disposition, Writer
<1>3. Appended(call.now)
  BY DEF Appended, Entry
<1>. QED
  BY <1>2, <1>3 DEF WritesOrderly, LineInv

\* assert_validity,
LEMMA ValidityOrderly ==
  ASSUME LineInv, NEW call \in waiting \cup {Fresh}, NEW tx \in Known, NEW at \in Nat, Runs(call),
         NEW kind \in {"Bound", "Reopen"}, NEW disp \in Disposition, NEW by \in Writer,
         claims' = claims, pending' = pending,
         assertions' = assertions \cup {Assertion(tx, kind, at, call.now)},
         ledger' = ledger \cup {Entry(tx, disp, call.now, by, tx)}
  PROVE  WritesOrderly(call.now)
<1>1. Takes(call.now)
  BY RunsTakes
<1>2. /\ Entry(tx, disp, call.now, by, tx) \in EntryType'
      /\ Assertion(tx, kind, at, call.now) \in AssertionType'
  BY <1>1, TypedRows
<1>3. Appended(call.now)
  BY DEF Appended, Entry, Assertion
<1>4. pending' \subseteq RowType' /\ \A r \in pending' : r.challenger # r.incumbent
  BY DEF LineInv, TypeOK, RowType, Known
<1>. QED
  BY <1>2, <1>3, <1>4 DEF WritesOrderly, LineInv

\* reconcile notes one outcome for each claim it believes,
LEMMA DecidedOnce ==
  ASSUME LineInv, NEW now
  PROVE  /\ \A o \in Decided(L, now) : o[1] \in Known /\ o[2] \in Disposition
         /\ \A o, p \in Decided(L, now) : o[1] = p[1] => o = p
         /\ \A o \in Decided(L, now) : \E c \in Fold(L, now, now) : o[1] = c.tx
<1> DEFINE believed == Fold(L, now, now)
           Others(c) == {d \in Rivals(L, now) : d.tx # c.tx}
           Outcome(c) ==
             Gate(c, Conflicts(c, Incumbent(believed \ {c}, Others(c)), Others(c)), Oracle)
<1>1. Decided(L, now) = {<<c.tx, Outcome(c)>> : c \in believed}
  BY DEF Decided
<1>2. believed \subseteq claims
  BY FoldSubset DEF L
<1>3. \A c : Outcome(c) \in Disposition
  BY GateType DEF Disposition
<1>. HIDE DEF believed, Outcome
<1>4. \A c, d \in believed : c.tx = d.tx => c = d
  BY <1>2, LineTypes
<1>5. \A o \in Decided(L, now) : \E c \in Fold(L, now, now) : o[1] = c.tx
  BY <1>1 DEF believed
<1>. QED
  BY <1>1, <1>2, <1>3, <1>4, <1>5 DEF Known

\* A pass of reconcile writes one entry for each claim it believes, with its own instant.
LEMMA ReconcileOrderly ==
  ASSUME LineInv, Reconcile
  PROVE  Takes(clock + 1) /\ WritesOrderly(clock + 1)
<1> DEFINE now == clock + 1
<1>1. /\ clock < MaxClock /\ clock' = now
      /\ ledger' = ledger \cup {Note(o, now) : o \in Decided(L, now)}
      /\ claims' = claims /\ assertions' = assertions /\ pending' = pending /\ waiting' = waiting
  BY DEF Reconcile
<1>2. Fresh.now = now /\ Fresh \in waiting \cup {Fresh}
  BY DEF Fresh
<1>3. Takes(now)
  BY <1>1, <1>2, LineTypes DEF Takes
<1>4. Appended(now)
  BY ReconcileAppends
<1>5. \A o \in Decided(L, now) :
        Note(o, now) \in EntryType' /\ Note(o, now).claim = o[1]
  BY <1>1, <1>3, DecidedOnce, TypedRows DEF Note, Entry, Writer
<1>6. \A e, f \in ledger' \ ledger : e.claim = f.claim => e = f
  BY <1>1, <1>5, DecidedOnce
<1>7. pending' \subseteq RowType' /\ \A r \in pending' : r.challenger # r.incumbent
  BY <1>1 DEF LineInv, TypeOK, RowType, Known
<1>. QED
  BY <1>1, <1>3, <1>4, <1>5, <1>6, <1>7 DEF WritesOrderly, LineInv

\* and so every call.
LEMMA CallOrderly ==
  ASSUME LineInv, NEW call \in waiting \cup {Fresh}, Call(call)
  PROVE  Takes(call.now) /\ WritesOrderly(call.now)
<1>1. Takes(call.now) /\ call.now \in Nat
  BY CallAppends, RunsTakes, LineTypes
<1>2. ASSUME NEW row \in pending, Expire(row, call) PROVE WritesOrderly(call.now)
  <2>1. row.challenger \in Known
    BY LineTypes
  <2>2. pending' \subseteq RowType' /\ \A r \in pending' : r.challenger # r.incumbent
    BY <1>2, BecomeRows DEF Expire
  <2>. QED
    BY <1>2, <2>1, <2>2, SweepOrderly DEF Expire
<1>3. ASSUME NEW c \in claims, RevertOrphan(c, call) PROVE WritesOrderly(call.now)
  <2>1. c.tx \in Known
    BY DEF Known
  <2>2. pending' \subseteq RowType' /\ \A r \in pending' : r.challenger # r.incumbent
    BY <1>3 DEF RevertOrphan, LineInv, TypeOK, RowType, Known
  <2>. QED
    BY <1>3, <2>1, <2>2, SweepOrderly DEF RevertOrphan
<1>4. ASSUME NEW c \in claims, NEW at \in BoundAt, AssertBound(c, at, call)
      PROVE  WritesOrderly(call.now)
  <2>1. c.tx \in Known /\ at \in Nat
    BY SubjectLineAssumption DEF Known
  <2>. QED
    BY <1>4, <2>1, ValidityOrderly DEF AssertBound, Bounded, Disposition, Writer
<1>5. ASSUME NEW c \in claims, Reopen(c, call) PROVE WritesOrderly(call.now)
  <2>1. c.tx \in Known
    BY DEF Known
  <2>. QED
    BY <1>1, <1>5, <2>1, ValidityOrderly DEF Reopen, Disposition, Writer
<1>. QED
  BY <1>1, <1>2, <1>3, <1>4, <1>5, IngestOrderly, SubmitOrderly DEF Call

\* A step that writes no row keeps the line in order.
LEMMA TickKept ==
  ASSUME LineInv, Tick
  PROVE  LineInv'
<1>1. Known' = Known /\ Epoch + 1..clock \subseteq Epoch + 1..clock' /\ clock' \in Epoch..MaxClock
  BY LineTypes DEF Tick, Known
<1>2. waiting' \subseteq [now : Epoch + 1..clock', known : SUBSET Known']
  BY <1>1 DEF LineInv, TypeOK, Tick
<1>3. \A call \in waiting' : ~Stamped(call.now)'
  BY DEF LineInv, Tick, Stamped
<1>4. TypeOK'
  <2>1. \A c \in claims' : c.tx \in Epoch + 1..clock'
    BY <1>1 DEF LineInv, TypeOK, Tick
  <2>2. \A c \in claims' : /\ \A d \in claims' : c.tx = d.tx => c = d
                           /\ \E e \in ledger' : e.claim = c.tx
    BY DEF LineInv, TypeOK, Tick
  <2>3. EntryType \subseteq EntryType' /\ AssertionType \subseteq AssertionType' /\ RowType' = RowType
    BY <1>1 DEF EntryType, AssertionType, RowType
  <2>4. ledger' \subseteq EntryType' /\ assertions' \subseteq AssertionType' /\ pending' \subseteq RowType'
    BY <2>3 DEF LineInv, TypeOK, Tick, EntryType, AssertionType, RowType
  <2>. QED
    BY <1>1, <1>2, <2>1, <2>2, <2>4 DEF TypeOK, EntryType, AssertionType, RowType
<1>5. Claim' = Claim
  BY DEF Claim
<1>. QED
  BY <1>3, <1>4, <1>5 DEF LineInv, Tick

\* A call that has read the clock is told from every other by what it read.
LEMMA ReadClockKept ==
  ASSUME LineInv, ReadClock
  PROVE  LineInv'
<1> DEFINE call == [now |-> clock + 1, known |-> Known]
<1>1. /\ clock < MaxClock /\ clock' = clock + 1 /\ waiting' = waiting \cup {call}
      /\ claims' = claims /\ ledger' = ledger /\ assertions' = assertions /\ pending' = pending
  BY DEF ReadClock
<1>2. Known' = Known /\ Epoch + 1..clock \subseteq Epoch + 1..clock' /\ clock' \in Epoch..MaxClock
  BY <1>1, LineTypes DEF Known
<1>3. waiting' \subseteq [now : Epoch + 1..clock', known : SUBSET Known']
  <2>1. call \in [now : Epoch + 1..clock', known : SUBSET Known']
    BY <1>1, <1>2, LineTypes
  <2>. QED
    BY <1>1, <1>2, <2>1 DEF LineInv, TypeOK
<1>4. call.now = clock + 1 /\ ~Stamped(clock + 1)
  <2>1. Fresh.now = clock + 1
    BY DEF Fresh
  <2>. QED
    BY <2>1, LineTypes
<1>. HIDE DEF call
<1>5. \A g \in waiting' : ~Stamped(g.now)'
  BY <1>1, <1>4 DEF LineInv, Stamped
<1>6. \A g, h \in waiting' : g.now = h.now => g = h
  BY <1>1, <1>4, LineTypes DEF LineInv
<1>7. TypeOK'
  <2>1. \A c \in claims' : c.tx \in Epoch + 1..clock'
    BY <1>1, <1>2 DEF LineInv, TypeOK
  <2>2. \A c \in claims' : /\ \A d \in claims' : c.tx = d.tx => c = d
                           /\ \E e \in ledger' : e.claim = c.tx
    BY <1>1 DEF LineInv, TypeOK
  <2>3. EntryType \subseteq EntryType' /\ AssertionType \subseteq AssertionType' /\ RowType' = RowType
    BY <1>2 DEF EntryType, AssertionType, RowType
  <2>4. ledger' \subseteq EntryType' /\ assertions' \subseteq AssertionType' /\ pending' \subseteq RowType'
    BY <1>1, <2>3 DEF LineInv, TypeOK, EntryType, AssertionType, RowType
  <2>. QED
    BY <1>2, <1>3, <2>1, <2>2, <2>4 DEF TypeOK, EntryType, AssertionType, RowType
<1>8. Claim' = Claim
  BY DEF Claim
<1>. QED
  BY <1>1, <1>5, <1>6, <1>7, <1>8 DEF LineInv

\* Every step of the line, and every tick of its clock, keeps it in order.
LEMMA LineStepKept == LineInv /\ LineStep => LineInv'
<1>. SUFFICES ASSUME LineInv, LineStep PROVE LineInv'
  OBVIOUS
<1>1. CASE ReadClock
  BY <1>1, ReadClockKept
<1>2. CASE Reconcile
  BY <1>2, ReconcileOrderly, OrderlyKept
<1>3. ASSUME NEW call \in waiting \cup {Fresh}, Call(call) PROVE LineInv'
  BY <1>3, CallOrderly, OrderlyKept
<1>4. CASE Tick
  BY <1>4, TickKept
<1>. QED
  BY <1>1, <1>2, <1>3, <1>4 DEF LineStep, Next

\* A step that changes nothing is a tick.
LEMMA StutterTicks == LineInv /\ [Next]_vars => LineStep
<1>. SUFFICES ASSUME LineInv, UNCHANGED vars PROVE Tick
  BY DEF LineStep
<1>. QED
  BY LineTypes DEF Tick, vars

\* A line is in order when the engine is opened,
LEMMA LineInit == Init => LineInv
<1>. SUFFICES ASSUME Init PROVE LineInv
  OBVIOUS
<1>1. claims = {} /\ ledger = {} /\ assertions = {} /\ pending = {} /\ clock = Epoch /\ waiting = {}
  BY DEF Init
<1>2. TypeOK
  BY <1>1, SubjectLineAssumption DEF TypeOK
<1>. QED
  BY <1>1, <1>2, FS_EmptySet DEF LineInv

\* and stays so.
LEMMA LineInvariant == Spec => []LineInv
<1>1. LineInv /\ [Next]_vars => LineInv'
  BY LineStepKept, StutterTicks
<1>. QED
  BY <1>1, LineInit, PTL DEF Spec

\* Rows refer to rows that exist, every claim has an outcome, and nothing is stamped with an
\* instant no call has read: whatever hosts ingest, however many calls wait.
THEOREM TypesKept == Spec => []TypeOK
<1>1. LineInv => TypeOK
  BY DEF LineInv
<1>. QED
  BY <1>1, LineInvariant, PTL

-----------------------------------------------------------------------------
(* Latest entries.                                                         *)

\* Every claim has a latest entry, and only one: it decides the claim's outcome.
LEMMA LatestOfClaim ==
  ASSUME LineInv, NEW c \in claims
  PROVE  /\ IsLast(Latest(L, c), c.tx)
         /\ \A e : IsLast(e, c.tx) => e = Latest(L, c)
<1> DEFINE E == {e \in ledger : e.claim = c.tx}
           T == {clock - e.at : e \in E}
<1>1. E # {}
  BY DEF LineInv, TypeOK
<1>2. \A e \in E : e.at \in Nat /\ e.at <= clock /\ clock - e.at \in Nat
  BY LineTypes
<1>3. T \subseteq Nat /\ T # {}
  BY <1>1, <1>2
<1>. HIDE DEF T
<1>4. PICK n \in T : \A m \in T : n <= m
  BY <1>3, LeastNat
<1>5. PICK e \in E : n = clock - e.at
  BY <1>4 DEF T
<1>6. \A f \in E : f.at <= e.at
  <2>. SUFFICES ASSUME NEW f \in E PROVE f.at <= e.at
    OBVIOUS
  <2>1. clock - f.at \in T
    BY DEF T
  <2>2. clock - e.at <= clock - f.at
    BY <1>4, <1>5, <2>1
  <2>. QED
    BY <1>2, <2>2, LineTypes
<1>7. IsLast(e, c.tx)
  BY <1>6 DEF IsLast
<1>8. L.ledger = ledger
  BY DEF L
<1>9. IsLast(Latest(L, c), c.tx)
  BY <1>7, <1>8 DEF Latest, IsLast
<1>10. ASSUME NEW f, IsLast(f, c.tx) PROVE f = Latest(L, c)
  <2>1. f.at = Latest(L, c).at
    BY <1>9, <1>10, LineTypes DEF IsLast
  <2>. QED
    BY <1>9, <1>10, <2>1 DEF IsLast, LineInv
<1>. QED
  BY <1>9, <1>10

\* What decides a claim's outcome when its rows are known.
LEMMA LatestIs ==
  ASSUME LineInv, NEW c \in claims, NEW e \in ledger, e.claim = c.tx,
         \A f \in ledger : f.claim = c.tx => f.at <= e.at
  PROVE  Latest(L, c) = e
  BY LatestOfClaim DEF IsLast

\* So it is after a step.
LEMMA LatestNext ==
  LineInv' => \A c \in claims' : \A e : IsLast(e, c.tx)' => e = Latest(L', c)
<1>1. LineInv => \A c \in claims : \A e : IsLast(e, c.tx) => e = Latest(L, c)
  BY LatestOfClaim
<1>2. LineInv' => (\A c \in claims : \A e : IsLast(e, c.tx) => e = Latest(L, c))'
  BY <1>1, PTL
<1>. QED
  BY <1>2

\* An entry that is the last of its claim after a step decides the outcome.
LEMMA LatestBecomes ==
  ASSUME LineInv', NEW c \in claims', NEW e \in ledger', e.claim = c.tx,
         \A f \in ledger' : f.claim = c.tx => f.at <= e.at
  PROVE  Latest(L', c) = e
<1>1. IsLast(e, c.tx)'
  BY DEF IsLast
<1>. QED
  BY <1>1, LatestNext

\* A claim without a new entry keeps its outcome.
LEMMA LatestKept ==
  ASSUME LineInv, LineInv', NEW c \in claims, c \in claims',
         \A e : e.claim = c.tx => (e \in ledger' <=> e \in ledger)
  PROVE  Latest(L', c) = Latest(L, c)
<1>1. PICK e : e = Latest(L, c)
  OBVIOUS
<1>2. IsLast(e, c.tx)
  BY <1>1, LatestOfClaim
<1>3. e \in ledger' /\ e.claim = c.tx /\ \A f \in ledger' : f.claim = c.tx => f.at <= e.at
  BY <1>2 DEF IsLast
<1>. QED
  BY <1>1, <1>3, LatestBecomes

-----------------------------------------------------------------------------
(* Reconciling again.                                                      *)

DecidedOf(believed, rivals) ==
  LET Others(c) == {d \in rivals : d.tx # c.tx}
      Outcome(c) ==
        Gate(c, Conflicts(c, Incumbent(believed \ {c}, Others(c)), Others(c)), Oracle)
  IN  {<<c.tx, Outcome(c)>> : c \in believed}

\* What reconcile decides depends on what is believed and on the rivals only.
LEMMA DecidedDepends ==
  ASSUME NEW M, NEW t
  PROVE  Decided(M, t) = DecidedOf(Fold(M, t, t), Rivals(M, t))
  BY DEF Decided, DecidedOf

\* Views with the same claims, outcomes that exclude the same ones and the same bounds believe
\* and compare alike.
LEMMA SameBelief ==
  ASSUME NEW M, NEW N, NEW t, M.claims = N.claims,
         \A c \in M.claims : /\ ActiveBound(M, c, t) = ActiveBound(N, c, t)
                             /\ Live(M, c, t) <=> Live(N, c, t)
                             /\ c \in Reentrant(M, t) <=> c \in Reentrant(N, t)
  PROVE  /\ \A v : Fold(M, t, v) = Fold(N, t, v)
         /\ Rivals(M, t) = Rivals(N, t)
<1>1. RawLive(M, t) = RawLive(N, t)
  BY DEF RawLive
<1>2. Reentrant(M, t) = Reentrant(N, t) /\ Reentrant(M, t) \subseteq M.claims
  BY DEF Reentrant
<1>3. \A v : Fold(M, t, v) = FoldOf(RawLive(M, t), v) /\ Fold(N, t, v) = FoldOf(RawLive(N, t), v)
  BY DEF Fold, FoldOf
<1>4. \A c \in M.claims : Window(M, c, t) = Window(N, c, t)
  BY DEF Window
<1> DEFINE R(K, c) == IF Live(K, c, t) THEN c ELSE Window(K, c, t)
<1>5. Rivals(M, t) = {R(M, c) : c \in Reentrant(M, t)} /\ Rivals(N, t) = {R(N, c) : c \in Reentrant(N, t)}
  BY DEF Rivals
<1>6. \A c \in M.claims : R(M, c) = R(N, c)
  BY <1>4
<1>. HIDE DEF R
<1>7. Rivals(M, t) = Rivals(N, t)
  BY <1>2, <1>5, <1>6
<1>. QED
  BY <1>1, <1>3, <1>7

\* A pass over a line that nobody writes to decides the same again, for every claim the gate
\* would not quarantine: the entries it writes take no claim out of the belief
\* (reconcile.rs, I6).
LEMMA ReconcileAgain ==
  ASSUME LineInv, LineInv', Reconcile, \A c \in Fold(L, clock', clock') : ~Incoherent(c)
  PROVE  Decided(L', clock') = Decided(L, clock')
<1>1. PICK now \in Nat : now = clock + 1
  BY LineTypes
<1>2. /\ clock' = now /\ ledger' = ledger \cup {Note(o, now) : o \in Decided(L, now)}
      /\ claims' = claims /\ assertions' = assertions
  BY <1>1 DEF Reconcile
<1> DEFINE believed == Fold(L, now, now)
           Others(c) == {d \in Rivals(L, now) : d.tx # c.tx}
           Outcome(c) ==
             Gate(c, Conflicts(c, Incumbent(believed \ {c}, Others(c)), Others(c)), Oracle)
<1>3. Decided(L, now) = {<<c.tx, Outcome(c)>> : c \in believed}
  BY DEF Decided
<1>4. believed \subseteq claims /\ \A c \in believed : Live(L, c, now)
  BY FoldSubset DEF L, RawLive
<1>5. \A c \in believed : Outcome(c) \in {"Inferred", "Cheap", "Queued", "Contested"}
  BY <1>2 DEF Gate
<1>6. /\ L'.claims = claims /\ L.claims = claims /\ L'.ledger = ledger' /\ L.ledger = ledger
      /\ L'.assertions = assertions /\ L.assertions = assertions
  BY <1>2 DEF L
<1>7. \A c : ActiveBound(L', c, now) = ActiveBound(L, c, now)
  BY <1>6 DEF ActiveBound, Effective
<1>. HIDE DEF Outcome, believed
<1>8. ASSUME NEW c \in believed
      PROVE  Latest(L', c).disp \in {"Inferred", "Cheap", "Queued", "Contested"}
  <2>1. <<c.tx, Outcome(c)>> \in Decided(L, now)
    BY <1>3
  <2>2. PICK n : n = Note(<<c.tx, Outcome(c)>>, now)
    OBVIOUS
  <2>3. n \in ledger' /\ n.claim = c.tx /\ n.at = now /\ n.disp = Outcome(c)
    BY <1>2, <2>1, <2>2 DEF Note, Entry
  <2>4. \A f \in ledger' : f.at <= now
    <3>1. \A f \in ledger : f.at <= now
      BY <1>1, LineTypes
    <3>. QED
      BY <1>2, <3>1 DEF Note, Entry
  <2>5. Latest(L', c) = n
    BY <1>2, <1>4, <2>3, <2>4, LatestBecomes
  <2>. QED
    BY <1>5, <2>3, <2>5
<1>9. ASSUME NEW c \in claims \ believed PROVE Latest(L', c) = Latest(L, c)
  <2>1. \A o \in Decided(L, now) : Note(o, now).claim # c.tx
    BY <1>3, <1>4, LineTypes DEF Note, Entry
  <2>. QED
    BY <1>2, <2>1, LatestKept
<1>10. ASSUME NEW c \in claims
       PROVE  /\ Live(L', c, now) <=> Live(L, c, now)
              /\ c \in Reentrant(L', now) <=> c \in Reentrant(L, now)
  <2>1. CASE c \in believed
    BY <1>4, <1>6, <1>7, <1>8, <2>1 DEF Live, Excluded, HardExcluded, Reentrant
  <2>2. CASE c \notin believed
    BY <1>6, <1>7, <1>9, <2>2 DEF Live, Excluded, HardExcluded, Reentrant, Denied
  <2>. QED
    BY <2>1, <2>2
<1>11. Fold(L', now, now) = Fold(L, now, now) /\ Rivals(L', now) = Rivals(L, now)
  BY <1>6, <1>7, <1>10, SameBelief
<1>. QED
  BY <1>2, <1>11, DecidedDepends

\* ReconcileIdempotent: a pass over a line of claims the gate does not quarantine decides what the
\* pass before it did (reconcile.rs, I6).
THEOREM ReconcileSettles == Spec => ReconcileIdempotent
<1> DEFINE Again == Reconcile /\ (\A c \in Fold(L, clock', clock') : ~Incoherent(c))
                      => Decided(L', clock') = Decided(L, clock')
<1>1. LineInv /\ LineInv' /\ [Next]_vars => [Again]_vars
  BY ReconcileAgain
<1>. QED
  BY <1>1, LineInvariant, PTL DEF Spec, ReconcileIdempotent

-----------------------------------------------------------------------------
(* Claims that end before they start.                                      *)

Backward(c) == Trusted(c) /\ c.end < c.start

\* A claim whose window is turned round was quarantined, and nothing brings it back: there is no
\* instant to bound it at, and nobody is measured against it.
BackwardInv ==
  \A c \in claims : Backward(c) =>
    /\ \A e \in ledger : e.claim = c.tx => e.disp = "Quarantined"
    /\ \A a \in assertions : a.claim # c.tx
    /\ \A row \in pending : row.incumbent # c.tx

\* Such a claim is neither believed nor a rival, nor under adjudication.
LEMMA BackwardIsOut ==
  ASSUME LineInv, BackwardInv, NEW c \in claims, Backward(c)
  PROVE  /\ \A t : c \notin Reentrant(L, t) /\ ~Live(L, c, t) /\ ActiveBound(L, c, t) = Never
         /\ ~Queued(c)
<1>1. Latest(L, c).disp = "Quarantined"
  BY LatestOfClaim DEF IsLast, BackwardInv
<1>2. \A t : Effective(L, c, t) = {}
  BY DEF BackwardInv, Effective, L
<1>. QED
  BY <1>1, <1>2 DEF Reentrant, HardExcluded, Live, Excluded, Queued, ActiveBound

\* The incumbent of a candidate re-enters.
LEMMA IncumbentReenters ==
  ASSUME LineInv, NEW t, NEW i \in Incumbent(Fold(L, t, t), Rivals(L, t))
  PROVE  \E c \in Reentrant(L, t) : c \in claims /\ i.tx = c.tx
<1>1. Fold(L, t, t) \subseteq claims /\ Fold(L, t, t) \subseteq RawLive(L, t)
  BY FoldSubset DEF L
<1>2. CASE Fold(L, t, t) # {}
  <2>1. First(Fold(L, t, t)) \in Fold(L, t, t)
    BY <1>1, <1>2, FirstIsFirst, LineTypes
  <2>. QED
    BY <1>1, <1>2, <2>1 DEF Incumbent, RawLive, Reentrant, Live, Excluded, HardExcluded
<1>3. CASE Fold(L, t, t) = {} /\ Rivals(L, t) # {}
  <2>1. First(Rivals(L, t)) \in Rivals(L, t)
    BY <1>3, RivalOf, FirstIsFirst, LineTypes
  <2>. QED
    BY <1>3, <2>1, RivalOf DEF Incumbent
<1>. QED
  BY <1>2, <1>3 DEF Incumbent

\* Every call leaves such a claim where it is.
LEMMA BackwardCall ==
  ASSUME LineInv, BackwardInv, NEW call \in waiting \cup {Fresh}, Call(call)
  PROVE  BackwardInv'
<1>1. Takes(call.now)
  BY CallAppends, RunsTakes
<1>2. ASSUME NEW offer \in Offer, Ingest(offer, call) PROVE BackwardInv'
  <2> DEFINE now == call.now
             c == [value |-> offer.value, start |-> offer.start, end |-> offer.end,
                   timed |-> offer.timed, origin |-> offer.origin, tx |-> now]
             inc == Incumbent(Fold(L, now, now), Rivals(L, now))
  <2>1. PICK d : /\ Backward(c) => d = "Quarantined"
                 /\ claims' = claims \cup {c} /\ ledger' = ledger \cup {Entry(now, d, now, "ingest", now)}
                 /\ pending' = IF d # "Queued" THEN pending
                               ELSE pending \cup {[challenger |-> now, status |-> "pending",
                                                   incumbent |-> i.tx] : i \in inc}
                 /\ assertions' = assertions
    <3>1. Backward(c) => Incoherent(c)
      BY <1>2, SubjectLineAssumption DEF Backward, Incoherent
    <3>2. \A conflict, oracle : Backward(c) => Gate(c, conflict, oracle) = "Quarantined"
      BY <3>1 DEF Gate
    <3>. HIDE DEF Backward
    <3>. QED
      BY <1>2, <3>2 DEF Ingest
  <2>2. c.tx = now
    OBVIOUS
  <2>. HIDE DEF c
  <2>3. /\ Entry(now, d, now, "ingest", now).claim = now
        /\ Entry(now, d, now, "ingest", now).disp = d
    BY DEF Entry
  <2>4. now \notin Known /\ \A x \in claims : x.tx # now
    BY <1>1 DEF Takes, Stamped, Known
  <2>5. ASSUME NEW x \in claims, Backward(x)
        PROVE  /\ \A e \in ledger' : e.claim = x.tx => e.disp = "Quarantined"
               /\ \A a \in assertions' : a.claim # x.tx
               /\ \A row \in pending' : row.incumbent # x.tx
    <3>1. \A i \in inc : i.tx # x.tx
      BY <2>5, IncumbentReenters, BackwardIsOut, LineTypes DEF inc
    <3>. QED
      BY <2>1, <2>3, <2>4, <2>5, <3>1 DEF BackwardInv
  <2>6. ASSUME Backward(c)
        PROVE  /\ \A e \in ledger' : e.claim = c.tx => e.disp = "Quarantined"
               /\ \A a \in assertions' : a.claim # c.tx
               /\ \A row \in pending' : row.incumbent # c.tx
    BY <2>1, <2>2, <2>3, <2>4, <2>6, LineTypes
  <2>. QED
    BY <2>1, <2>5, <2>6 DEF BackwardInv
<1>3. ASSUME NEW row \in pending, NEW verdict \in Verdict, Submit(row, verdict, call)
      PROVE  BackwardInv'
  <2>1. claims' = claims /\ Queued(ClaimOf(row.challenger)) /\ ClaimOf(row.challenger) \in claims
        /\ ClaimOf(row.challenger).tx = row.challenger
    BY <1>3, LineTypes, ClaimOfKnown DEF Submit
  <2>2. \A c \in claims : Backward(c) => c.tx # row.challenger /\ c.tx # row.incumbent
    BY <2>1, BackwardIsOut, LineTypes DEF BackwardInv
  <2>3. \A r \in pending' : \E s \in pending : r.incumbent = s.incumbent
    <3>1. \A r \in RowType : [r EXCEPT !.status = "resolved"].incumbent = r.incumbent
      BY DEF RowType
    <3>2. row \in RowType
      BY DEF LineInv, TypeOK, RowType
    <3>. QED
      BY <1>3, <3>1, <3>2 DEF Submit, Become
  <2> DEFINE Own(tx) == tx \in {row.challenger, row.incumbent}
  <2>4. (\A e \in ledger' \ ledger : Own(e.claim)) /\ (\A a \in assertions' \ assertions : Own(a.claim))
    <3>1. CASE verdict = "affirm"
      BY <1>3, <2>1, <3>1 DEF Submit, Affirm, Entry, Assertion
    <3>2. CASE verdict = "deny"
      BY <1>3, <3>2 DEF Submit, Deny, Bounded, Entry, Assertion
    <3>3. CASE verdict = "unknown"
      BY <1>3, <3>3 DEF Submit, Abstain, Entry
    <3>. QED
      BY <3>1, <3>2, <3>3 DEF Verdict
  <2>. QED
    BY <2>1, <2>2, <2>3, <2>4 DEF BackwardInv
<1>4. ASSUME NEW tx, claims' = claims, assertions' = assertions,
             \A r \in pending' : \E s \in pending : r.incumbent = s.incumbent,
             ledger' = ledger \cup {Entry(tx, "Contested", call.now, "expiry", tx)},
             \A c \in claims : Backward(c) => c.tx # tx
      PROVE  BackwardInv'
  BY <1>4 DEF BackwardInv, Entry
<1>5. ASSUME NEW row \in pending, Expire(row, call) PROVE BackwardInv'
  <2>1. \A c \in claims : Backward(c) => c.tx # row.challenger
    BY <1>5, BackwardIsOut, ClaimOfTx DEF Expire
  <2>2. \A r \in pending' : \E s \in pending : r.incumbent = s.incumbent
    <3>1. \A r \in RowType : [r EXCEPT !.status = "expired"].incumbent = r.incumbent
      BY DEF RowType
    <3>2. row \in RowType
      BY DEF LineInv, TypeOK, RowType
    <3>. QED
      BY <1>5, <3>1, <3>2 DEF Expire, Become
  <2>. QED
    BY <1>4, <1>5, <2>1, <2>2 DEF Expire
<1>6. ASSUME NEW c \in claims, RevertOrphan(c, call) PROVE BackwardInv'
  BY <1>4, <1>6, BackwardIsOut, LineTypes DEF RevertOrphan
<1>7. ASSUME NEW c \in claims, NEW at \in BoundAt, AssertBound(c, at, call) PROVE BackwardInv'
  <2>1. ~Backward(c)
    BY <1>7, SubjectLineAssumption, LineTypes DEF AssertBound, Backward
  <2>. QED
    BY <1>7, <2>1, LineTypes DEF AssertBound, Bounded, Entry, Assertion, BackwardInv
<1>8. ASSUME NEW c \in claims, Reopen(c, call) PROVE BackwardInv'
  <2>1. ~Backward(c)
    BY <1>8, BackwardIsOut DEF Reopen
  <2>. QED
    BY <1>8, <2>1, LineTypes DEF Reopen, Entry, Assertion, BackwardInv
<1>. QED
  BY <1>2, <1>3, <1>5, <1>6, <1>7, <1>8 DEF Call

\* No step brings a backward claim in.
LEMMA BackwardStep == LineInv /\ BackwardInv /\ LineStep => BackwardInv'
<1>. SUFFICES ASSUME LineInv, BackwardInv, LineStep PROVE BackwardInv'
  OBVIOUS
<1>1. CASE ReadClock
  BY <1>1 DEF ReadClock, BackwardInv
<1>2. CASE Reconcile
  <2>1. \A o \in Decided(L, clock + 1) : \E c \in Fold(L, clock + 1, clock + 1) : o[1] = c.tx
    BY DecidedOnce
  <2>2. \A c \in Fold(L, clock + 1, clock + 1) : c \in claims /\ ~Backward(c)
    BY FoldSubset, BackwardIsOut DEF L, RawLive
  <2>3. \A c \in claims : Backward(c) =>
          \A o \in Decided(L, clock + 1) : Note(o, clock + 1).claim # c.tx
    BY <2>1, <2>2, LineTypes DEF Note, Entry
  <2>. QED
    BY <1>2, <2>3 DEF Reconcile, BackwardInv
<1>3. ASSUME NEW call \in waiting \cup {Fresh}, Call(call) PROVE BackwardInv'
  BY <1>3, BackwardCall
<1>4. CASE Tick
  BY <1>4 DEF Tick, BackwardInv
<1>. QED
  BY <1>1, <1>2, <1>3, <1>4 DEF LineStep, Next

\* A read as of now sees the whole line.
LEMMA ReadsAll ==
  ASSUME LineInv
  PROVE  /\ Recall(L, clock) = Fold(L, clock, clock)
         /\ \A v : RecallAt(L, clock, v) = Narrowed(L, clock, v)
<1>1. {c \in claims : c.tx <= clock} = claims /\ {e \in ledger : e.at <= clock} = ledger
  BY LineTypes
<1> DEFINE A == AsOf(L, clock)
<1>2. /\ A.claims = claims /\ A.ledger = ledger /\ A.assertions = assertions
      /\ L.claims = claims /\ L.ledger = ledger /\ L.assertions = assertions
  BY <1>1 DEF AsOf, L
<1>. HIDE DEF A
<1>3. Agree(A, L, clock)
  BY <1>2 DEF Agree, SameRecord, Effective
<1>4. Agree(AsOf(L, clock), L, clock)
  BY <1>3 DEF A
<1>. QED
  BY <1>4, FoldDepends, NarrowedDepends DEF Recall, RecallAt

\* The bound that is in force is an instant, or Never.
LEMMA BoundType ==
  ASSUME LineInv, NEW c, NEW t
  PROVE  ActiveBound(L, c, t) \in Nat
<1> DEFINE E == Effective(L, c, t)
           last == CHOOSE a \in E : \A b \in E : b.asserted <= a.asserted
<1>1. ActiveBound(L, c, t) = IF E # {} /\ last.kind = "Bound" THEN last.at ELSE Never
  BY DEF ActiveBound
<1>2. E \subseteq assertions
  BY DEF Effective, L
<1>3. E # {} => \E a \in E : \A b \in E : b.asserted <= a.asserted
  <2>. SUFFICES ASSUME E # {} PROVE \E a \in E : \A b \in E : b.asserted <= a.asserted
    OBVIOUS
  <2> DEFINE T == {clock - a.asserted : a \in E}
  <2>1. \A a \in E : a.asserted \in Nat /\ clock - a.asserted \in Nat
    BY <1>2, LineTypes
  <2>2. T \subseteq Nat /\ T # {}
    BY <2>1
  <2>. HIDE DEF T, E
  <2>3. PICK n \in T : \A m \in T : n <= m
    BY <2>2, LeastNat
  <2>4. PICK a \in E : n = clock - a.asserted
    BY <2>3 DEF T
  <2>5. ASSUME NEW b \in E PROVE b.asserted <= a.asserted
    <3>1. clock - b.asserted \in T
      BY DEF T
    <3>2. clock - a.asserted <= clock - b.asserted
      BY <2>3, <2>4, <3>1
    <3>. QED
      BY <2>1, <3>2, LineTypes
  <2>. QED
    BY <2>5
<1>. HIDE DEF E
<1>4. E # {} => last \in E
  BY <1>3
<1>. QED
  BY <1>1, <1>2, <1>4, LineTypes

\* What a narrowed window holds.
LEMMA WindowTypes ==
  ASSUME LineInv, NEW c \in claims, NEW t
  PROVE  /\ Window(L, c, t).end \in Nat /\ Window(L, c, t).end <= c.end
         /\ Window(L, c, t).end <= ActiveBound(L, c, t)
         /\ Window(L, c, t).end \in {c.end, ActiveBound(L, c, t)}
         /\ Window(L, c, t).start = c.start
<1>1. ActiveBound(L, c, t) \in Nat /\ c.end \in Nat
  BY BoundType, LineTypes
<1>. QED
  BY <1>1, WindowOf DEF Least

\* On a line of dated claims that all re-enter, history shows each claim until its window ends:
\* a later claim is shown to cut it short only where the two overlap, and then neither is.
LEMMA UntilOwnEnd ==
  ASSUME LineInv, BackwardInv, \A c \in claims : Trusted(c) /\ c \in Reentrant(L, clock),
         NEW c \in claims
  PROVE  Until(L, c, clock) = Window(L, c, clock).end
<1> DEFINE own  == Window(L, c, clock)
           next == First(Successors(L, c))
<1>1. CASE Successors(L, c) = {}
  BY <1>1 DEF Until
<1>2. CASE Successors(L, c) # {}
  <2>1. Successors(L, c) \subseteq claims
    BY DEF Successors, L
  <2>2. next \in Successors(L, c)
    BY <1>2, <2>1, FirstIsFirst, LineTypes
  <2>3. next \in claims /\ c.start < next.start /\ Key(next) = next.start
    BY <2>1, <2>2 DEF Successors, Key
  <2>4. next.start <= next.end
    BY <2>3, BackwardIsOut, LineTypes DEF Backward
  <2>5. own.start = c.start /\ own.end \in Nat
    BY WindowTypes
  <2>6. Until(L, c, clock) = IF ~Apart(own, next) THEN own.end ELSE Least(own.end, next.start)
    BY <1>2, <2>3 DEF Until
  <2>. HIDE DEF own, next
  <2>7. Apart(own, next) => own.end <= next.start
    BY <2>3, <2>4, <2>5, LineTypes DEF Apart
  <2>8. Until(L, c, clock) = own.end
    BY <2>6, <2>7 DEF Least
  <2>. QED
    BY <2>8 DEF own
<1>. QED
  BY <1>1, <1>2

\* A line that is in order, without a backward claim let in, shows the history that it reads.
LEMMA HistoryTold ==
  ASSUME LineInv, BackwardInv
  PROVE  HistoryTellsThePast
<1> DEFINE Shown(c) == [c EXCEPT !.end = Until(L, c, clock)]
           W(c) == Window(L, c, clock)
<1>. SUFFICES ASSUME \A c \in claims : Trusted(c) /\ c \in Reentrant(L, clock),
                     \A c, d \in claims : c # d => Apart(Shown(c), Shown(d)),
                     NEW c \in claims, NEW v \in Instant
              PROVE  c \in RecallAt(L, clock, v) <=> Holds(Shown(c), v)
  BY DEF HistoryTellsThePast
<1>1. ASSUME NEW d \in claims
      PROVE  /\ Shown(d).start = W(d).start /\ Shown(d).end = W(d).end
             /\ W(d).tx = d.tx /\ Trusted(W(d))
  <2>1. Until(L, d, clock) = W(d).end
    BY UntilOwnEnd
  <2>2. d \in Claim
    BY LineTypes
  <2>3. Shown(d).start = d.start /\ Shown(d).end = Until(L, d, clock)
    BY <2>2 DEF Claim
  <2>4. W(d).start = d.start /\ W(d).tx = d.tx /\ Trusted(W(d))
    BY WindowOf
  <2>. QED
    BY <2>1, <2>3, <2>4
<1>2. \A d \in claims : Holds(Shown(d), v) <=> Holds(W(d), v)
  BY <1>1 DEF Holds
<1>3. \A d, e \in claims : d # e => Apart(W(d), W(e))
  BY <1>1 DEF Apart
<1>. HIDE DEF W
<1>4. Succession({W(d) : d \in claims})
  BY <1>1, <1>3 DEF Succession
<1>5. Reentrant(L, clock) = claims
  BY DEF Reentrant, L
<1>6. Narrowed(L, clock, v) = {d \in claims : Holds(W(d), v)}
  BY <1>4, <1>5 DEF Narrowed, W
<1>. QED
  BY <1>2, <1>6, ReadsAll

\* What history shows is what point-in-time reads answer, instant by instant: history never cuts a
\* dated claim short where a read would not (compute_history_windows,
\* narrow_live_claims_for_valid_at).
THEOREM HistoryIsTold == Spec => []HistoryTellsThePast
<1>1. Init => BackwardInv
  BY DEF Init, BackwardInv
<1>2. LineInv /\ BackwardInv /\ [Next]_vars => BackwardInv'
  BY BackwardStep, StutterTicks
<1>3. LineInv /\ BackwardInv => HistoryTellsThePast
  BY HistoryTold
<1>. QED
  BY <1>1, <1>2, <1>3, LineInvariant, PTL DEF Spec

-----------------------------------------------------------------------------
(* What a step does to one claim.                                          *)

\* No row is written about d; or one entry n, and the assertions in new.
Untouched(d) ==
  /\ \A e : e.claim = d.tx => (e \in ledger' <=> e \in ledger)
  /\ \A a : a.claim = d.tx => (a \in assertions' <=> a \in assertions)
Touched(d, n, new) ==
  /\ n.claim = d.tx /\ n \in ledger' /\ new \subseteq assertions'
  /\ \A e : e.claim = d.tx => (e \in ledger' <=> e \in ledger \/ e = n)
  /\ \A a : a.claim = d.tx => (a \in assertions' <=> a \in assertions \/ a \in new)

Bounding(d, at, now) == {Assertion(d.tx, "Bound", at, now)}
IsRow(i, c) == \E row \in pending : row.incumbent = i.tx /\ row.challenger = c.tx

\* d is an incumbent whose challenger c a verdict prefers.
HandsOver(d, n, new, now) ==
  \E c \in claims : /\ n = Entry(d.tx, "Superseded", now, "affirm", c.tx)
                    /\ new = Bounding(d, HandOver(c, now), now)
                    /\ IsRow(d, c) /\ Queued(c) /\ c # d
\* d is a challenger that a verdict decided about, or a sweep;
IsPreferred(d, n, new, now) ==
  n = Entry(d.tx, "Cheap", now, "affirm", d.tx) /\ new = {} /\ Queued(d)
IsDenied(d, n, new, now) ==
  n = Entry(d.tx, "Superseded", now, "deny", d.tx) /\ new = Bounding(d, now, now) /\ Queued(d)
IsDoubted(d, n, new, now) ==
  /\ \E about : n = Entry(d.tx, "Contested", now, "unknown", about)
  /\ new = {} /\ (Queued(d) \/ \E row \in pending : row.incumbent = d.tx)
Lapses(d, n, new, now) ==
  n = Entry(d.tx, "Contested", now, "expiry", d.tx) /\ new = {} /\ Queued(d)
\* or a host bounds or reopens it;
IsBounded(d, n, new, now) ==
  /\ n = Entry(d.tx, "Superseded", now, "host_bound", d.tx)
  /\ \E at \in BoundAt : new = Bounding(d, at, now)
  /\ ~Queued(d) /\ ~Denied(L, d) /\ ActiveBound(L, d, now) = Never
IsReopened(d, n, new, now) ==
  /\ n = Entry(d.tx, "Reinstated", now, "reopen", d.tx)
  /\ new = {Assertion(d.tx, "Reopen", now, now)} /\ ActiveBound(L, d, now) # Never
\* or it is believed, and reconcile notes what it is.
IsNoted(d, n, new, now) ==
  /\ \E disp \in {"Quarantined", "Inferred", "Cheap", "Queued", "Contested"} :
        /\ n = Entry(d.tx, disp, now, "reconcile", d.tx)
        /\ disp = "Queued" => ~Incoherent(d)
  /\ new = {} /\ Live(L, d, now)

How(d, n, new, now) ==
  \/ HandsOver(d, n, new, now) \/ IsPreferred(d, n, new, now) \/ IsDenied(d, n, new, now)
  \/ IsDoubted(d, n, new, now) \/ Lapses(d, n, new, now) \/ IsBounded(d, n, new, now)
  \/ IsReopened(d, n, new, now) \/ IsNoted(d, n, new, now)

ToldOf(d, now) == Untouched(d) \/ \E n, new : Touched(d, n, new) /\ How(d, n, new, now)

\* The fields of an entry;
LEMMA EntryFields ==
  ASSUME NEW tx, NEW disp, NEW now, NEW by, NEW about
  PROVE  LET e == Entry(tx, disp, now, by, about)
         IN  e.claim = tx /\ e.disp = disp /\ e.at = now /\ e.by = by /\ e.about = about
  BY DEF Entry

\* and of an assertion.
LEMMA AssertionFields ==
  ASSUME NEW tx, NEW kind, NEW at, NEW now
  PROVE  LET a == Assertion(tx, kind, at, now)
         IN  a.claim = tx /\ a.kind = kind /\ a.at = at /\ a.asserted = now
  BY DEF Assertion

\* The rows of a call about one claim.
LEMMA OneTouched ==
  ASSUME LineInv, NEW c \in claims, NEW n, n.claim = c.tx, NEW new, \A a \in new : a.claim = c.tx,
         ledger' = ledger \cup {n}, assertions' = assertions \cup new
  PROVE  /\ Touched(c, n, new)
         /\ \A d \in claims \ {c} : Untouched(d)
<1>1. \A d \in claims \ {c} : d.tx # c.tx
  BY LineTypes
<1>. QED
  BY <1>1 DEF Touched, Untouched

\* Submit touches the challenger, and the incumbent perhaps.
LEMMA SubmitTells ==
  ASSUME LineInv, NEW call, NEW row \in pending, NEW verdict \in Verdict, Submit(row, verdict, call),
         NEW d \in claims
  PROVE  ToldOf(d, call.now)
<1> DEFINE now == call.now
<1>1. row.challenger \in Known /\ row.incumbent \in Known /\ row.challenger # row.incumbent
  BY LineTypes DEF LineInv
<1>2. PICK c \in claims : c = ClaimOf(row.challenger) /\ c.tx = row.challenger /\ Queued(c)
  BY <1>1, ClaimOfKnown DEF Submit
<1>3. PICK i \in claims : i.tx = row.incumbent
  BY <1>1, ClaimOfKnown
<1>4. c # i /\ \A x \in claims : (x.tx = c.tx => x = c) /\ (x.tx = i.tx => x = i)
  BY <1>1, <1>2, <1>3, LineTypes
<1>. HIDE DEF now
<1>5. CASE verdict = "affirm"
  <2> DEFINE b == Assertion(i.tx, "Bound", HandOver(c, now), now)
             m == Entry(i.tx, "Superseded", now, "affirm", c.tx)
             n == Entry(c.tx, "Cheap", now, "affirm", c.tx)
  <2>1. ledger' = ledger \cup {m, n} /\ assertions' = assertions \cup {b}
    BY <1>2, <1>3, <1>5 DEF Submit, Affirm, now
  <2>2. m.claim = i.tx /\ n.claim = c.tx /\ b.claim = i.tx
    BY EntryFields, AssertionFields
  <2>3. IsPreferred(c, n, {}, now)
    BY <1>2 DEF IsPreferred
  <2>4. HandsOver(i, m, {b}, now)
    BY <1>2, <1>3, <1>4 DEF HandsOver, Bounding, IsRow
  <2>. HIDE DEF b, m, n
  <2>5. CASE d = c
    <3>1. Touched(c, n, {})
      BY <1>3, <1>4, <2>1, <2>2 DEF Touched
    <3>. QED
      BY <2>3, <2>5, <3>1 DEF ToldOf, How, now
  <2>6. CASE d = i
    <3>1. Touched(i, m, {b})
      BY <1>2, <1>4, <2>1, <2>2 DEF Touched
    <3>. QED
      BY <2>4, <2>6, <3>1 DEF ToldOf, How, now
  <2>7. CASE d # c /\ d # i
    <3>1. Untouched(d)
      BY <1>4, <2>1, <2>2, <2>7 DEF Untouched
    <3>. QED
      BY <3>1 DEF ToldOf
  <2>. QED
    BY <2>5, <2>6, <2>7
<1>6. CASE verdict = "deny"
  <2> DEFINE b == Assertion(c.tx, "Bound", now, now)
             n == Entry(c.tx, "Superseded", now, "deny", c.tx)
  <2>1. ledger' = ledger \cup {n} /\ assertions' = assertions \cup {b}
    BY <1>2, <1>6 DEF Submit, Deny, Bounded, now
  <2>2. n.claim = c.tx /\ b.claim = c.tx
    BY EntryFields, AssertionFields
  <2>3. IsDenied(c, n, {b}, now)
    BY <1>2 DEF IsDenied, Bounding
  <2>. HIDE DEF b, n
  <2>4. Touched(c, n, {b}) /\ \A x \in claims \ {c} : Untouched(x)
    BY <2>1, <2>2, OneTouched
  <2>. QED
    BY <2>3, <2>4 DEF ToldOf, How, now
<1>7. CASE verdict = "unknown"
  <2> DEFINE m == Entry(i.tx, "Contested", now, "unknown", c.tx)
             n == Entry(c.tx, "Contested", now, "unknown", c.tx)
  <2>1. ledger' = ledger \cup {m, n} /\ assertions' = assertions
    BY <1>2, <1>3, <1>7 DEF Submit, Abstain, now
  <2>2. m.claim = i.tx /\ n.claim = c.tx
    BY EntryFields
  <2>3. IsDoubted(c, n, {}, now) /\ IsDoubted(i, m, {}, now)
    BY <1>2, <1>3 DEF IsDoubted
  <2>. HIDE DEF m, n
  <2>4. Touched(c, n, {}) /\ Touched(i, m, {})
    BY <1>2, <1>3, <1>4, <2>1, <2>2 DEF Touched
  <2>5. \A x \in claims \ {c, i} : Untouched(x)
    BY <1>4, <2>1, <2>2 DEF Untouched
  <2>. QED
    BY <2>3, <2>4, <2>5 DEF ToldOf, How, now
<1>. QED
  BY <1>5, <1>6, <1>7 DEF Verdict

\* Ingestion tells of no claim but its own.
LEMMA IngestTells ==
  ASSUME LineInv, NEW call \in waiting \cup {Fresh}, NEW offer \in Offer, Ingest(offer, call),
         NEW d \in claims
  PROVE  ToldOf(d, call.now)
<1>1. PICK disp : /\ ledger' = ledger \cup {Entry(call.now, disp, call.now, "ingest", call.now)}
                  /\ assertions' = assertions
  BY DEF Ingest
<1>2. d.tx # call.now
  BY LineTypes DEF Stamped
<1>. QED
  BY <1>1, <1>2, EntryFields DEF ToldOf, Untouched

\* The other calls touch one claim at most.
LEMMA CallTells ==
  ASSUME LineInv, NEW call \in waiting \cup {Fresh}, Call(call), NEW d \in claims
  PROVE  ToldOf(d, call.now)
<1>1. ASSUME NEW c \in claims, Queued(c), assertions' = assertions,
             ledger' = ledger \cup {Entry(c.tx, "Contested", call.now, "expiry", c.tx)}
      PROVE  ToldOf(d, call.now)
  <2>1. PICK n : n = Entry(c.tx, "Contested", call.now, "expiry", c.tx)
    OBVIOUS
  <2>2. n.claim = c.tx /\ ledger' = ledger \cup {n} /\ assertions' = assertions \cup {}
    BY <1>1, <2>1, EntryFields
  <2>3. Touched(c, n, {}) /\ \A x \in claims \ {c} : Untouched(x)
    BY <2>2, OneTouched
  <2>4. Lapses(c, n, {}, call.now)
    BY <1>1, <2>1 DEF Lapses
  <2>. QED
    BY <2>3, <2>4 DEF ToldOf, How
<1>2. ASSUME NEW row \in pending, Expire(row, call) PROVE ToldOf(d, call.now)
  <2>1. ClaimOf(row.challenger) \in claims /\ ClaimOf(row.challenger).tx = row.challenger
    BY LineTypes, ClaimOfKnown
  <2>. QED
    BY <1>1, <1>2, <2>1 DEF Expire
<1>3. ASSUME NEW c \in claims, RevertOrphan(c, call) PROVE ToldOf(d, call.now)
  BY <1>1, <1>3 DEF RevertOrphan
<1>4. ASSUME NEW c \in claims, NEW at \in BoundAt, AssertBound(c, at, call)
      PROVE  ToldOf(d, call.now)
  <2>1. PICK n, b : /\ n = Entry(c.tx, "Superseded", call.now, "host_bound", c.tx)
                    /\ b = Assertion(c.tx, "Bound", at, call.now)
    OBVIOUS
  <2>2. n.claim = c.tx /\ b.claim = c.tx /\ ledger' = ledger \cup {n} /\ assertions' = assertions \cup {b}
    BY <1>4, <2>1, EntryFields, AssertionFields DEF AssertBound, Bounded
  <2>3. Touched(c, n, {b}) /\ \A x \in claims \ {c} : Untouched(x)
    BY <2>2, OneTouched
  <2>4. IsBounded(c, n, {b}, call.now)
    BY <1>4, <2>1 DEF IsBounded, Bounding, AssertBound
  <2>. QED
    BY <2>3, <2>4 DEF ToldOf, How
<1>5. ASSUME NEW c \in claims, Reopen(c, call) PROVE ToldOf(d, call.now)
  <2>1. PICK n, b : /\ n = Entry(c.tx, "Reinstated", call.now, "reopen", c.tx)
                    /\ b = Assertion(c.tx, "Reopen", call.now, call.now)
    OBVIOUS
  <2>2. n.claim = c.tx /\ b.claim = c.tx /\ ledger' = ledger \cup {n} /\ assertions' = assertions \cup {b}
    BY <1>5, <2>1, EntryFields, AssertionFields DEF Reopen
  <2>3. Touched(c, n, {b}) /\ \A x \in claims \ {c} : Untouched(x)
    BY <2>2, OneTouched
  <2>4. IsReopened(c, n, {b}, call.now)
    BY <1>5, <2>1 DEF IsReopened, Reopen
  <2>. QED
    BY <2>3, <2>4 DEF ToldOf, How
<1>. QED
  BY <1>2, <1>3, <1>4, <1>5, SubmitTells, IngestTells DEF Call

\* reconcile touches what it believes.
LEMMA ReconcileTells ==
  ASSUME LineInv, Reconcile, NEW d \in claims
  PROVE  ToldOf(d, clock + 1)
<1> DEFINE now == clock + 1
           believed == Fold(L, now, now)
           Others(c) == {x \in Rivals(L, now) : x.tx # c.tx}
           Outcome(c) ==
             Gate(c, Conflicts(c, Incumbent(believed \ {c}, Others(c)), Others(c)), Oracle)
<1>1. ledger' = ledger \cup {Note(o, now) : o \in Decided(L, now)} /\ assertions' = assertions
  BY DEF Reconcile, now
<1>2. Decided(L, now) = {<<c.tx, Outcome(c)>> : c \in believed}
  BY DEF Decided
<1>3. \A c : /\ Outcome(c) \in {"Quarantined", "Inferred", "Cheap", "Queued", "Contested"}
             /\ Outcome(c) = "Queued" => ~Incoherent(c)
  BY DEF Gate
<1>4. believed \subseteq claims /\ \A c \in believed : Live(L, c, now)
  BY FoldSubset DEF L, RawLive
<1>. HIDE DEF Outcome, believed, now
<1> DEFINE N(c) == Entry(c.tx, Outcome(c), now, "reconcile", c.tx)
<1>5. ledger' = ledger \cup {N(c) : c \in believed}
  <2>1. \A c : Note(<<c.tx, Outcome(c)>>, now) = N(c)
    BY DEF Note
  <2>. HIDE DEF N
  <2>. QED
    BY <1>1, <1>2, <2>1
<1>6. \A c : N(c).claim = c.tx
  BY EntryFields
<1>7. \A c \in claims : c.tx = d.tx => c = d
  BY LineTypes
<1>8. CASE d \in believed
  <2>1. IsNoted(d, N(d), {}, now)
    <3>1. PICK disp : disp = Outcome(d)
      OBVIOUS
    <3>. QED
      BY <1>3, <1>4, <1>8, <3>1 DEF IsNoted
  <2>. HIDE DEF N
  <2>2. Touched(d, N(d), {})
    BY <1>1, <1>4, <1>5, <1>6, <1>7, <1>8 DEF Touched
  <2>. QED
    BY <2>1, <2>2 DEF ToldOf, How, now
<1>9. CASE d \notin believed
  <2>. HIDE DEF N
  <2>1. Untouched(d)
    BY <1>1, <1>4, <1>5, <1>6, <1>7, <1>9 DEF Untouched
  <2>. QED
    BY <2>1 DEF ToldOf
<1>. QED
  BY <1>8, <1>9

-----------------------------------------------------------------------------
(* Calls that take effect in the order they read the clock.                *)

\* No call waits: each runs with the instant it has just read.
Prompt == waiting = {}

Measured(c, now) == Conflicts(c, Incumbent(Fold(L, now, now), Rivals(L, now)), Rivals(L, now))

\* A claim that has just been ingested has the gate's entry and no other row.
JustIngested(c) ==
  /\ c.tx = clock + 1 /\ clock' = clock + 1 /\ claims' = claims \cup {c}
  /\ c.tx \notin Known
  /\ ledger' = ledger \cup {Entry(c.tx, Gate(c, Measured(c, c.tx), Oracle), c.tx, "ingest", c.tx)}
  /\ assertions' = assertions
  /\ \A a \in assertions' : a.claim # c.tx
  /\ \A e \in ledger : e.claim # c.tx

SamePair(r, s) == r.challenger = s.challenger /\ r.incumbent = s.incumbent

\* Where no call may wait none does.
LEMMA StaysPrompt ==
  ASSUME MaxWaiting = 0, Prompt, LineStep
  PROVE  Prompt'
<1>1. ~ReadClock
  BY FS_EmptySet DEF ReadClock, Prompt
<1>2. ASSUME NEW call \in waiting \cup {Fresh}, Call(call) PROVE Prompt'
  <2>1. Runs(call)
    BY <1>2, CallAppends
  <2>. QED
    BY <2>1 DEF Runs, Prompt
<1>. QED
  BY <1>1, <1>2 DEF LineStep, Next, Reconcile, Tick, Prompt

\* A prompt call runs as the clock advances.
LEMMA PromptCall ==
  ASSUME Prompt, NEW call \in waiting \cup {Fresh}, Runs(call)
  PROVE  call = Fresh /\ call.now = clock + 1 /\ clock' = clock + 1 /\ clock < MaxClock
  BY DEF Prompt, Runs, Fresh

\* What a step does to a claim it finds.
LEMMA StepTells ==
  ASSUME LineInv, Prompt, LineStep, NEW d \in claims
  PROVE  /\ ToldOf(d, clock + 1)
         /\ clock' = clock => Untouched(d)
         /\ clock' \in {clock, clock + 1}
<1>0. clock \in Nat
  BY LineTypes
<1>1. CASE ReadClock
  BY <1>0, <1>1 DEF ReadClock, ToldOf, Untouched
<1>2. CASE Reconcile
  BY <1>0, <1>2, ReconcileTells DEF Reconcile
<1>3. ASSUME NEW call \in waiting \cup {Fresh}, Call(call)
      PROVE  ToldOf(d, clock + 1) /\ clock' = clock + 1
  BY <1>3, CallAppends, PromptCall, CallTells
<1>4. CASE Tick
  BY <1>4 DEF Tick, ToldOf, Untouched
<1>. QED
  BY <1>0, <1>1, <1>2, <1>3, <1>4 DEF LineStep, Next

\* What a step does when it leaves a claim the line did not have.
LEMMA IngestPrompt ==
  ASSUME LineInv, Prompt, NEW call \in waiting \cup {Fresh}, NEW offer \in Offer,
         Ingest(offer, call)
  PROVE  \E c \in Claim : /\ JustIngested(c)
                          /\ \A r \in pending' \ pending :
                               /\ r.challenger = c.tx /\ r.incumbent \in Known
                               /\ ~Incoherent(c)
                          /\ pending \subseteq pending'
<1> DEFINE now == call.now
           c == [value |-> offer.value, start |-> offer.start, end |-> offer.end,
                 timed |-> offer.timed, origin |-> offer.origin, tx |-> now]
           inc == Incumbent(Fold(L, now, now), Rivals(L, now))
<1>1. PICK d : /\ d = Gate(c, Measured(c, now), Oracle)
               /\ claims' = claims \cup {c} /\ ledger' = ledger \cup {Entry(now, d, now, "ingest", now)}
               /\ pending' = IF d # "Queued" THEN pending
                             ELSE pending \cup {[challenger |-> now, status |-> "pending",
                                                 incumbent |-> i.tx] : i \in inc}
               /\ assertions' = assertions /\ Runs(call)
  BY DEF Ingest, Measured
<1>2. Takes(now) /\ now = clock + 1 /\ clock' = clock + 1
  BY <1>1, RunsTakes, PromptCall
<1>3. c.tx = now /\ c \in Claim
  BY <1>2, SubjectLineAssumption DEF Claim, Takes
<1>4. d = "Queued" => ~Incoherent(c)
  BY <1>1 DEF Gate
<1>. HIDE DEF c, inc
<1>5. now \notin Known
  BY <1>2 DEF Takes, Stamped, Known
<1>6. (\A a \in assertions : a.claim # now) /\ \A e \in ledger : e.claim # now
  BY <1>5, LineTypes
<1>7. JustIngested(c)
  BY <1>1, <1>2, <1>3, <1>5, <1>6 DEF JustIngested
<1>8. \A i \in inc : i.tx \in Known
  BY IncumbentKnown DEF inc
<1>. QED
  BY <1>1, <1>3, <1>4, <1>7, <1>8

\* A claim that a step brings has just been ingested.
LEMMA StepIngests ==
  ASSUME LineInv, Prompt, LineStep, NEW c \in claims' \ claims
  PROVE  JustIngested(c)
<1>1. ASSUME NEW call \in waiting \cup {Fresh}, Call(call) PROVE JustIngested(c)
  <2>1. PICK offer \in Offer : Ingest(offer, call)
    <3>1. (\E offer \in Offer : Ingest(offer, call)) \/ claims' = claims
      BY <1>1 DEF Call, Submit, Expire, RevertOrphan, AssertBound, Reopen
    <3>. QED
      BY <3>1
  <2>2. PICK x : JustIngested(x)
    BY <2>1, IngestPrompt
  <2>3. x = c
    BY <2>2 DEF JustIngested
  <2>. QED
    BY <2>2, <2>3
<1>. QED
  BY <1>1 DEF LineStep, Next, ReadClock, Reconcile, Tick

\* Setting a status leaves a row's claims.
LEMMA BecomeKeepsPairs ==
  ASSUME LineInv, NEW row \in pending, NEW status, Become(row, status)
  PROVE  /\ \A s \in pending : \E r \in pending' : SamePair(r, s)
         /\ \A r \in pending' : \E s \in pending : SamePair(r, s)
<1>1. \A r \in RowType : /\ [r EXCEPT !.status = status].incumbent = r.incumbent
                         /\ [r EXCEPT !.status = status].challenger = r.challenger
  BY DEF RowType
<1>2. row \in RowType
  BY DEF LineInv, TypeOK, RowType
<1>. QED
  BY <1>1, <1>2 DEF Become, SamePair

\* Rows of pending_adjudications stay, and are opened for a claim that was queued as it came.
LEMMA StepRows ==
  ASSUME LineInv, Prompt, LineStep
  PROVE  /\ \A s \in pending : \E r \in pending' : SamePair(r, s)
         /\ \A r \in pending' :
              \/ \E s \in pending : SamePair(r, s)
              \/ \E c \in claims' \ claims : /\ r.challenger = c.tx /\ c.tx = clock + 1
                                             /\ r.incumbent \in Known /\ ~Incoherent(c)
<1>1. CASE pending' = pending
  BY <1>1 DEF SamePair
<1>2. ASSUME NEW call \in waiting \cup {Fresh}, NEW offer \in Offer, Ingest(offer, call)
      PROVE  /\ \A s \in pending : \E r \in pending' : SamePair(r, s)
             /\ \A r \in pending' :
                  \/ \E s \in pending : SamePair(r, s)
                  \/ \E c \in claims' \ claims : /\ r.challenger = c.tx /\ c.tx = clock + 1
                                                 /\ r.incumbent \in Known /\ ~Incoherent(c)
  <2>1. PICK c \in Claim : /\ JustIngested(c)
                           /\ \A r \in pending' \ pending :
                                /\ r.challenger = c.tx /\ r.incumbent \in Known
                                /\ ~Incoherent(c)
                           /\ pending \subseteq pending'
    BY <1>2, IngestPrompt
  <2>2. c \in claims' \ claims /\ c.tx = clock + 1
    BY <2>1 DEF JustIngested, Known
  <2>. QED
    BY <2>1, <2>2 DEF SamePair
<1>3. ASSUME NEW row \in pending, NEW status, Become(row, status)
      PROVE  /\ \A s \in pending : \E r \in pending' : SamePair(r, s)
             /\ \A r \in pending' : \E s \in pending : SamePair(r, s)
  BY <1>3, BecomeKeepsPairs
<1>4. ASSUME NEW call \in waiting \cup {Fresh}, Call(call)
      PROVE  \/ pending' = pending
             \/ \E row \in pending, status \in {"resolved", "expired"} : Become(row, status)
             \/ \E offer \in Offer : Ingest(offer, call)
  BY <1>4 DEF Call, Submit, Expire, RevertOrphan, AssertBound, Reopen
<1>5. \/ pending' = pending
      \/ \E row \in pending, status \in {"resolved", "expired"} : Become(row, status)
      \/ \E call \in waiting \cup {Fresh} : \E offer \in Offer : Ingest(offer, call)
  BY <1>4 DEF LineStep, Next, ReadClock, Reconcile, Tick
<1>. QED
  BY <1>1, <1>2, <1>3, <1>5

-----------------------------------------------------------------------------
(* What the rows of a line tell of each other, when calls are prompt.      *)

\* A challenger came after its incumbent, and was not quarantined.
RowsInv ==
  \A row \in pending : /\ row.incumbent < row.challenger
                       /\ \A c \in claims : c.tx = row.challenger => ~Incoherent(c)

\* Nor was a claim that is queued.
QueuedInv ==
  \A e \in ledger : \A c \in claims : e.disp = "Queued" /\ e.claim = c.tx => ~Incoherent(c)

\* An assertion is told in the ledger, and an end in the ledger is that of a bound.
ToldInv ==
  /\ \A a \in assertions :
       /\ a.at < Never
       /\ a.kind = "Reopen" => a.at = a.asserted
       /\ \E e \in ledger : /\ e.claim = a.claim /\ e.at = a.asserted
                            /\ e.disp = IF a.kind = "Bound" THEN "Superseded" ELSE "Reinstated"
  /\ \A e \in ledger : e.disp = "Superseded" =>
       \E a \in assertions : a.claim = e.claim /\ a.asserted = e.at /\ a.kind = "Bound"

\* An incumbent that a verdict ended was ended where its challenger starts.
HandedInv ==
  \A e \in ledger : e.by = "affirm" /\ e.disp = "Superseded" =>
    /\ \E row \in pending : row.incumbent = e.claim /\ row.challenger = e.about
    /\ \A c \in claims : c.tx = e.about /\ Trusted(c) =>
         \E a \in assertions : /\ a.claim = e.claim /\ a.asserted = e.at
                               /\ a.kind = "Bound" /\ a.at = c.start

\* The last assertion about its claim.
LastOf(a) == a \in assertions /\ \A b \in assertions : b.claim = a.claim => b.asserted <= a.asserted

\* A claim that nobody was measured against and that was bounded last is told to be superseded.
EndsInv ==
  \A c \in claims : \A a \in assertions :
    (a.claim = c.tx /\ LastOf(a) /\ a.kind = "Bound" /\ \A row \in pending : row.incumbent # c.tx)
      => Latest(L, c).disp = "Superseded"

PromptInv == Prompt /\ RowsInv /\ QueuedInv /\ ToldInv /\ HandedInv /\ EndsInv

\* An untouched claim keeps its outcome; a touched one has the new entry's.
LEMMA TouchedLatest ==
  ASSUME LineInv, LineInv', NEW d \in claims, d \in claims'
  PROVE  /\ Untouched(d) => Latest(L', d) = Latest(L, d)
         /\ \A n, new : Touched(d, n, new) /\ n.at = clock + 1 => Latest(L', d) = n
<1>1. Untouched(d) => Latest(L', d) = Latest(L, d)
  BY LatestKept DEF Untouched
<1>2. ASSUME NEW n, NEW new, Touched(d, n, new), n.at = clock + 1 PROVE Latest(L', d) = n
  <2>1. n \in ledger' /\ n.claim = d.tx
    BY <1>2 DEF Touched
  <2>2. \A f \in ledger' : f.claim = d.tx => f.at <= n.at
    BY <1>2, LineTypes DEF Touched
  <2>. QED
    BY <2>1, <2>2, LatestBecomes
<1>. QED
  BY <1>1, <1>2

\* Rows stay as they were written.
LEMMA RowsStay ==
  ASSUME LineInv, LineStep
  PROVE  /\ claims \subseteq claims' /\ ledger \subseteq ledger' /\ assertions \subseteq assertions'
         /\ Known \subseteq Known'
<1>1. ASSUME NEW now, Appended(now)
      PROVE  /\ claims \subseteq claims' /\ ledger \subseteq ledger' /\ assertions \subseteq assertions'
             /\ Known \subseteq Known'
  BY <1>1 DEF Appended, Known
<1>2. CASE ReadClock
  BY <1>2 DEF ReadClock, Known
<1>3. CASE Reconcile
  BY <1>1, <1>3, ReconcileAppends
<1>4. ASSUME NEW call \in waiting \cup {Fresh}, Call(call)
      PROVE  \E now : Appended(now)
  BY <1>4, CallAppends
<1>5. CASE Tick
  BY <1>5 DEF Tick, Known
<1>. QED
  BY <1>1, <1>2, <1>3, <1>4, <1>5 DEF LineStep, Next

\* Every new row is about a claim that was touched, or about one that has just come.
LEMMA RowsAbout ==
  ASSUME LineInv, LineInv', Prompt, LineStep
  PROVE  /\ \A e \in ledger' \ ledger :
              \/ \E d \in claims : \E n, new : /\ e = n /\ e.claim = d.tx
                                           /\ Touched(d, n, new) /\ How(d, n, new, clock + 1)
              \/ \E c \in claims' \ claims :
                   /\ e.claim = c.tx
                   /\ e = Entry(c.tx, Gate(c, Measured(c, c.tx), Oracle), c.tx, "ingest", c.tx)
         /\ \A a \in assertions' \ assertions :
              \E d \in claims : \E n, new : /\ a \in new /\ a.claim = d.tx
                                        /\ Touched(d, n, new) /\ How(d, n, new, clock + 1)
<1>1. \A tx \in Known' : (\E d \in claims : d.tx = tx) \/ \E c \in claims' \ claims : c.tx = tx
  BY DEF Known
<1>2. ASSUME NEW c \in claims' \ claims PROVE JustIngested(c)
  BY <1>2, StepIngests
<1>3. ASSUME NEW d \in claims, ~Untouched(d)
      PROVE  \E n, new : Touched(d, n, new) /\ How(d, n, new, clock + 1)
  BY <1>3, StepTells DEF ToldOf
<1>4. ASSUME NEW e \in ledger' \ ledger
      PROVE  \/ \E d \in claims : \E n, new : /\ e = n /\ e.claim = d.tx
                                          /\ Touched(d, n, new) /\ How(d, n, new, clock + 1)
             \/ \E c \in claims' \ claims :
                  /\ e.claim = c.tx
                  /\ e = Entry(c.tx, Gate(c, Measured(c, c.tx), Oracle), c.tx, "ingest", c.tx)
  <2>1. e.claim \in Known'
    BY DEF LineInv, TypeOK
  <2>2. ASSUME NEW d \in claims, d.tx = e.claim
        PROVE  \E n, new : e = n /\ Touched(d, n, new) /\ How(d, n, new, clock + 1)
    <3>1. ~Untouched(d)
      BY <2>2 DEF Untouched
    <3>2. PICK n, new : Touched(d, n, new) /\ How(d, n, new, clock + 1)
      BY <1>3, <3>1
    <3>. QED
      BY <2>2, <3>2 DEF Touched
  <2>3. ASSUME NEW c \in claims' \ claims, c.tx = e.claim
        PROVE  e = Entry(c.tx, Gate(c, Measured(c, c.tx), Oracle), c.tx, "ingest", c.tx)
    BY <1>2 DEF JustIngested
  <2>. QED
    BY <1>1, <2>1, <2>2, <2>3
<1>5. ASSUME NEW a \in assertions' \ assertions
      PROVE  \E d \in claims : \E n, new : /\ a \in new /\ a.claim = d.tx
                                       /\ Touched(d, n, new) /\ How(d, n, new, clock + 1)
  <2>1. a.claim \in Known'
    BY DEF LineInv, TypeOK
  <2>2. ASSUME NEW d \in claims, d.tx = a.claim
        PROVE  \E n, new : a \in new /\ Touched(d, n, new) /\ How(d, n, new, clock + 1)
    <3>1. ~Untouched(d)
      BY <2>2 DEF Untouched
    <3>2. PICK n, new : Touched(d, n, new) /\ How(d, n, new, clock + 1)
      BY <1>3, <3>1
    <3>. QED
      BY <2>2, <3>2 DEF Touched
  <2>3. ~\E c \in claims' \ claims : c.tx = a.claim
    BY <1>2 DEF JustIngested
  <2>. QED
    BY <1>1, <2>1, <2>2, <2>3
<1>. QED
  BY <1>4, <1>5

\* A claim that is queued was not quarantined.
LEMMA QueuedIsCoherent ==
  ASSUME LineInv, QueuedInv, NEW c \in claims, Queued(c)
  PROVE  ~Incoherent(c)
  BY LatestOfClaim DEF IsLast, QueuedInv, Queued

\* An incumbent is handed over where its challenger starts, if that is dated: in the past.
LEMMA HandOverAt ==
  ASSUME LineInv, NEW c \in claims, ~Incoherent(c), clock < MaxClock
  PROVE  /\ HandOver(c, clock + 1) < Never
         /\ Trusted(c) => HandOver(c, clock + 1) = c.start /\ c.start <= clock
  BY LineTypes DEF HandOver, Incoherent

\* A step opens rows only for a challenger that came after its incumbent.
LEMMA RowsKept ==
  ASSUME LineInv, LineInv', Prompt, RowsInv, LineStep
  PROVE  RowsInv'
<1>. SUFFICES ASSUME NEW row \in pending'
              PROVE  /\ row.incumbent < row.challenger
                     /\ \A c \in claims' : c.tx = row.challenger => ~Incoherent(c)
  BY DEF RowsInv
<1>0. \A c, d \in claims' : c.tx = d.tx => c = d
  BY DEF LineInv, TypeOK
<1>1. CASE \E s \in pending : SamePair(row, s)
  <2>1. PICK s \in pending : SamePair(row, s)
    BY <1>1
  <2>2. s.challenger \in Known /\ claims \subseteq claims'
    BY LineTypes, RowsStay
  <2>3. PICK d \in claims : d.tx = s.challenger
    BY <2>2 DEF Known
  <2>. QED
    BY <1>0, <2>1, <2>2, <2>3 DEF SamePair, RowsInv
<1>2. ASSUME NEW c \in claims' \ claims, row.challenger = c.tx, c.tx = clock + 1,
             row.incumbent \in Known, ~Incoherent(c)
      PROVE  /\ row.incumbent < row.challenger
             /\ \A d \in claims' : d.tx = row.challenger => ~Incoherent(d)
  <2>1. row.incumbent <= clock /\ row.incumbent \in Nat /\ clock \in Nat
    BY <1>2, LineTypes DEF Known
  <2>. QED
    BY <1>0, <1>2, <2>1
<1>. QED
  BY <1>1, <1>2, StepRows

\* A step queues no claim the gate would quarantine.
LEMMA QueuedKept ==
  ASSUME LineInv, LineInv', Prompt, QueuedInv, LineStep
  PROVE  QueuedInv'
<1>. SUFFICES ASSUME NEW e \in ledger', NEW c \in claims', e.disp = "Queued", e.claim = c.tx
              PROVE  ~Incoherent(c)
  BY DEF QueuedInv
<1>0. \A x, y \in claims' : x.tx = y.tx => x = y
  BY DEF LineInv, TypeOK
<1>1. CASE e \in ledger
  <2>1. PICK d \in claims : d.tx = e.claim
    BY <1>1, LineTypes DEF Known
  <2>. QED
    BY <1>0, <1>1, <2>1, RowsStay DEF QueuedInv
<1>2. ASSUME NEW d \in claims, e.claim = d.tx, NEW n, NEW new, e = n, How(d, n, new, clock + 1)
      PROVE  ~Incoherent(c)
  <2>1. c = d
    BY <1>0, <1>2, RowsStay
  <2>2. IsNoted(d, n, new, clock + 1)
    BY <1>2, EntryFields DEF How, HandsOver, IsPreferred, IsDenied, IsDoubted, Lapses,
         IsBounded, IsReopened
  <2>. QED
    BY <1>2, <2>1, <2>2, EntryFields DEF IsNoted
<1>3. ASSUME NEW d \in claims' \ claims, e.claim = d.tx,
             e = Entry(d.tx, Gate(d, Measured(d, d.tx), Oracle), d.tx, "ingest", d.tx)
      PROVE  ~Incoherent(c)
  <2>1. c = d
    BY <1>0, <1>3
  <2>2. Gate(d, Measured(d, d.tx), Oracle) = "Queued"
    BY <1>3, EntryFields
  <2>. QED
    BY <2>1, <2>2 DEF Gate
<1>. QED
  BY <1>1, <1>2, <1>3, RowsAbout

\* What the eight ways to touch a claim write.
LEMMA HowWrites ==
  ASSUME LineInv, LineInv', Prompt, QueuedInv, LineStep, NEW d \in claims, NEW n, NEW new,
         Touched(d, n, new), How(d, n, new, clock + 1)
  PROVE  /\ n.claim = d.tx /\ n.at = clock + 1 /\ n \in ledger' /\ clock' = clock + 1
         /\ \A a \in new : /\ a.claim = d.tx /\ a.asserted = clock + 1 /\ a \in assertions'
                           /\ a.at < Never
                           /\ a.kind = "Reopen" => a.at = clock + 1 /\ n.disp = "Reinstated"
                           /\ a.kind = "Bound" => n.disp = "Superseded"
         /\ n.disp = "Superseded" => \E a \in new : a.kind = "Bound"
<1>1. n.claim = d.tx /\ n \in ledger' /\ new \subseteq assertions'
  BY DEF Touched
<1>2. n.at = clock + 1
  BY EntryFields DEF How, HandsOver, IsPreferred, IsDenied, IsDoubted, Lapses, IsBounded, IsReopened,
       IsNoted
<1>3. clock \in Nat /\ clock + 1 < Never /\ clock' = clock + 1 /\ clock < MaxClock
  <2>1. n \notin ledger
    BY <1>2, LineTypes
  <2>2. ~Untouched(d)
    BY <1>1, <2>1 DEF Untouched
  <2>3. clock' = clock + 1
    BY <2>2, StepTells
  <2>4. clock' <= MaxClock
    BY SubjectLineAssumption DEF LineInv, TypeOK
  <2>. QED
    BY <2>3, <2>4, LineTypes
<1>9. ASSUME NEW at, at < Never, new = {Assertion(d.tx, "Bound", at, clock + 1)}, n.disp = "Superseded"
      PROVE  /\ \A a \in new : /\ a.claim = d.tx /\ a.asserted = clock + 1 /\ a \in assertions'
                               /\ a.at < Never
                               /\ a.kind = "Reopen" => a.at = clock + 1 /\ n.disp = "Reinstated"
                               /\ a.kind = "Bound" => n.disp = "Superseded"
             /\ \E a \in new : a.kind = "Bound"
  <2>1. PICK b : b = Assertion(d.tx, "Bound", at, clock + 1)
    OBVIOUS
  <2>2. b.claim = d.tx /\ b.kind = "Bound" /\ b.at = at /\ b.asserted = clock + 1
    BY <2>1, AssertionFields
  <2>3. new = {b}
    BY <1>9, <2>1
  <2>. QED
    BY <1>1, <1>9, <2>2, <2>3
<1>4. CASE HandsOver(d, n, new, clock + 1)
  <2>1. PICK c \in claims : /\ n = Entry(d.tx, "Superseded", clock + 1, "affirm", c.tx)
                            /\ new = {Assertion(d.tx, "Bound", HandOver(c, clock + 1), clock + 1)}
                            /\ Queued(c)
    BY <1>4 DEF HandsOver, Bounding
  <2>2. HandOver(c, clock + 1) < Never
    BY <1>3, <2>1, QueuedIsCoherent, HandOverAt
  <2>3. n.disp = "Superseded"
    BY <2>1, EntryFields
  <2>. QED
    BY <1>1, <1>2, <1>3, <1>9, <2>1, <2>2, <2>3
<1>5. CASE IsBounded(d, n, new, clock + 1)
  <2>1. PICK at \in BoundAt : new = {Assertion(d.tx, "Bound", at, clock + 1)}
    BY <1>5 DEF IsBounded, Bounding
  <2>2. at < Never
    BY SubjectLineAssumption
  <2>3. n.disp = "Superseded"
    BY <1>5, EntryFields DEF IsBounded
  <2>. QED
    BY <1>1, <1>2, <1>3, <1>9, <2>1, <2>2, <2>3
<1>6. CASE IsDenied(d, n, new, clock + 1)
  <2>1. n.disp = "Superseded" /\ new = {Assertion(d.tx, "Bound", clock + 1, clock + 1)}
    BY <1>6, EntryFields DEF IsDenied, Bounding
  <2>. QED
    BY <1>1, <1>2, <1>3, <1>9, <2>1
<1>7. CASE IsReopened(d, n, new, clock + 1)
  <2>1. n.disp = "Reinstated" /\ new = {Assertion(d.tx, "Reopen", clock + 1, clock + 1)}
    BY <1>7, EntryFields DEF IsReopened
  <2>2. PICK b : b = Assertion(d.tx, "Reopen", clock + 1, clock + 1)
    OBVIOUS
  <2>3. b.claim = d.tx /\ b.kind = "Reopen" /\ b.at = clock + 1 /\ b.asserted = clock + 1
    BY <2>2, AssertionFields
  <2>. QED
    BY <1>1, <1>2, <1>3, <2>1, <2>2, <2>3
<1>8. CASE \/ IsPreferred(d, n, new, clock + 1) \/ IsDoubted(d, n, new, clock + 1)
           \/ Lapses(d, n, new, clock + 1) \/ IsNoted(d, n, new, clock + 1)
  <2>1. new = {} /\ n.disp # "Superseded"
    BY <1>8, EntryFields DEF IsPreferred, IsDoubted, Lapses, IsNoted
  <2>. QED
    BY <1>1, <1>2, <1>3, <2>1
<1>. QED
  BY <1>4, <1>5, <1>6, <1>7, <1>8 DEF How

\* A step that writes an assertion tells it in the ledger, and the reverse.
LEMMA ToldKept ==
  ASSUME LineInv, LineInv', Prompt, QueuedInv, ToldInv, LineStep
  PROVE  ToldInv'
<1>1. ASSUME NEW a \in assertions'
      PROVE  /\ a.at < Never
             /\ a.kind = "Reopen" => a.at = a.asserted
             /\ \E e \in ledger' : /\ e.claim = a.claim /\ e.at = a.asserted
                                   /\ e.disp = IF a.kind = "Bound" THEN "Superseded" ELSE "Reinstated"
  <2>1. CASE a \in assertions
    BY <2>1, RowsStay DEF ToldInv
  <2>2. CASE a \notin assertions
    <3>0. PICK d \in claims : \E n, new : /\ a \in new /\ a.claim = d.tx
                                         /\ Touched(d, n, new) /\ How(d, n, new, clock + 1)
      BY <2>2, RowsAbout
    <3>1. PICK n, new : /\ a \in new /\ a.claim = d.tx
                        /\ Touched(d, n, new) /\ How(d, n, new, clock + 1)
      BY <3>0
    <3>2. a.kind \in {"Bound", "Reopen"}
      BY DEF LineInv, TypeOK
    <3>. QED
      BY <3>1, <3>2, HowWrites
  <2>. QED
    BY <2>1, <2>2
<1>2. ASSUME NEW e \in ledger', e.disp = "Superseded"
      PROVE  \E a \in assertions' : a.claim = e.claim /\ a.asserted = e.at /\ a.kind = "Bound"
  <2>1. CASE e \in ledger
    BY <1>2, <2>1, RowsStay DEF ToldInv
  <2>2. ASSUME NEW d \in claims, NEW n, NEW new, e = n,
               Touched(d, n, new), How(d, n, new, clock + 1)
        PROVE  \E a \in assertions' : a.claim = e.claim /\ a.asserted = e.at /\ a.kind = "Bound"
    BY <1>2, <2>2, HowWrites
  <2>3. ASSUME NEW c \in claims' \ claims,
               e = Entry(c.tx, Gate(c, Measured(c, c.tx), Oracle), c.tx, "ingest", c.tx)
        PROVE  FALSE
    BY <1>2, <2>3, EntryFields, GateType
  <2>. QED
    BY <2>1, <2>2, <2>3, RowsAbout
<1>. QED
  BY <1>1, <1>2 DEF ToldInv

\* A step that ends an incumbent ends it where its challenger starts.
LEMMA HandedKept ==
  ASSUME LineInv, LineInv', Prompt, QueuedInv, HandedInv, LineStep
  PROVE  HandedInv'
<1>. SUFFICES ASSUME NEW e \in ledger', e.by = "affirm", e.disp = "Superseded"
              PROVE  /\ \E row \in pending' : row.incumbent = e.claim /\ row.challenger = e.about
                     /\ \A c \in claims' : c.tx = e.about /\ Trusted(c) =>
                          \E a \in assertions' : /\ a.claim = e.claim /\ a.asserted = e.at
                                                 /\ a.kind = "Bound" /\ a.at = c.start
  BY DEF HandedInv
<1>0. \A x, y \in claims' : x.tx = y.tx => x = y
  BY DEF LineInv, TypeOK
<1>1. CASE e \in ledger
  <2>1. PICK row \in pending : row.incumbent = e.claim /\ row.challenger = e.about
    BY <1>1 DEF HandedInv
  <2>2. PICK d \in claims : d.tx = e.about
    BY <1>1, LineTypes DEF Known
  <2>3. \E r \in pending' : SamePair(r, row)
    BY StepRows
  <2>4. \A c \in claims' : c.tx = e.about => c = d
    BY <1>0, <2>2, RowsStay
  <2>. QED
    BY <1>1, <2>1, <2>2, <2>3, <2>4, RowsStay DEF HandedInv, SamePair
<1>2. ASSUME NEW d \in claims, NEW n, NEW new, e = n, e.claim = d.tx,
             Touched(d, n, new), How(d, n, new, clock + 1)
      PROVE  /\ \E row \in pending' : row.incumbent = e.claim /\ row.challenger = e.about
             /\ \A c \in claims' : c.tx = e.about /\ Trusted(c) =>
                  \E a \in assertions' : /\ a.claim = e.claim /\ a.asserted = e.at
                                         /\ a.kind = "Bound" /\ a.at = c.start
  <2>1. HandsOver(d, n, new, clock + 1)
    BY <1>2, EntryFields DEF How, IsPreferred, IsDenied, IsDoubted, Lapses, IsBounded, IsReopened,
         IsNoted
  <2>2. PICK c \in claims : /\ n = Entry(d.tx, "Superseded", clock + 1, "affirm", c.tx)
                            /\ new = {Assertion(d.tx, "Bound", HandOver(c, clock + 1), clock + 1)}
                            /\ IsRow(d, c) /\ Queued(c)
    BY <2>1 DEF HandsOver, Bounding
  <2>3. e.about = c.tx /\ e.at = clock + 1
    BY <1>2, <2>2, EntryFields
  <2>4. PICK row \in pending : row.incumbent = d.tx /\ row.challenger = c.tx
    BY <2>2 DEF IsRow
  <2>5. \E r \in pending' : SamePair(r, row)
    BY StepRows
  <2>6. \A x \in claims' : x.tx = e.about => x = c
    BY <1>0, <2>3, RowsStay
  <2>7. Trusted(c) => HandOver(c, clock + 1) = c.start
    BY DEF HandOver
  <2>8. PICK b : b = Assertion(d.tx, "Bound", HandOver(c, clock + 1), clock + 1)
    OBVIOUS
  <2>9. /\ b \in assertions' /\ b.claim = d.tx /\ b.kind = "Bound" /\ b.asserted = clock + 1
        /\ b.at = HandOver(c, clock + 1)
    BY <1>2, <2>2, <2>8, AssertionFields DEF Touched
  <2>. QED
    BY <1>2, <2>3, <2>4, <2>5, <2>6, <2>7, <2>9 DEF SamePair
<1>3. ASSUME NEW c \in claims' \ claims,
             e = Entry(c.tx, Gate(c, Measured(c, c.tx), Oracle), c.tx, "ingest", c.tx)
      PROVE  FALSE
  BY <1>3, EntryFields
<1>. QED
  BY <1>1, <1>2, <1>3, RowsAbout

\* A step that bounds a claim nobody was measured against says that it is superseded.
LEMMA EndsKept ==
  ASSUME LineInv, LineInv', Prompt, QueuedInv, EndsInv, LineStep
  PROVE  EndsInv'
<1>. SUFFICES ASSUME NEW c \in claims', NEW a \in assertions', a.claim = c.tx, LastOf(a)',
                     a.kind = "Bound", \A row \in pending' : row.incumbent # c.tx
              PROVE  Latest(L', c).disp = "Superseded"
  BY DEF EndsInv
<1>1. c \in claims
  BY StepIngests DEF JustIngested
<1>2. \A row \in pending : row.incumbent # c.tx
  BY StepRows DEF SamePair
<1>3. a \in assertions => LastOf(a) /\ Latest(L, c).disp = "Superseded"
  <2>. SUFFICES ASSUME a \in assertions PROVE LastOf(a) /\ Latest(L, c).disp = "Superseded"
    OBVIOUS
  <2>1. LastOf(a)
    BY RowsStay DEF LastOf
  <2>. QED
    BY <1>1, <1>2, <2>1 DEF EndsInv
<1>4. CASE Untouched(c)
  BY <1>1, <1>3, <1>4, TouchedLatest DEF Untouched
<1>5. ASSUME NEW n, NEW new, Touched(c, n, new), How(c, n, new, clock + 1)
      PROVE  Latest(L', c).disp = "Superseded"
  <2>1. n.at = clock + 1 /\ Latest(L', c) = n
    BY <1>1, <1>5, HowWrites, TouchedLatest
  <2>2. new = {} => Latest(L, c).disp = "Superseded"
    BY <1>3, <1>5 DEF Touched
  <2>3. ~HandsOver(c, n, new, clock + 1)
    BY <1>2 DEF HandsOver, IsRow
  <2>4. ~IsReopened(c, n, new, clock + 1)
    <3>. SUFFICES ASSUME IsReopened(c, n, new, clock + 1) PROVE FALSE
      OBVIOUS
    <3>1. PICK b : b = Assertion(c.tx, "Reopen", clock + 1, clock + 1) /\ new = {b}
      BY DEF IsReopened
    <3>2. b.claim = c.tx /\ b.kind = "Reopen" /\ b.asserted = clock + 1
      BY <3>1, AssertionFields
    <3>3. b \in assertions' /\ a \in assertions
      BY <1>5, <3>1, <3>2 DEF Touched
    <3>4. b.asserted <= a.asserted /\ a.asserted <= clock /\ a.asserted \in Nat /\ clock \in Nat
      BY <3>2, <3>3, LineTypes DEF LastOf
    <3>. QED
      BY <3>2, <3>4
  <2>5. CASE IsNoted(c, n, new, clock + 1)
    BY <2>2, <2>5 DEF IsNoted, Live, Excluded
  <2>6. CASE IsBounded(c, n, new, clock + 1) \/ IsDenied(c, n, new, clock + 1)
    BY <2>1, <2>6, EntryFields DEF IsBounded, IsDenied
  <2>7. CASE Lapses(c, n, new, clock + 1) \/ IsPreferred(c, n, new, clock + 1) \/ IsDoubted(c, n, new, clock + 1)
    BY <1>2, <2>2, <2>7 DEF Lapses, IsPreferred, IsDoubted, Queued
  <2>. QED
    BY <1>5, <2>3, <2>4, <2>5, <2>6, <2>7 DEF How
<1>. QED
  BY <1>1, <1>4, <1>5, StepTells DEF ToldOf

\* Every step keeps what the rows tell of each other.
LEMMA PromptStep ==
  ASSUME MaxWaiting = 0, LineInv, PromptInv, LineStep
  PROVE  PromptInv'
<1>1. LineInv'
  BY LineStepKept
<1>. QED
  BY <1>1, StaysPrompt, RowsKept, QueuedKept, ToldKept, HandedKept, EndsKept DEF PromptInv

\* An empty line tells the same story twice,
LEMMA PromptInit == Init => PromptInv
  BY DEF Init, PromptInv, Prompt, RowsInv, QueuedInv, ToldInv, HandedInv, EndsInv

\* and goes on to while calls take effect in the order they read the clock.
LEMMA PromptInvariant ==
  ASSUME MaxWaiting = 0
  PROVE  Spec => []PromptInv
<1>1. LineInv /\ PromptInv /\ [Next]_vars => PromptInv'
  BY PromptStep, StutterTicks
<1>. QED
  BY <1>1, PromptInit, LineInvariant, PTL DEF Spec

-----------------------------------------------------------------------------
(* Bounds in force.                                                        *)

\* When every assertion about a claim has taken effect, the last one decides.
LEMMA BoundIsLast ==
  ASSUME LineInv, NEW c \in claims, NEW t \in Nat, clock <= t, NEW a \in assertions,
         a.claim = c.tx, LastOf(a), a.at <= t
  PROVE  ActiveBound(L, c, t) = IF a.kind = "Bound" THEN a.at ELSE Never
<1> DEFINE E == Effective(L, c, t)
           last == CHOOSE x \in E : \A b \in E : b.asserted <= x.asserted
<1>1. ActiveBound(L, c, t) = IF E # {} /\ last.kind = "Bound" THEN last.at ELSE Never
  BY DEF ActiveBound
<1>2. E = {b \in assertions : b.claim = c.tx /\ b.asserted <= t /\ b.at <= t}
  BY DEF Effective, L
<1>3. a.asserted <= t
  BY LineTypes
<1>4. a \in E /\ \A b \in E : b.asserted <= a.asserted
  BY <1>2, <1>3 DEF LastOf
<1>5. ASSUME NEW x \in E, \A b \in E : b.asserted <= x.asserted PROVE x = a
  <2>1. x.asserted = a.asserted /\ x \in assertions /\ x.claim = a.claim
    BY <1>2, <1>4, <1>5, LineTypes
  <2>. QED
    BY <2>1 DEF LineInv
<1>. HIDE DEF E
<1>6. last = a
  BY <1>4, <1>5
<1>. QED
  BY <1>1, <1>4, <1>6

\* A claim nobody said anything about has no bound.
LEMMA BoundOfNone ==
  ASSUME NEW c, NEW t, \A a \in assertions : a.claim # c.tx
  PROVE  ActiveBound(L, c, t) = Never
  BY DEF ActiveBound, Effective, L

\* Of the assertions about a claim one is the last.
LEMMA LastExists ==
  ASSUME LineInv, NEW b \in assertions
  PROVE  \E a \in assertions : a.claim = b.claim /\ LastOf(a)
<1> DEFINE E == {a \in assertions : a.claim = b.claim}
           T == {clock - a.asserted : a \in E}
<1>1. \A a \in E : a.asserted \in Nat /\ clock - a.asserted \in Nat
  BY LineTypes
<1>2. T \subseteq Nat /\ T # {}
  BY <1>1
<1>. HIDE DEF T
<1>3. PICK n \in T : \A m \in T : n <= m
  BY <1>2, LeastNat
<1>4. PICK a \in E : n = clock - a.asserted
  BY <1>3 DEF T
<1>5. ASSUME NEW x \in E PROVE x.asserted <= a.asserted
  <2>1. clock - x.asserted \in T
    BY DEF T
  <2>2. clock - a.asserted <= clock - x.asserted
    BY <1>3, <1>4, <2>1
  <2>. QED
    BY <1>1, <2>2, LineTypes
<1>. QED
  BY <1>5 DEF LastOf

\* An end in the ledger that is the last entry is the last assertion's, and a claim whose last
\* entry is no end and no reopening has entries later than every assertion about it.
LEMMA EndIsLast ==
  ASSUME LineInv, ToldInv, NEW c \in claims, NEW a \in assertions, a.claim = c.tx,
         a.asserted = Latest(L, c).at
  PROVE  LastOf(a)
<1>1. IsLast(Latest(L, c), c.tx)
  BY LatestOfClaim
<1>2. ASSUME NEW b \in assertions, b.claim = c.tx PROVE b.asserted <= a.asserted
  <2>1. PICK e \in ledger : e.claim = c.tx /\ e.at = b.asserted
    BY <1>2 DEF ToldInv
  <2>. QED
    BY <1>1, <2>1 DEF IsLast
<1>. QED
  BY <1>2 DEF LastOf

-----------------------------------------------------------------------------
(* Handing a line over.                                                    *)

\* A challenger that a verdict preferred last, and against whom nobody was measured, is bounded by
\* nothing.
LEMMA PreferredIsUnbounded ==
  ASSUME LineInv, PromptInv, NEW c \in claims, Latest(L, c).disp = "Cheap",
         \A row \in pending : row.incumbent # c.tx
  PROVE  ActiveBound(L, c, clock) = Never
<1>1. CASE \A a \in assertions : a.claim # c.tx
  BY <1>1, BoundOfNone
<1>2. CASE \E a \in assertions : a.claim = c.tx
  <2>1. PICK a \in assertions : a.claim = c.tx /\ LastOf(a)
    BY <1>2, LastExists
  <2>2. a.kind = "Reopen"
    BY <2>1, LineTypes DEF PromptInv, EndsInv
  <2>3. a.at <= clock
    BY <2>2, LineTypes DEF PromptInv, ToldInv
  <2>. QED
    BY <2>1, <2>2, <2>3, BoundIsLast, LineTypes
<1>. QED
  BY <1>1, <1>2

\* An incumbent that a verdict ended last is bounded where its challenger, if dated, starts.
LEMMA EndedAtStart ==
  ASSUME LineInv, PromptInv, NEW i \in claims, NEW c \in claims,
         Latest(L, i).disp = "Superseded", Latest(L, i).by = "affirm", Latest(L, i).about = c.tx,
         Trusted(c)
  PROVE  ActiveBound(L, i, clock) = c.start /\ c.start < Never /\ c.start <= clock
<1>1. PICK e : e = Latest(L, i) /\ e \in ledger /\ e.claim = i.tx
  BY LatestOfClaim DEF IsLast
<1>2. PICK a \in assertions : a.claim = i.tx /\ a.asserted = e.at /\ a.kind = "Bound" /\ a.at = c.start
  BY <1>1 DEF PromptInv, HandedInv
<1>3. PICK row \in pending : row.challenger = c.tx
  BY <1>1 DEF PromptInv, HandedInv
<1>4. ~Incoherent(c)
  BY <1>3 DEF PromptInv, RowsInv
<1>5. c.start <= clock /\ c.start < Never
  BY <1>4, LineTypes DEF Incoherent
<1>6. LastOf(a)
  BY <1>1, <1>2, EndIsLast DEF PromptInv
<1>. QED
  BY <1>2, <1>5, <1>6, BoundIsLast, LineTypes

\* The two claims of a line that was handed over share its instants.
LEMMA HandedOverShares ==
  ASSUME LineInv, PromptInv
  PROVE  AffirmedHandsOver
<1>. SUFFICES ASSUME NEW row \in pending,
                     NEW c, c = ClaimOf(row.challenger), NEW i, i = ClaimOf(row.incumbent),
                     claims = {c, i}, Trusted(c), Trusted(i),
                     Latest(L, c).disp = "Cheap", Latest(L, c).by = "affirm",
                     Latest(L, i).disp = "Superseded", Latest(L, i).by = "affirm",
                     NEW v \in Instant
              PROVE  RecallAt(L, clock, v) = IF v >= c.start THEN IF v < c.end THEN {c} ELSE {}
                                             ELSE IF Holds(i, v) THEN {i} ELSE {}
  BY DEF AffirmedHandsOver
<1>1. c.tx = row.challenger /\ i.tx = row.incumbent /\ i.tx < c.tx /\ c \in claims /\ i \in claims
  BY LineTypes, ClaimOfKnown DEF PromptInv, RowsInv
<1>2. c # i /\ c.tx \in Nat /\ i.tx \in Nat
  BY <1>1, LineTypes
<1>3. \A r \in pending : r.incumbent # c.tx
  <2>. SUFFICES ASSUME NEW r \in pending, r.incumbent = c.tx PROVE FALSE
    OBVIOUS
  <2>1. r.challenger \in Known /\ c.tx < r.challenger
    BY LineTypes DEF PromptInv, RowsInv
  <2>2. r.challenger \in {c.tx, i.tx}
    BY <2>1 DEF Known
  <2>. QED
    BY <1>1, <1>2, <2>1, <2>2
<1>4. ActiveBound(L, c, clock) = Never
  BY <1>1, <1>3, PreferredIsUnbounded
<1>5. Latest(L, i).about = c.tx
  <2>1. PICK e : e = Latest(L, i) /\ e \in ledger /\ e.claim = i.tx
    BY <1>1, LatestOfClaim DEF IsLast
  <2>2. PICK r \in pending : r.incumbent = i.tx /\ r.challenger = e.about
    BY <2>1 DEF PromptInv, HandedInv
  <2>3. i.tx < r.challenger /\ r.challenger \in Known
    BY <2>2, LineTypes DEF PromptInv, RowsInv
  <2>4. r.challenger \in {c.tx, i.tx}
    BY <2>3 DEF Known
  <2>. QED
    BY <1>2, <2>1, <2>2, <2>3, <2>4
<1>6. ActiveBound(L, i, clock) = c.start /\ c.start < Never
  BY <1>1, <1>5, EndedAtStart
<1>7. /\ c.start \in Nat /\ c.end \in Nat /\ i.start \in Nat /\ i.end \in Nat
      /\ c.end <= Never /\ i.end <= Never /\ Never \in Nat /\ v \in Nat
  BY <1>1, LineTypes DEF Instant
<1> DEFINE W(d) == Window(L, d, clock)
<1>8. /\ W(c).start = c.start /\ W(c).end = c.end /\ Trusted(W(c)) /\ W(c).tx = c.tx
      /\ W(i).start = i.start /\ W(i).end = Least(i.end, c.start) /\ Trusted(W(i)) /\ W(i).tx = i.tx
  BY <1>1, <1>4, <1>6, <1>7, WindowOf DEF Least
<1>9. Reentrant(L, clock) = {c, i}
  <2>1. Live(L, c, clock) /\ ~HardExcluded(L, c)
    BY <1>4 DEF Live, Excluded, HardExcluded
  <2>2. ~HardExcluded(L, i) /\ ~Denied(L, i) /\ ActiveBound(L, i, clock) # Never
    BY <1>6, <1>7 DEF HardExcluded, Denied
  <2>. QED
    BY <2>1, <2>2 DEF Reentrant, L
<1>. HIDE DEF W
<1>10. {W(d) : d \in {c, i}} = {W(c), W(i)}
  OBVIOUS
<1>11. Succession({W(c), W(i)})
  <2>1. Apart(W(c), W(i)) /\ Apart(W(i), W(c))
    BY <1>7, <1>8 DEF Apart, Least
  <2>. QED
    BY <1>8, <2>1 DEF Succession
<1>12. Narrowed(L, clock, v) = {d \in {c, i} : Holds(W(d), v)}
  BY <1>9, <1>10, <1>11 DEF Narrowed, W
<1>13. Holds(W(c), v) <=> c.start <= v /\ v < c.end
  BY <1>8 DEF Holds
<1>14. Holds(W(i), v) <=> v < c.start /\ Holds(i, v)
  BY <1>7, <1>8 DEF Holds, Least
<1>15. RecallAt(L, clock, v) = {d \in {c, i} : Holds(W(d), v)}
  BY <1>12, ReadsAll
<1>16. CASE v >= c.start
  BY <1>2, <1>7, <1>13, <1>14, <1>15, <1>16
<1>17. CASE ~(v >= c.start)
  BY <1>2, <1>7, <1>13, <1>14, <1>15, <1>17
<1>. QED
  BY <1>16, <1>17

\* Once an affirmed challenger and its incumbent are all there is on the line, both dated, each
\* instant belongs to exactly one of them (bound_claim at the challenger's start,
\* submit_adjudication.rs); when calls take effect in the order they read the clock.
THEOREM HandOverIsExact ==
  ASSUME MaxWaiting = 0
  PROVE  Spec => []AffirmedHandsOver
<1>1. LineInv /\ PromptInv => AffirmedHandsOver
  BY HandedOverShares
<1>. QED
  BY <1>1, LineInvariant, PromptInvariant, PTL

-----------------------------------------------------------------------------
(* What is committed silently.                                             *)

\* A claim c that was committed without a conflict, and an older claim d of another value that
\* nothing brought back since; of NothingCommittedSilently.
SilentPair(c, d) ==
  /\ d.tx < c.tx /\ c.value # d.value /\ Trusted(c) /\ Trusted(d)
  /\ Latest(L, c).disp = "Cheap" /\ Latest(L, c).by = "ingest" /\ ~EndedAhead(d.tx)
  /\ \A e \in ledger : e.claim = d.tx =>
       e.disp # "Quarantined" /\ (e.by \in {"reopen", "affirm", "unknown"} => e.at < c.tx)

SilentInv ==
  \A c, d \in claims : SilentPair(c, d) /\ d \in Reentrant(L, clock) => Apart(c, Window(L, d, clock))

\* A claim that is not ended ahead is out only when its denial is what was said last.
LEMMA OutIsDenied ==
  ASSUME LineInv, PromptInv, NEW d \in claims, ~EndedAhead(d.tx), Latest(L, d).disp # "Quarantined",
         d \notin Reentrant(L, clock)
  PROVE  Denied(L, d)
<1>. SUFFICES ASSUME ~Denied(L, d) PROVE FALSE
  OBVIOUS
<1>1. ActiveBound(L, d, clock) = Never /\ ~Live(L, d, clock)
  BY DEF Reentrant, HardExcluded, L
<1>2. Latest(L, d).disp = "Superseded"
  BY <1>1 DEF Live, Excluded
<1>3. Latest(L, d) \in ledger /\ Latest(L, d).claim = d.tx
  BY LatestOfClaim DEF IsLast
<1>4. PICK a \in assertions : a.claim = d.tx /\ a.asserted = Latest(L, d).at /\ a.kind = "Bound"
  BY <1>2, <1>3 DEF PromptInv, ToldInv
<1>5. LastOf(a)
  BY <1>4, EndIsLast DEF PromptInv
<1>6. a.at <= clock /\ a.at < Never
  BY <1>4, LineTypes DEF EndedAhead, PromptInv, ToldInv
<1>. QED
  BY <1>1, <1>4, <1>5, <1>6, BoundIsLast, LineTypes

\* A denied claim is out.
LEMMA DeniedIsOut ==
  ASSUME NEW M, NEW d, Denied(M, d), NEW t
  PROVE  d \notin Reentrant(M, t) /\ ~Live(M, d, t)
  BY DEF Denied, Reentrant, Live, Excluded

\* Without a new assertion a claim keeps its bound, once all have taken effect.
LEMMA BoundKept ==
  ASSUME LineInv, NEW d, ~EndedAhead(d.tx), NEW t \in Nat, clock <= t,
         \A a : a.claim = d.tx => (a \in assertions' <=> a \in assertions)
  PROVE  /\ ActiveBound(L', d, t) = ActiveBound(L, d, clock)
         /\ ActiveBound(L, d, t) = ActiveBound(L, d, clock)
<1>1. L'.assertions = assertions' /\ L.assertions = assertions
  BY DEF L
<1>2. \A a \in assertions : a.claim = d.tx => a.asserted <= clock /\ a.at <= clock /\ a.asserted <= t /\ a.at <= t
  BY LineTypes DEF EndedAhead
<1>3. /\ Effective(L', d, t) = {a \in assertions : a.claim = d.tx}
      /\ Effective(L, d, t) = {a \in assertions : a.claim = d.tx}
      /\ Effective(L, d, clock) = {a \in assertions : a.claim = d.tx}
  BY <1>1, <1>2 DEF Effective
<1>4. \A M, u : ActiveBound(M, d, u) = BoundOf(Effective(M, d, u))
  BY DEF ActiveBound, BoundOf
<1>. QED
  BY <1>3, <1>4

\* What the window of a claim is, and whether it re-enters, after a step that gives it no bound.
LEMMA ReentersAsBefore ==
  ASSUME LineInv, NEW d \in claims, NEW t \in Nat, clock <= t, ~EndedAhead(d.tx),
         \A a : a.claim = d.tx => (a \in assertions' <=> a \in assertions)
  PROVE  Window(L', d, t) = Window(L, d, clock)
  BY BoundKept DEF Window

\* A claim that the gate has just let in without a conflict is apart from what was there.
LEMMA SilentIngest ==
  ASSUME LineInv, LineInv', PromptInv, LineStep, NEW c \in claims' \ claims, NEW d \in claims,
         SilentPair(c, d)', (d \in Reentrant(L, clock))'
  PROVE  Apart(c, Window(L', d, clock'))
<1>1. JustIngested(c)
  BY StepIngests DEF PromptInv
<1>2. PICK now \in Nat : now = clock + 1 /\ c.tx = now /\ clock' = now
  BY <1>1, LineTypes DEF JustIngested
<1>3. d \in Reentrant(L', now)
  BY <1>2
<1>4. Gate(c, Measured(c, now), Oracle) = "Cheap"
  <2>1. PICK e : e = Entry(now, Gate(c, Measured(c, now), Oracle), now, "ingest", now)
    OBVIOUS
  <2>2. e \in ledger' /\ e.claim = c.tx /\ e.at = now /\ e.disp = Gate(c, Measured(c, now), Oracle)
    BY <1>1, <1>2, <2>1, EntryFields DEF JustIngested
  <2>3. \A f \in ledger' : f.claim = c.tx => f = e
    BY <1>1, <1>2, <2>1 DEF JustIngested
  <2>4. Latest(L', c) = e
    BY <2>2, <2>3, LatestNext DEF IsLast
  <2>5. Latest(L', c).disp = "Cheap"
    BY DEF SilentPair
  <2>. QED
    BY <2>2, <2>4, <2>5
<1>5. ~Measured(c, now)
  BY <1>4 DEF Gate
<1>6. L'.assertions = assertions /\ L.assertions = assertions /\ d.tx # c.tx /\ d \in claims'
  BY <1>1, <1>2, LineTypes DEF JustIngested, L
<1>7. \A e : e.claim = d.tx => (e \in ledger' <=> e \in ledger)
  BY <1>1, <1>6, EntryFields DEF JustIngested
<1>8. Latest(L', d) = Latest(L, d)
  BY <1>6, <1>7, LatestKept
<1>9. ActiveBound(L', d, now) = ActiveBound(L, d, now)
  BY <1>6 DEF ActiveBound, Effective
<1>10. d \in Reentrant(L, now) /\ Window(L', d, now) = Window(L, d, now)
  BY <1>3, <1>8, <1>9 DEF Reentrant, HardExcluded, Live, Excluded, Denied, Window, L
<1> DEFINE r == IF Live(L, d, now) THEN d ELSE Window(L, d, now)
<1>11. r \in Rivals(L, now)
  BY <1>10 DEF Rivals
<1>12. r.start = d.start /\ r.value = d.value /\ r.tx = d.tx /\ r.end = Window(L, d, now).end
  <2>1. Live(L, d, now) => Window(L, d, now).end = d.end
    BY WindowOf, LineTypes DEF Live, Least
  <2>. QED
    BY <2>1, WindowOf
<1>. HIDE DEF r
<1>13. c.value # d.value /\ Trusted(c) /\ Trusted(d)
  BY DEF SilentPair
<1>14. PICK i \in Incumbent(Fold(L, now, now), Rivals(L, now)) : TRUE
  BY <1>11 DEF Incumbent
<1>15. Restates(c, i, Rivals(L, now)) \/ Succession({c} \cup Rivals(L, now))
  BY <1>5 DEF Measured, Conflicts
<1>16. Apart(c, r)
  <2>1. CASE Restates(c, i, Rivals(L, now))
    BY <1>11, <1>12, <1>13, <2>1 DEF Restates, Trusted
  <2>2. CASE Succession({c} \cup Rivals(L, now))
    BY <1>6, <1>11, <1>12, <2>2 DEF Succession
  <2>. QED
    BY <1>15, <2>1, <2>2
<1>. QED
  BY <1>2, <1>10, <1>12, <1>16, WindowOf DEF Apart

\* A claim that was never ended ahead reads the same bound from now on.
LEMMA BoundHolds ==
  ASSUME LineInv, NEW d, ~EndedAhead(d.tx), NEW t \in Nat, clock <= t
  PROVE  ActiveBound(L, d, t) = ActiveBound(L, d, clock)
<1>1. L.assertions = assertions
  BY DEF L
<1>2. \A a \in assertions : a.claim = d.tx => a.asserted <= clock /\ a.at <= clock /\ a.asserted <= t /\ a.at <= t
  BY LineTypes DEF EndedAhead
<1>3. Effective(L, d, t) = Effective(L, d, clock)
  BY <1>1, <1>2 DEF Effective
<1>. QED
  BY <1>3 DEF ActiveBound

\* A pair that is silent after a step, of claims that were there, was silent before it, and
\* nothing brought the older claim back meanwhile.
LEMMA SilentBefore ==
  ASSUME LineInv, LineInv', PromptInv, LineStep, NEW c \in claims, NEW d \in claims,
         SilentPair(c, d)'
  PROVE  /\ SilentPair(c, d) /\ ~EndedAhead(d.tx)' /\ Latest(L, d).disp # "Quarantined"
         /\ \A n, new : /\ Touched(d, n, new) /\ n.at = clock + 1
                        => n.by \notin {"reopen", "affirm", "unknown"}
<1>1. c \in claims' /\ d \in claims' /\ ledger \subseteq ledger' /\ assertions \subseteq assertions'
  BY RowsStay
<1>2. Latest(L', c) = Latest(L, c)
  <2>1. Prompt
    BY DEF PromptInv
  <2>2. ASSUME ~Untouched(c) PROVE FALSE
    <3>1. PICK n, new : Touched(c, n, new) /\ How(c, n, new, clock + 1)
      BY <2>1, <2>2, StepTells DEF ToldOf
    <3>2. n.at = clock + 1 /\ n.by # "ingest"
      BY <3>1, EntryFields
         DEF How, HandsOver, IsPreferred, IsDenied, IsDoubted, Lapses, IsBounded, IsReopened, IsNoted
    <3>3. Latest(L', c) = n
      BY <1>1, <3>1, <3>2, TouchedLatest
    <3>. QED
      BY <3>2, <3>3 DEF SilentPair
  <2>. QED
    BY <1>1, <2>2, TouchedLatest
<1>3. ~EndedAhead(d.tx)' /\ ~EndedAhead(d.tx)
  BY <1>1 DEF SilentPair, EndedAhead
<1>4. \A e \in ledger : e.claim = d.tx =>
        e.disp # "Quarantined" /\ (e.by \in {"reopen", "affirm", "unknown"} => e.at < c.tx)
  BY <1>1 DEF SilentPair
<1>5. SilentPair(c, d)
  BY <1>2, <1>3, <1>4 DEF SilentPair
<1>6. Latest(L, d).disp # "Quarantined"
  BY <1>4, LatestOfClaim DEF IsLast
<1>7. ASSUME NEW n, NEW new, Touched(d, n, new), n.at = clock + 1
      PROVE  n.by \notin {"reopen", "affirm", "unknown"}
  <2>1. n \in ledger' /\ n.claim = d.tx
    BY <1>7 DEF Touched
  <2>2. ~(n.at < c.tx)
    BY <1>7, LineTypes
  <2>. QED
    BY <2>1, <2>2 DEF SilentPair
<1>. QED
  BY <1>3, <1>5, <1>6, <1>7

\* A bound is an instant after a step, too.
LEMMA BoundNext ==
  LineInv' => \A c, t : ActiveBound(L', c, t) \in Nat
<1>1. (LineInv => \A c, t : ActiveBound(L, c, t) \in Nat)'
  <2>1. LineInv => \A c, t : ActiveBound(L, c, t) \in Nat
    BY BoundType
  <2>. QED
    BY <2>1, PTL
<1>. QED
  BY <1>1

\* What a step leaves apart, or brings to an end, was apart.
LEMMA SilentKept ==
  ASSUME LineInv, LineInv', PromptInv, SilentInv, LineStep, NEW c \in claims, NEW d \in claims,
         SilentPair(c, d)', (d \in Reentrant(L, clock))'
  PROVE  Apart(c, Window(L', d, clock'))
<1>1. /\ SilentPair(c, d) /\ ~EndedAhead(d.tx)' /\ ~EndedAhead(d.tx)
      /\ Latest(L, d).disp # "Quarantined" /\ Prompt /\ d \in claims'
  BY SilentBefore, RowsStay DEF SilentPair, PromptInv
<1>2. d \in Reentrant(L', clock')
  OBVIOUS
<1>3. clock \in Nat /\ clock' \in Nat /\ clock <= clock'
  BY <1>1, LineTypes, StepTells
<1>4. ASSUME d \in Reentrant(L, clock) PROVE Apart(c, Window(L, d, clock))
  BY <1>1, <1>4 DEF SilentInv
<1>5. ASSUME d \notin Reentrant(L, clock) PROVE Denied(L, d)
  BY <1>1, <1>5, OutIsDenied
<1>6. CASE Untouched(d)
  <2>1. Latest(L', d) = Latest(L, d)
    BY <1>1, <1>6, TouchedLatest
  <2>2. Denied(L, d) => d \notin Reentrant(L', clock')
    BY <2>1, DeniedIsOut DEF Denied
  <2>3. Window(L', d, clock') = Window(L, d, clock)
    BY <1>1, <1>3, <1>6, ReentersAsBefore DEF Untouched
  <2>. QED
    BY <1>2, <1>4, <1>5, <2>2, <2>3
<1>7. ASSUME NEW n, NEW new, Touched(d, n, new), How(d, n, new, clock + 1)
      PROVE  Apart(c, Window(L', d, clock'))
  <2>1. n.at = clock + 1
    BY <1>7, EntryFields
       DEF How, HandsOver, IsPreferred, IsDenied, IsDoubted, Lapses, IsBounded, IsReopened, IsNoted
  <2>2. n.by \notin {"reopen", "affirm", "unknown"}
    BY <1>7, <2>1, SilentBefore
  <2>3. Latest(L', d) = n
    BY <1>1, <1>7, <2>1, TouchedLatest
  <2>4. CASE IsDenied(d, n, new, clock + 1)
    <3>1. Denied(L', d)
      BY <2>3, <2>4, EntryFields DEF IsDenied, Denied
    <3>. QED
      BY <1>2, <3>1, DeniedIsOut
  <2>5. CASE Lapses(d, n, new, clock + 1) \/ IsNoted(d, n, new, clock + 1)
    <3>1. new = {} /\ (Queued(d) \/ Live(L, d, clock + 1))
      BY <2>5 DEF Lapses, IsNoted
    <3>2. ~Denied(L, d)
      BY <3>1, DeniedIsOut DEF Denied, Queued
    <3>3. Window(L', d, clock') = Window(L, d, clock)
      BY <1>1, <1>3, <1>7, <3>1, ReentersAsBefore DEF Touched
    <3>. QED
      BY <1>4, <1>5, <3>2, <3>3
  <2>6. CASE IsBounded(d, n, new, clock + 1)
    <3>1. ~Denied(L, d) /\ ActiveBound(L, d, clock + 1) = Never
      BY <2>6 DEF IsBounded
    <3>2. ActiveBound(L, d, clock) = Never
      BY <1>1, <1>3, <3>1, BoundHolds
    <3>3. Apart(c, Window(L, d, clock)) /\ Window(L, d, clock).end = d.end
      BY <1>4, <1>5, <3>1, <3>2, WindowOf, LineTypes DEF Least
    <3>4. Window(L', d, clock').end <= d.end
      BY BoundNext, WindowOf, LineTypes DEF Least
    <3>5. Window(L', d, clock').end \in Nat /\ Window(L', d, clock').start = d.start
      BY BoundNext, WindowOf, LineTypes DEF Least
    <3>. QED
      BY <3>3, <3>4, <3>5, WindowOf, LineTypes DEF Apart
  <2>. QED
    BY <1>7, <2>2, <2>4, <2>5, <2>6, EntryFields DEF How, HandsOver, IsPreferred, IsDoubted, IsReopened
<1>. QED
  BY <1>1, <1>6, <1>7, StepTells DEF ToldOf

\* The claims of a step are those it finds and one it ingests.
LEMMA SilentStep ==
  ASSUME LineInv, LineInv', PromptInv, SilentInv, LineStep
  PROVE  SilentInv'
<1>1. SUFFICES ASSUME NEW c \in claims', NEW d \in claims',
                      SilentPair(c, d)', (d \in Reentrant(L, clock))'
               PROVE  Apart(c, Window(L', d, clock'))
  BY DEF SilentInv
<1>2. d \in claims
  <2>1. CASE d \in claims' \ claims
    <3>1. d.tx = clock + 1 /\ clock' = clock + 1
      BY <2>1, StepIngests DEF PromptInv, JustIngested
    <3>2. c.tx \in Epoch + 1..clock'
      BY DEF LineInv, TypeOK
    <3>. QED
      BY <1>1, <3>1, <3>2, LineTypes DEF SilentPair
  <2>. QED
    BY <2>1
<1>3. CASE c \in claims
  BY <1>1, <1>2, <1>3, SilentKept
<1>4. CASE c \notin claims
  BY <1>1, <1>2, <1>4, SilentIngest
<1>. QED
  BY <1>3, <1>4

\* NothingCommittedSilently: a dated claim that the gate let in without a conflict stays apart from
\* every older claim of another value that nothing brought back (build_conflict_candidate_claims),
\* when calls take effect in the order they read the clock.
THEOREM NothingIsSilent ==
  ASSUME MaxWaiting = 0
  PROVE  Spec => []NothingCommittedSilently
<1>1. Init => SilentInv
  BY DEF Init, SilentInv
<1>2. (LineInv /\ LineInv' /\ PromptInv /\ SilentInv) /\ [Next]_vars => SilentInv'
  BY SilentStep, StutterTicks DEF LineStep
<1>3. SilentInv => NothingCommittedSilently
  BY DEF SilentInv, SilentPair, NothingCommittedSilently
<1>4. Spec => []PromptInv
  BY PromptInvariant
<1>. QED
  BY <1>1, <1>2, <1>3, <1>4, LineInvariant, PTL DEF Spec
=============================================================================
