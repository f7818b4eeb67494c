------------------------------- MODULE Belief -------------------------------
(***************************************************************************)
(* What mempill believes about one subject line: the pure functions of the *)
(* decision core, which the read and the write paths share.                *)
(*                                                                         *)
(* A line L is the store's content for it: rows of claims, entries of the  *)
(* ledger and validity assertions.  A claim is identified with the instant *)
(* it was stamped with, which no two calls share.  Instants are positive;  *)
(* a start that was not stated is NoStart, an end or a bound Never.        *)
(* Cardinality is Functional throughout.                                   *)
(***************************************************************************)
EXTENDS Integers, FiniteSets

CONSTANT Never      \* later than every instant

NoStart == 0

Least(m, n) == IF m <= n THEN m ELSE n

-----------------------------------------------------------------------------
(* Valid-time windows.                                                     *)

\* claim_is_trusted: a stated start, and a confidence that reaches the threshold.
Trusted(c) == c.timed /\ c.start # NoStart

\* windows_non_overlapping_bounds, over half-open windows.
Apart(c, d) == c.end <= d.start \/ d.end <= c.start

\* is_trusted_succession
Succession(S) == \A c, d \in S : Trusted(c) /\ (c # d => Apart(c, d))

Holds(c, v) == c.start <= v /\ v < c.end

\* ordering_key: the primary key, then the transaction time.
Key(c) == IF Trusted(c) THEN c.start ELSE c.tx
Precedes(c, d) == Key(c) < Key(d) \/ (Key(c) = Key(d) /\ c.tx < d.tx)
First(S) == CHOOSE c \in S : \A d \in S \ {c} : Precedes(c, d)

-----------------------------------------------------------------------------
(* Reading a line as of an instant t.                                      *)

\* Mutant: the ledger is loaded whole.
AsOf_NoLedgerCutoff(L, t) == [L EXCEPT !.claims = {c \in @ : c.tx <= t}]

\* The transaction-time cutoff of load_subject_line and load_ledger_for_claims;
\* the assertions are loaded whole.
AsOf(L, t) ==
  [L EXCEPT !.claims = {c \in L.claims : c.tx <= t}, !.ledger = {e \in L.ledger : e.at <= t}]

\* build_latest_disposition_map
Latest(L, c) ==
  CHOOSE e \in L.ledger : e.claim = c.tx /\ \A f \in L.ledger : f.claim = c.tx => f.at <= e.at

\* is_non_live_disposition
Excluded(L, c) == Latest(L, c).disp \in {"Quarantined", "Superseded"}

\* is_hard_excluded_disposition: never validly believed.
HardExcluded(L, c) == Latest(L, c).disp = "Quarantined"

\* Mutant: no marker tells a denial from any other bound.
Denied_Never(L, c) == FALSE

\* build_denied_via_adjudication_set: the latest entry is a Deny's.
Denied(L, c) == Latest(L, c).disp = "Superseded" /\ Latest(L, c).by = "deny"

\* active_bound_at: the last assertion that is visible and effective at t decides.
Effective(L, c, t) == {a \in L.assertions : a.claim = c.tx /\ a.asserted <= t /\ a.at <= t}
ActiveBound(L, c, t) ==
  LET effective == Effective(L, c, t)
      last == CHOOSE a \in effective : \A b \in effective : b.asserted <= a.asserted
  IN  IF effective # {} /\ last.kind = "Bound" THEN last.at ELSE Never

\* is_claim_live, and the disposition filter of fold's step 2.
Live(L, c, t) == ActiveBound(L, c, t) = Never /\ ~Excluded(L, c)

RawLive(L, t) == {c \in L.claims : Live(L, c, t)}

\* Mutant: the bound is forgotten.
Window_Whole(L, c, t) == c

\* claim_with_effective_window: a bound narrows a claim's own window.
Window(L, c, t) == [c EXCEPT !.end = Least(@, ActiveBound(L, c, t))]

-----------------------------------------------------------------------------
(* fold and its re-derivation for an explicit instant.                     *)

\* Mutant: of claims that are no succession the newest wins.
Fold_Newest(L, t, v) ==
  LET live == RawLive(L, t)
  IN  IF Cardinality(live) > 1 /\ Succession(live) THEN {c \in live : Holds(c, v)}
      ELSE {c \in live : \A d \in live : d.tx <= c.tx}

\* Steps 3 and 4 of fold: a succession of live claims is narrowed to the one
\* whose window contains v; anything else stays as it is.
Fold(L, t, v) ==
  LET live == RawLive(L, t)
  IN  IF Cardinality(live) > 1 /\ Succession(live) THEN {c \in live : Holds(c, v)} ELSE live

\* The claims live at t, and those an active bound closed without a denial.
Reentrant(L, t) ==
  {c \in L.claims : /\ ~HardExcluded(L, c)
                    /\ Live(L, c, t) \/ (ActiveBound(L, c, t) # Never /\ ~Denied(L, c))}

\* narrow_live_claims_for_valid_at
Narrowed(L, t, v) ==
  LET candidates == Reentrant(L, t)
  IN  IF Succession({Window(L, c, t) : c \in candidates})
        THEN {c \in candidates : Holds(Window(L, c, t), v)}
        ELSE Fold(L, t, v)

\* query_memory as of t: at the instant v, or without one.
Recall(L, t)      == Fold(AsOf(L, t), t, t)
RecallAt(L, t, v) == Narrowed(AsOf(L, t), t, v)

\* The status project gives an answer.
Status(L, S) ==
  IF S = {} THEN "NoBelief"
  ELSE IF Cardinality(S) > 1 \/ \E c \in S : Latest(L, c).disp = "Contested" THEN "Contested"
  ELSE IF \E c \in S : c.start = NoStart /\ c.end = Never THEN "TimingUncertain" ELSE "Resolved"

-----------------------------------------------------------------------------
(* query_history: the window of each entry at the instant t.              *)

Successors(L, c) == {d \in L.claims : Key(d) > Key(c)}

\* Mutant: history shows a claim's own end, bounded or not.
Until_OwnEnd(L, c, t) == c.end

Until(L, c, t) ==
  LET own  == Window(L, c, t)
      next == First(Successors(L, c))
  IN  IF \/ Successors(L, c) = {}
         \/ Trusted(c) /\ Trusted(next) /\ ~Apart(own, next)
        THEN own.end ELSE Least(own.end, Key(next))

OverlapsNext(L, c, t) ==
  /\ Successors(L, c) # {}
  /\ LET next == First(Successors(L, c))
     IN  Trusted(c) /\ Trusted(next) /\ ~Apart(Window(L, c, t), next)

-----------------------------------------------------------------------------
(* The write path: who a candidate is compared with, and what is decided.  *)

\* Mutant: only what is live counts.
Rivals_LiveOnly(L, t) == RawLive(L, t)

\* build_conflict_candidate_claims: what was bounded counts with its narrowed window.
Rivals(L, t) == {IF Live(L, c, t) THEN c ELSE Window(L, c, t) : c \in Reentrant(L, t)}

\* classify_conflict, against the values of an incumbent and of the rivals.
Restates(c, incumbent, rivals) ==
  /\ c.value = incumbent.value
  /\ \A d \in rivals : d.value # c.value /\ c.start # NoStart /\ d.start # NoStart => Apart(c, d)

Conflicts(c, incumbents, rivals) ==
  \E i \in incumbents : ~Restates(c, i, rivals) /\ ~Succession({c} \cup rivals)

\* is_temporally_incoherent: an empty window, or a start that is yet to come.
Incoherent(c) == Trusted(c) /\ (c.start > c.end \/ c.start > c.tx)

\* adjudicate
Gate(c, conflict, oracle) ==
  IF Incoherent(c) THEN "Quarantined"
  ELSE IF c.origin = "derived" THEN "Inferred"
  ELSE IF ~conflict THEN "Cheap"
  ELSE IF oracle THEN "Queued" ELSE "Contested"
=============================================================================
