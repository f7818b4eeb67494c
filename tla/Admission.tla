------------------------------ MODULE Admission ------------------------------
(***************************************************************************)
(* How a fact a host remembers enters the memory: the facade that builds   *)
(* the request, the gateway, the firewall against a model's own echoes,    *)
(* the reconciler, the gate and the append; and what query_subject then    *)
(* shows for the line it went to.  A call is one step: module Adjudication *)
(* has the steps inside, module SubjectLine what else writes to a line.    *)
(***************************************************************************)
EXTENDS Belief, Dates, SequencesExt

CONSTANTS
  Predicate,   \* the lines of the one subject
  Offer,       \* what hosts remember, and how: [value, from, until, hint, sure, origin, cardinality, binding]
  Lineage,     \* the lists of derived_from hosts may pass, out of claims and refs of none
  Oracle,      \* whether an oracle and a pending store are configured
  Epoch,       \* the clock when the engine was opened
  Asked,       \* the instants hosts ask about
  MaxCalls     \* bound: calls that reach the engine

ASSUME AdmissionAssumption ==
  /\ \A o \in Offer :
       /\ o.cardinality \in {"Functional", "SetValued", "Unknown"}
       /\ o.binding \in {"rust", "python", "mcp"}
       /\ \A text \in {o.from, o.until} :
            text \in Seq(Nat) /\ (Parsable(text) => InstantOf(text) < Never)
  /\ Asked \subseteq Nat /\ \A v \in Asked : v < Never
  /\ Oracle \in BOOLEAN /\ Epoch \in Nat \ {0} /\ MaxCalls \in Nat
  /\ Never \in Nat /\ Epoch + MaxCalls < Never

VARIABLES
  claims,   \* rows of claims
  ledger,   \* rows of ledger_entries
  edges,    \* rows of claim_edges: <<the claim, what it was derived from>>
  assertions,  \* rows of validity_assertions, which end_fact writes: module Timeline
  clock,    \* the last instant Utc::now() gave
  receipt   \* what the last call answered

vars == <<claims, ledger, edges, assertions, clock, receipt>>

Known  == {c.tx : c \in claims}
Line(p) == [claims |-> {c \in claims : c.predicate = p}, ledger |-> ledger, assertions |-> assertions]

NoReceipt == [outcome |-> "none", claim |-> 0, disp |-> "none", contested |-> {}]
Answer(outcome) == [NoReceipt EXCEPT !.outcome = outcome]

Init ==
  /\ claims = {} /\ ledger = {} /\ edges = {} /\ assertions = {}
  /\ clock = Epoch /\ receipt = NoReceipt

-----------------------------------------------------------------------------
(* The request.                                                            *)

\* _normalise_provenance, and the variants of ProvenanceLabel.
Provenance == {"external", "derived", "recall"}

\* The builder in Rust refuses an empty window, which remember in Python and the tool of the
\* MCP server let pass; the tool takes instants only.
Refused(o) ==
  \/ o.origin \notin Provenance
  \/ \E text \in {o.from, o.until} \ {NoDate} :
       ~Parsable(text) \/ (o.binding = "mcp" /\ Granularity(text) # "Instant")
  \/ o.binding = "rust" /\ NoDate \notin {o.from, o.until} /\ InstantOf(o.from) >= InstantOf(o.until)

\* remember reads the precision of a date off its text; the tool hands over the hint it got.
NoPrecision == "none"
PrecisionOf(o, text) ==
  IF text = NoDate THEN NoPrecision ELSE IF o.binding = "mcp" THEN o.hint ELSE Granularity(text)

\* stamp: remember's dates are as sure as the value, the tool's as it says.
Stamp(p, o, lineage, now) ==
  [predicate |-> p, value |-> o.value, cardinality |-> o.cardinality, origin |-> o.origin,
   start |-> IF o.from = NoDate THEN NoStart ELSE InstantOf(o.from),
   end   |-> IF o.until = NoDate THEN Never ELSE InstantOf(o.until),
   timed |-> o.sure /\ {o.from, o.until} # {NoDate},
   lineage |-> lineage, tx |-> now, offer |-> o]

\* load_injected_claims; nothing writes such an entry.
Injected == {e.claim : e \in {x \in ledger : x.by = "served"}}

\* AmplificationGuard::check: a recalled fact that says which claim it is an echo of, or may
\* be one of what was served.  No batch has a second candidate, and every depth is zero.
Echo(c) == c.origin = "recall" /\ (c.lineage # <<>> \/ Injected # {})

\* The gate; a recalled fact is let in before its dates are looked at.
Route(c, conflict) == IF c.origin = "recall" THEN "Cheap" ELSE Gate(c, conflict, Oracle)

\* Mutant: a challenger takes its incumbent out at once.
Appended_Supersedes(c, disp, incumbent) ==
  {[claim |-> c.tx, disp |-> disp, at |-> c.tx, by |-> "ingest"]} \cup
  {[claim |-> i.tx, disp |-> "Superseded", at |-> c.tx, by |-> "ingest"] :
     i \in IF disp \in {"Contested", "Queued", "Inferred"} THEN incumbent ELSE {}}

\* append_within_txn
Appended(c, disp, incumbent) == {[claim |-> c.tx, disp |-> disp, at |-> c.tx, by |-> "ingest"]}

-----------------------------------------------------------------------------
(* ingest_claim                                                            *)

\* The request is never built, which changes nothing wherever it happens: it is bounded to the start.
Refuse(o) ==
  /\ Refused(o) /\ clock = Epoch /\ receipt' = Answer("refused")
  /\ UNCHANGED <<claims, ledger, edges, clock>>

\* CorroborateByIdentity: the claim it names, which nobody looks up, and no row.
Corroborate(c) ==
  /\ Echo(c)
  /\ \E echoed \in IF c.lineage # <<>> THEN {c.lineage[1]} ELSE Injected :
        receipt' = [Answer("answered") EXCEPT !.claim = echoed, !.disp = "Cheap"]
  /\ UNCHANGED <<claims, ledger, edges>>

\* A ref of no claim, or one twice, is refused by claim_edges, and the claim goes with it.
Unlinkable(c) ==
  \/ ~(ToSet(c.lineage) \subseteq Known)
  \/ \E i, j \in DOMAIN c.lineage : i # j /\ c.lineage[i] = c.lineage[j]
RollBack(c) ==
  /\ ~Echo(c) /\ Unlinkable(c)
  /\ receipt' = Answer("failed")
  /\ UNCHANGED <<claims, ledger, edges>>

Commit(c) ==
  LET L == Line(c.predicate)
      now == c.tx
      rivals    == Rivals(L, now)
      believed  == Fold(L, now, now)
      incumbent == IF believed # {} THEN {First(believed)}
                   ELSE IF rivals # {} THEN {First(rivals)} ELSE {}
      disp      == Route(c, Conflicts(c, incumbent, rivals))
  IN  /\ ~Echo(c) /\ ~Unlinkable(c)
      /\ claims' = claims \cup {c}
      /\ ledger' = ledger \cup Appended(c, disp, incumbent)
      /\ edges'  = edges \cup {<<c.tx, r>> : r \in ToSet(c.lineage)}
      /\ receipt' = [outcome |-> "answered", claim |-> c.tx, disp |-> disp,
                     contested |-> IF disp \in {"Contested", "Queued"}
                                     THEN {i.tx : i \in incumbent} ELSE {}]

Ingest(p, o, lineage) ==
  /\ ~Refused(o) /\ clock < Epoch + MaxCalls
  /\ clock' = clock + 1
  /\ LET c == Stamp(p, o, lineage, clock + 1)
     IN  Corroborate(c) \/ RollBack(c) \/ Commit(c)

\* remember, of the facade and the package; ingest_claim, of the MCP server.
Remember(p, o, lineage)   == o.binding # "mcp" /\ (Refuse(o) \/ Ingest(p, o, lineage))
IngestTool(p, o, lineage) == o.binding = "mcp" /\ (Refuse(o) \/ Ingest(p, o, lineage))

Next ==
  /\ \E p \in Predicate, o \in Offer :
       \E lineage \in {<<>>} \cup IF o.origin = "external" THEN {} ELSE Lineage :
         Remember(p, o, lineage) \/ IngestTool(p, o, lineage)
  /\ UNCHANGED assertions

Spec == Init /\ [][Next]_vars

-----------------------------------------------------------------------------
(* What a read answers.                                                    *)

Functional(S) == {c \in S : c.cardinality = "Functional"}

\* Step 5 of fold.
HasConflict(S) ==
  Cardinality(Functional(S)) > 1 \/ (Cardinality(S) > 1 /\ \E c \in S : c.cardinality # "SetValued")

\* The dispositions and the states of belief that are no commitment, for which the tools of the
\* MCP server give a reason; PendingConflict and PendingReview are given to nothing.
NonCommitted == {"Contested", "Quarantined", "Queued"}

\* project
StatusOf(L, S) ==
  IF S = {} THEN "NoBelief"
  ELSE IF HasConflict(S) \/ \E c \in S : Latest(L, c).disp = "Contested" THEN "Contested"
  ELSE IF Cardinality(S) = 1 /\ \A c \in S : c.start = NoStart /\ c.end = Never THEN "TimingUncertain"
  ELSE "Resolved"
PrimaryOf(S) == IF Cardinality(S) = 1 /\ ~HasConflict(S) THEN S ELSE {}

\* The endpoints, as format_valid_time_endpoint renders them.
Display(c) ==
  [from  |-> IF c.start = NoStart THEN NoDate ELSE Shown(c.start, PrecisionOf(c.offer, c.offer.from)),
   until |-> IF c.end = Never THEN NoDate ELSE Shown(c.end, PrecisionOf(c.offer, c.offer.until))]

\* query_subject, now or at the instant v.
Believed(p, v) ==
  LET L == Line(p)
  IN  IF v = Never THEN Recall(L, clock) ELSE RecallAt(L, clock, v)
SubjectFact(p, v) ==
  LET S == Believed(p, v)
      shown == IF PrimaryOf(S) # {} THEN PrimaryOf(S) ELSE IF S = {} THEN {} ELSE {First(S)}
  IN  [predicate |-> p, status |-> StatusOf(Line(p), S), value |-> {c.value : c \in shown},
       dates |-> {Display(c) : c \in PrimaryOf(S)}]
\* list_predicates_for_subject
Predicates(t) == {c.predicate : c \in {d \in claims : d.tx <= t}}
QuerySubject(v) == {SubjectFact(p, v) : p \in Predicates(clock)}

-----------------------------------------------------------------------------
Moment == Asked \cup {Never}      \* Never: no instant is asked for

\* A host ended a fact of the line.
SomeEnded(p) == \E c \in Line(p).claims, a \in assertions : a.claim = c.tx

\* Two lines that were told the same, in whatever order, believe the same of every instant, as
\* long as nothing was told before it began and set-valued facts are of one value: of several, the
\* order decides which is told contested (the canonical ordering key of fold, I8).
ArrivalIndependent ==
  \A p, q \in Predicate :
    LET Told(r, o) == {c \in claims : c.predicate = r /\ c.offer = o}
        Offers(r)  == {c.offer : c \in {d \in claims : d.predicate = r}}
    IN  (/\ Offers(p) = Offers(q) /\ ~SomeEnded(p) /\ ~SomeEnded(q)
         /\ \A o \in Offers(p) : Cardinality(Told(p, o)) = Cardinality(Told(q, o))
         /\ \A c \in claims : c.start <= Epoch
         /\ \A c, d \in Line(p).claims :
              {c.cardinality, d.cardinality} = {"SetValued"} => c.value = d.value)
        => \A v \in Moment :
             /\ SubjectFact(p, v).status = SubjectFact(q, v).status
             /\ {c.offer : c \in Believed(p, v)} = {c.offer : c \in Believed(q, v)}

\* The windows of the live and of the ended claims of a line are no succession: a read of an
\* instant falls back to what is live (narrow_live_claims_for_valid_at).
FallsBack(L) ==
  LET M == AsOf(L, clock)
  IN  ~Succession({Window(M, c, clock) : c \in Reentrant(M, clock)})

\* What a model derived displaces nothing that was told from outside (V3-4), neither the derived
\* claims nor what was written with them.  A claim that holds now, and that the line would believe
\* without them, it believes; and so of every instant, with one exception, which is the code's: on
\* a line where something was ended, a derived claim may overlap the windows or be undated, so that
\* the read falls back; then what was ended is missing, and what does not hold at that instant,
\* but no live claim that does.
DerivedNeverDisplaces ==
  \A p \in Predicate :
    LET L == Line(p)
        derived == {c.tx : c \in {d \in L.claims : d.origin = "derived"}}
        without == [L EXCEPT !.claims = {c \in @ : c.tx \notin derived},
                             !.ledger = {e \in @ : e.at \notin derived}]
    IN  /\ {c \in Recall(without, clock) : Holds(c, clock)} \subseteq Recall(L, clock)
        /\ \A v \in Asked : \A c \in RecallAt(without, clock, v) \ RecallAt(L, clock, v) :
             SomeEnded(p) /\ FallsBack(L) /\ ~(Live(L, c, clock) /\ Holds(c, v))

\* A receipt and the next read agree: what a receipt says is contested is shown with what it is
\* contested with, unless the line had facts that were ended; and a fact of a value nobody else
\* has, of which the tool that ingests it gives no reason to doubt it, gives the tool that queries
\* the line none either, that was not there without it.
ReceiptTellsRead ==
  \A c \in claims :
    LET L == Line(c.predicate)
        without == [L EXCEPT !.claims = @ \ {c}]
        shown == Recall(L, clock)
        Now(M) == StatusOf(M, Recall(M, clock))
    IN  (receipt.claim = c.tx /\ c.tx = clock /\ c.origin = "external") =>
        /\ receipt.disp \in {"Contested", "Queued"} /\ ~SomeEnded(c.predicate) =>
             /\ receipt.contested # {} /\ {c.tx} \cup receipt.contested \subseteq {d.tx : d \in shown}
             /\ c.cardinality = "Functional" => Now(L) = "Contested"
        /\ (/\ receipt.disp \notin NonCommitted /\ \A d \in without.claims : d.value # c.value
            /\ Now(without) \notin NonCommitted) => Now(L) \notin NonCommitted

\* "identical value - idempotent re-statement, not a contradiction" (reconciler.rs): a line that
\* was told one value only, and only from outside, is not contested.
RestatedIsNotContested ==
  \A p \in Predicate :
    LET told == Line(p).claims
    IN  (Cardinality({c.value : c \in told}) = 1 /\ \A c \in told : c.origin = "external")
        => SubjectFact(p, Never).status # "Contested"
=============================================================================
