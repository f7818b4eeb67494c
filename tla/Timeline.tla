------------------------------ MODULE Timeline ------------------------------
(***************************************************************************)
(* The course of a line as hosts write and read it: end_fact, the entries  *)
(* of query_history, and query_memory's projection with the age of what it *)
(* shows.                                                                  *)
(***************************************************************************)
EXTENDS Admission

CONSTANTS
  EndText,                  \* the dates hosts end facts at (what is no date is refused, as in Refuse)
  AgingAfter, DecayedAfter  \* the ages at which a belief is aging, and decayed

ASSUME TimelineAssumption ==
  /\ \A text \in EndText : text \in Seq(Nat) /\ Parsable(text) /\ InstantOf(text) < Never
  /\ AgingAfter \in Nat /\ DecayedAfter \in Nat /\ AgingAfter <= DecayedAfter

-----------------------------------------------------------------------------
(* end_fact, its two calls at one instant: module Facade has what comes    *)
(* between them.                                                           *)

\* The gates of assert_validity, for a claim that is live.
Bounds(L, c, at) == Latest(L, c).disp # "Queued" /\ c.start <= at
NoEffect(c, at)  == c.end <= at

EndFact(p, text, origin) ==
  LET L    == Line(p)
      now  == clock + 1
      at   == InstantOf(text)
      live == Recall(L, now)
      Found(c) == origin = "external" /\ live = {c} /\ Bounds(L, c, at)
  IN  /\ clock < Epoch + MaxCalls /\ clock' = now
      /\ UNCHANGED <<claims, edges>>
      /\ \/ \E c \in live :
              /\ Found(c) /\ ~NoEffect(c, at)
              /\ assertions' = assertions \cup {[claim |-> c.tx, kind |-> "Bound", at |-> at,
                                                 asserted |-> now, text |-> text]}
              /\ ledger' = ledger \cup {[claim |-> c.tx, disp |-> "Superseded", at |-> now,
                                         by |-> "host_bound"]}
              /\ receipt' = [Answer("ended") EXCEPT !.claim = c.tx, !.disp = "Superseded"]
         \/ \E c \in live :
              /\ Found(c) /\ NoEffect(c, at)
              /\ receipt' = [Answer("no_op") EXCEPT !.claim = c.tx, !.disp = "Superseded"]
              /\ UNCHANGED <<assertions, ledger>>
         \/ /\ \A c \in live : ~Found(c)
            /\ receipt' = Answer("refused") /\ UNCHANGED <<assertions, ledger>>

\* end_fact, of the MCP server: it takes any provenance it can read, or says external.
EndFactTool(p, text) == \E origin \in Provenance : EndFact(p, text, origin)

TimelineNext == Next \/ \E p \in Predicate, text \in EndText : EndFactTool(p, text)

TimelineSpec == Init /\ [][TimelineNext]_vars

-----------------------------------------------------------------------------
(* query_history.  A stamp is an instant and the precision it was told in. *)

\* primary_key_and_granularity: a key that is a transaction time has no precision.
KeyStamp(c) == <<Key(c), IF Trusted(c) THEN PrecisionOf(c.offer, c.offer.from) ELSE NoPrecision>>

\* Mutant: a fact that was ended is shown as precisely as its own end was told.
OwnEnd_OwnPrecision(L, c, t) == <<Window(L, c, t).end, PrecisionOf(c.offer, c.offer.until)>>

\* narrowed_valid_end
OwnEnd(L, c, t) ==
  LET bound == ActiveBound(L, c, t)
      told  == {a.text : a \in {b \in Effective(L, c, t) : b.at = bound}}
  IN  IF bound < c.end THEN <<bound, Granularity(CHOOSE text \in told : TRUE)>>
      ELSE <<c.end, PrecisionOf(c.offer, c.offer.until)>>

\* compute_history_windows: the end of an entry, its own or where its successor begins.
UntilStamp(L, c, t) ==
  LET own == OwnEnd(L, c, t)
      next == KeyStamp(First(Successors(L, c)))
  IN  IF Successors(L, c) = {} \/ OverlapsNext(L, c, t) \/ own[1] <= next[1] THEN own ELSE next

\* Mutant: a conflict is looked for before the succession is narrowed.
EntryStatus_BeforeNarrowing(L, c, t) ==
  IF ~Live(L, c, t) THEN "Superseded"
  ELSE IF OverlapsNext(L, c, t) \/ HasConflict(RawLive(L, t)) THEN "Contested"
  ELSE IF c \in Fold(L, t, t) /\ c.start <= t /\ t < Until(L, c, t) THEN "Current"
  ELSE "Ended"

EntryStatus(L, c, t) ==
  LET believed == Fold(L, t, t)
  IN  IF ~Live(L, c, t) THEN "Superseded"
      ELSE IF OverlapsNext(L, c, t) \/ HasConflict(believed) THEN "Contested"
      ELSE IF c \in believed /\ c.start <= t /\ t < Until(L, c, t) THEN "Current"
      ELSE "Ended"

\* format_valid_time_endpoint
Rendered(stamp) == IF stamp[1] \in {NoStart, Never} THEN NoDate ELSE Shown(stamp[1], stamp[2])

HistoryEntry(L, c, t) ==
  [claim |-> c, status |-> EntryStatus(L, c, t), end |-> UntilStamp(L, c, t)[1],
   from  |-> Rendered(<<c.start, PrecisionOf(c.offer, c.offer.from)>>),
   until |-> Rendered(UntilStamp(L, c, t))]

History(p) == LET L == Line(p) IN {HistoryEntry(L, c, clock) : c \in L.claims}

\* current, of History: the code stops at the first such entry.
Current(p) == {e.claim : e \in {x \in History(p) : x.status = "Current"}}

-----------------------------------------------------------------------------
(* query_memory as of t, by a call whose clock reads now.                  *)

CurrencyState(c, now) ==
  LET age == now - c.tx
  IN  IF age < AgingAfter THEN "Fresh" ELSE IF age < DecayedAfter THEN "AgingUnconfirmed" ELSE "Decayed"

\* Of a belief without a primary the first claim tells the currency, and none the staleness.
Currency(S, now)  == IF S = {} THEN "Decayed" ELSE CurrencyState(First(S), now)
Staleness(S, now) == S = {} \/ \E c \in PrimaryOf(S) : CurrencyState(c, now) = "Decayed"

\* build_markers; nothing writes what PendingReview and LowDerivationAnchor stand for.
Markers(L, S) ==
  {m \in {"Contested", "RecallTainted"} :
     IF m = "Contested" THEN StatusOf(L, S) = "Contested" ELSE \E c \in S : c.origin = "recall"}

Projection(L, t, now) ==
  LET S == Recall(L, t)
      M == AsOf(L, t)
  IN  [believed |-> S, status |-> StatusOf(M, S), markers |-> Markers(M, S),
       currency |-> Currency(S, now), stale |-> Staleness(S, now)]

\* query_memory, of the MCP server, about the past: the belief, and whether a reason comes with it.
QueryTool(L, t, now) ==
  LET belief == Projection(L, t, now)
  IN  [belief |-> belief, reason |-> belief.status \in NonCommitted]

-----------------------------------------------------------------------------
\* The history and recall agree on what holds now: of facts that conflict none is Current and all
\* are Contested, and the one fact recall gives is the only Current entry if its window holds the
\* present, unless it runs into the window of a fact that is not believed.  Entries that conflict
\* with nothing and were not ended do not overlap in time (query_history takes windows and
\* conflicts from the fold that recall uses).
HistoryAgreesWithRecall ==
  \A p \in Predicate :
    LET L == Line(p)
        S == Believed(p, Never)
        entries == History(p)
        current == Current(p)
        RunsIntoUnbelieved(c) == OverlapsNext(L, c, clock) /\ ~Live(L, First(Successors(L, c)), clock)
    IN  /\ HasConflict(S) => /\ current = {}
                             /\ S \subseteq {e.claim : e \in {x \in entries : x.status = "Contested"}}
        /\ \A c \in PrimaryOf(S) :
             /\ current \subseteq {c}
             /\ ~RunsIntoUnbelieved(c) =>
                  (current = {c} <=>
                     c.start <= clock /\ \E e \in entries : e.claim = c /\ clock < e.end)
        /\ \A e, f \in entries :
             (/\ {e.status, f.status} \subseteq {"Current", "Ended"}
              /\ Trusted(e.claim) /\ Trusted(f.claim) /\ Key(e.claim) < Key(f.claim))
             => e.end <= f.claim.start

\* A date is shown as a host wrote it, as far as a day and a hint go, and no finer: those of a believed fact as
\* the host who told it wrote them, and the end of an entry of the history as the host wrote it
\* who told that end, ended the fact or told its successor (honest precision; the day of a
\* transaction time is the one date nobody wrote).
Written(text) == IF Len(text) <= 3 THEN text ELSE SubSeq(text, 1, 3)
Told(o, text) ==
  IF text # NoDate /\ o.binding = "mcp" /\ o.hint \in {"Year", "Month"}
    THEN SubSeq(text, 1, IF o.hint = "Year" THEN 1 ELSE 2)
    ELSE Written(text)
DatesShownAsWritten ==
  /\ \A v \in Moment : \A fact \in QuerySubject(v) : \A d \in fact.dates :
       \E c \in claims :
         /\ c.predicate = fact.predicate /\ {c.value} = fact.value
         /\ d = [from |-> Told(c.offer, c.offer.from), until |-> Told(c.offer, c.offer.until)]
  /\ \A p \in Predicate : \A e \in History(p) :
       LET own == e.claim.offer
           successors == Successors(Line(p), e.claim)
           told == {<<own.until, Told(own, own.until)>>}
                   \cup {<<a.text, Written(a.text)>> : a \in {b \in assertions : b.claim = e.claim.tx}}
                   \cup {<<d.offer.from, Told(d.offer, d.offer.from)>> : d \in {s \in successors : Trusted(s)}}
       IN  /\ e.from = Told(own, own.from)
           /\ \/ e.end = Never /\ e.until = NoDate
              \/ \E x \in told : x[1] # NoDate /\ InstantOf(x[1]) = e.end /\ e.until = x[2]
              \/ \E s \in successors : ~Trusted(s) /\ s.tx = e.end /\ e.until = Day(s.tx)
=============================================================================
