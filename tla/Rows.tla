-------------------------------- MODULE Rows --------------------------------
(***************************************************************************)
(* The text each column holds for a value, in both adapters, and what is   *)
(* read back from a row.                                                   *)
(*                                                                         *)
(* An instant is a number whose last two binary digits are its fraction of *)
(* a second; they stand for the groups of three decimal digits to_rfc3339  *)
(* prints as many of as it needs.  A character is its rank.                *)
(***************************************************************************)
EXTENDS Integers, Sequences, SequencesExt

CONSTANT Null    \* a cell without a value, and a field without one

-----------------------------------------------------------------------------
(* The text of an instant and its order.                                   *)

Plus == 0
Dot == 1
Digit(n) == 2 + n
Zulu == Digit(10)

\* Mutant: UTC is written Z, which sorts after the digits and the point.
Text_Zulu(n) ==
  LET s == n \div 4
      m == (n \div 2) % 2
      u == n % 2
      fraction == IF m = 0 /\ u = 0 THEN <<>>
                  ELSE <<Dot, Digit(m)>> \o IF u = 0 THEN <<>> ELSE <<Digit(u)>>
  IN  <<s>> \o fraction \o <<Zulu>>

\* to_rfc3339: as many groups of digits as there are to show, then +00:00.
Text(n) ==
  LET s == n \div 4
      m == (n \div 2) % 2
      u == n % 2
      fraction == IF m = 0 /\ u = 0 THEN <<>>
                  ELSE <<Dot, Digit(m)>> \o IF u = 0 THEN <<>> ELSE <<Digit(u)>>
  IN  <<s>> \o fraction \o <<Plus>>

\* The comparison of two TEXT cells.
UpTo(a, b) ==
  \/ a = b
  \/ \E i \in 1..Len(a) : /\ i <= Len(b) /\ a[i] < b[i]
                          /\ \A j \in 1..i - 1 : a[j] = b[j]
  \/ IsStrictPrefix(a, b)

\* parse_from_rfc3339
InstantOf(text) ==
  LET digit(i) == IF Len(text) > i + 1 THEN text[i + 1] - Digit(0) ELSE 0
  IN  4 * text[1] + 2 * digit(2) + digit(3)

\* A TIMESTAMPTZ cell keeps microseconds.
Micro(n) == 2 * (n \div 2)

-----------------------------------------------------------------------------
(* The text of a variant.                                                  *)

ProvenanceText ==
  [ModelDerived |-> "ModelDerived", RecallReEntry |-> "RecallReEntry",
   UserAsserted |-> "External_UserAsserted", ExternalFirstHand |-> "External_ExternalFirstHand"]
GranularityText == [Year |-> "year", Month |-> "month", Day |-> "day", Instant |-> "instant"]

\* Everything else is written as it is named.
Named(variants) == [v \in variants |-> v]
CardinalityText == Named({"Functional", "SetValued", "Unknown"})
CriticalityText == Named({"Low", "Medium", "High", "Critical"})
EdgeKindText    == Named({"DerivedFrom", "Supersedes", "DependsOn", "MutualExclusion"})
EventKindText   ==
  Named({"ClaimCommitted", "ValidityAsserted", "AdjudicationRequested", "AdjudicationResolved",
         "RecallReEntryDetected", "Quarantined", "DependentFlaggedPendingReview",
         "ServedAsInjected", "AdjudicationExpired"})
DispositionText ==
  Named({"CommittedCheap", "CommittedInferred", "QueuedForAdjudication", "Contested",
         "PendingConflict", "PendingReview", "PendingLowConfidence", "Quarantined",
         "Superseded", "Invalidated", "Reinstated", "Rejected"})
AssertionKindText == Named({"Bound", "Reopen"})

Granularities == {"valid_time_start_granularity", "valid_time_end_granularity", "bound_at_granularity"}
Instants == {"tx_time", "valid_time_start", "valid_time_end", "bound_at", "reopen_at", "asserted_at",
             "recorded_at", "created_at", "queued_at", "expires_at"}

\* The table of texts of a column.
Spelling(column) ==
  CASE column \in Granularities        -> GranularityText
    [] column = "provenance_label"     -> ProvenanceText
    [] column = "cardinality"          -> CardinalityText
    [] column = "criticality"          -> CriticalityText
    [] column = "edge_kind"            -> EdgeKindText
    [] column = "event_kind"           -> EventKindText
    [] column = "disposition"          -> DispositionText
    [] column = "assertion_kind"       -> AssertionKindText

Spelled == Granularities \cup {"provenance_label", "cardinality", "criticality", "edge_kind",
             "event_kind", "disposition", "assertion_kind"}

\* No cell is taken for an empty one: neither a number nor a text.
ASSUME NullAssumption ==
  /\ Null \notin Nat /\ Null \notin Seq(Nat)
  /\ \A column \in Spelled : \A v \in DOMAIN Spelling(column) : Spelling(column)[v] # Null

Stamped(adapter, column) == adapter = "postgres" /\ column \in {"queued_at", "expires_at"}
Plain(column) == column = "key"

Encode(adapter, column, v) ==
  IF v = Null \/ Plain(column)         THEN v
  ELSE IF Stamped(adapter, column)     THEN Micro(v)
  ELSE IF column \in Instants          THEN Text(v)
  ELSE Spelling(column)[v]

\* The values a text may stand for: none, when no variant is spelled like that.
Decode(adapter, column, text) ==
  LET spelled == {v \in DOMAIN Spelling(column) : Spelling(column)[v] = text}
  IN  IF text = Null \/ Plain(column) \/ Stamped(adapter, column) THEN {text}
      ELSE IF column \in Instants THEN {InstantOf(text)}
      ELSE IF column \in Granularities /\ spelled = {} THEN {Null}
      ELSE spelled

-----------------------------------------------------------------------------
(* Rows.  The columns left out hold text that no decision looks into.      *)

\* The index of a name in a list of columns.
Position(names, name) == CHOOSE i \in DOMAIN names : names[i] = name

ClaimInserted ==
  <<"key", "cardinality", "provenance_label", "tx_time", "valid_time_start", "valid_time_end",
    "criticality", "valid_time_start_granularity", "valid_time_end_granularity">>
AssertionInserted ==
  <<"key", "assertion_kind", "bound_at", "bound_at_granularity", "reopen_at",
    "provenance_label", "asserted_at">>
EntryInserted   == <<"key", "event_kind", "disposition", "recorded_at">>
EdgeInserted    == <<"key", "edge_kind", "created_at">>
PendingInserted == <<"key", "queued_at", "expires_at">>

\* CLAIM_SELECT_COLS and the other SELECT lists.
Selected(table) ==
  CASE table = "claims"     -> ClaimInserted
    [] table = "assertions" -> <<"key", "assertion_kind", "bound_at", "reopen_at", "provenance_label",
                                 "asserted_at", "bound_at_granularity">>
    [] table = "ledger"     -> EntryInserted
    [] table = "edges"      -> EdgeInserted
    [] table = "pending"    -> PendingInserted

\* row_to_claim and the other mappers: what is taken from each position.
ClaimTaken ==
  <<"key", "cardinality", "provenance_label", "tx_time", "valid_time_start", "valid_time_end",
    "criticality", "valid_time_start_granularity", "valid_time_end_granularity">>
AssertionTaken ==
  <<"key", "assertion_kind", "bound_at", "reopen_at", "provenance_label", "asserted_at",
    "bound_at_granularity">>
EntryTaken   == <<"key", "event_kind", "disposition", "recorded_at">>
EdgeTaken    == <<"key", "edge_kind", "created_at">>
PendingTaken == <<"key", "queued_at", "expires_at">>

Inserted(table) ==
  CASE table = "claims"     -> ClaimInserted
    [] table = "assertions" -> AssertionInserted
    [] table = "ledger"     -> EntryInserted
    [] table = "edges"      -> EdgeInserted
    [] table = "pending"    -> PendingInserted
Taken(table) ==
  CASE table = "claims"     -> ClaimTaken
    [] table = "assertions" -> AssertionTaken
    [] table = "ledger"     -> EntryTaken
    [] table = "edges"      -> EdgeTaken
    [] table = "pending"    -> PendingTaken

\* What a host may give: of each column of the table a value it can hold, or none.
Tables == {"claims", "assertions", "ledger", "edges", "pending"}
Values(column) == IF column \in Instants THEN Nat ELSE DOMAIN Spelling(column)
Fits(record) ==
  /\ record.table \in Tables
  /\ record = [table |-> record.table,
               cells |-> [c \in ToSet(Inserted(record.table)) |-> record.cells[c]]]
  /\ \A c \in ToSet(Inserted(record.table)) :
       Plain(c) \/ record.cells[c] = Null \/ record.cells[c] \in Values(c)

Row(adapter, record) ==
  [table |-> record.table,
   cells |-> [c \in ToSet(Inserted(record.table)) |-> Encode(adapter, c, record.cells[c])]]

\* A cell of a column that was added when the row was already there is NULL.
Cell(row, column) == IF column \in DOMAIN row.cells THEN row.cells[column] ELSE Null

\* What the mapper finds at the position it takes a field from.
ValuesOf(adapter, row, field) ==
  Decode(adapter, field, Cell(row, Selected(row.table)[Position(Taken(row.table), field)]))

Readable(adapter, row) ==
  \A field \in ToSet(Taken(row.table)) : ValuesOf(adapter, row, field) # {}
RecordOf(adapter, row) ==
  [table |-> row.table,
   cells |-> [c \in ToSet(Taken(row.table)) |-> CHOOSE v \in ValuesOf(adapter, row, c) : TRUE]]
=============================================================================
