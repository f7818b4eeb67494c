------------------------------ MODULE MCStorage ------------------------------
(* Two processes; rows that between them reach every column.   *)
EXTENDS Storage

CONSTANTS p, q

ClaimOf(k, c, pr, tx, s, e, cr, sg, eg) ==
  [table |-> "claims", cells |->
    [key |-> k, cardinality |-> c, provenance_label |-> pr, tx_time |-> tx, valid_time_start |-> s,
     valid_time_end |-> e, criticality |-> cr, valid_time_start_granularity |-> sg,
     valid_time_end_granularity |-> eg]]
AssertionOf(k, kind, b, bg, r, pr, at) ==
  [table |-> "assertions", cells |->
    [key |-> k, assertion_kind |-> kind, bound_at |-> b, bound_at_granularity |-> bg,
     reopen_at |-> r, provenance_label |-> pr, asserted_at |-> at]]
EntryOf(k, ev, d, at) ==
  [table |-> "ledger", cells |-> [key |-> k, event_kind |-> ev, disposition |-> d, recorded_at |-> at]]
EdgeOf(k, kind, at) ==
  [table |-> "edges", cells |-> [key |-> k, edge_kind |-> kind, created_at |-> at]]
PendingOf(k, at, due) ==
  [table |-> "pending", cells |-> [key |-> k, queued_at |-> at, expires_at |-> due]]

MCLegacy ==
  {ClaimOf(9, "Functional", "UserAsserted", 4, 0, 8, "High", Null, Null),
   AssertionOf(9, "Bound", 5, Null, Null, "UserAsserted", 6)}
MCOffer ==
  {ClaimOf(1, c, "ModelDerived", 4, 3, Null, "Low", "Year", Null) : c \in DOMAIN CardinalityText}
  \cup {ClaimOf(2, "Functional", pr, 7, Null, 6, "High", Null, "Day") : pr \in DOMAIN ProvenanceText}
  \cup {ClaimOf(2, "Functional", "UserAsserted", 5, 3, 6, cr, g, "Instant") :
          cr \in DOMAIN CriticalityText, g \in {"Month"}}
  \cup {AssertionOf(3, "Bound", 6, "Month", Null, "ExternalFirstHand", 7),
        AssertionOf(4, "Reopen", Null, Null, 5, "UserAsserted", 7)}
  \cup {EntryOf(5, ev, "Contested", 5) : ev \in {"AdjudicationExpired", "ServedAsInjected"}}
  \cup {EntryOf(5, "ClaimCommitted", d, t) : d \in {"CommittedCheap", "Rejected"}, t \in {4, 6}}
  \cup {EdgeOf(6, kind, 5) : kind \in DOMAIN EdgeKindText}
  \cup {PendingOf(7, 5, due) : due \in {Null, 6, 7}}
MCCutoff == 3..8
=============================================================================
