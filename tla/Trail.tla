-------------------------------- MODULE Trail --------------------------------
(***************************************************************************)
(* What auditors read of a memory: query_audit's pages of the ledger, the  *)
(* edges of a claim and its lineage.                                       *)
(***************************************************************************)
EXTENDS Timeline

CONSTANT
  MaxDepth     \* how far load_lineage follows edges: 64 in the code

ASSUME TrailAssumption == MaxDepth \in Nat \ {0}

\* load_ledger, of both adapters: so many entries from an instant on, the oldest.
Since(from) == {e \in ledger : e.at >= from}
Before(e, S) == Cardinality({d \in S : d.at < e.at})

\* Mutant: the newest entries are kept, as query_ledger expects of its store.
Page_Newest(from, limit) ==
  LET all == Since(from) IN {e \in all : Before(e, all) + limit >= Cardinality(all)}

Page(from, limit) == LET all == Since(from) IN {e \in all : Before(e, all) < limit}

\* AuditQueryRequest, which AuditUseCase hands on as it is: about a claim, or with 0 about none.
AuditQuery == [claim : Known \cup {0}, from : {Epoch, clock}, limit : 1..MaxCalls - 2]

\* query_ledger drops those of other claims than the one that was asked about, if one was,
\* from a page that was already cut.  (The order it answers them in is left out.)
Audit(query) == {e \in Page(query.from, query.limit) : query.claim \in {0, e.claim}}

\* load_edges_for: both directions.
EdgesOf(claim) == {e \in edges : claim \in {e[1], e[2]}}

\* load_lineage: one row for each edge and each depth it is met at.
Upward(S) == {e \in edges : e[1] \in S}
Ancestry(claim) ==
  LET level[d \in 1..MaxDepth] == Upward(IF d = 1 THEN {claim} ELSE {e[2] : e \in level[d - 1]})
  IN  UNION {level[d] \X {d} : d \in 1..MaxDepth}

-----------------------------------------------------------------------------
\* What was read stays so: the lineage of a claim that is there never changes, no edge or entry
\* goes, a page read again only grows, until it is full, and a belief read as of the same instant
\* is the same but for its age (claim_edges refuses references to claims that are not there, the
\* tables are append-only, and every read of a line cuts off what was written later).
Currencies == <<"Fresh", "AgingUnconfirmed", "Decayed">>
WhatWasReadStays ==
  [][/\ \A c \in Known : Ancestry(c)' = Ancestry(c) /\ EdgesOf(c) \subseteq EdgesOf(c)'
     /\ \A query \in AuditQuery :
          \A was \in {Audit(query)}, is \in {Audit(query)'} :
            was \subseteq is /\ (Cardinality(was) = query.limit => is = was)
     /\ \A p \in Predicate : \A M \in {Line(p)'} : \A t \in Epoch + 1..clock :
          \A was \in {QueryTool(Line(p), t, clock)}, is \in {QueryTool(M, t, clock')} :
            /\ is.reason = was.reason
            /\ \A field \in {"believed", "status", "markers"} : is.belief[field] = was.belief[field]
            /\ \E i, j \in 1..3 : /\ i <= j /\ was.belief.currency = Currencies[i]
                                 /\ is.belief.currency = Currencies[j]
            /\ was.belief.stale => is.belief.stale
    ]_<<claims, ledger, edges, clock>>
=============================================================================
