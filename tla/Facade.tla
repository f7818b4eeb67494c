------------------------------- MODULE Facade -------------------------------
(***************************************************************************)
(* What the ergonomic layers put on top of the engine: end_fact, which     *)
(* finds the one live claim of a line and then bounds it in a second call, *)
(* and recall, which flattens a belief for the host.                       *)
(*                                                                         *)
(* Between the two calls of end_fact the line is anybody's: the first one  *)
(* takes no lock.  Module SubjectLine has the calls of everybody else.     *)
(***************************************************************************)
EXTENDS SubjectLine

CONSTANT Host       \* callers of end_fact, each of which calls it once

VARIABLE host       \* what each of them asked for, found and was told

NoClaim == 0

Said == {"closed", "no_op", "no_effect", "already_bound", "incoherent",
         "under_adjudication", "no_live_claim", "ambiguous"}

facadeVars == <<vars, host>>

FacadeInit ==
  /\ Init
  /\ host = [h \in Host |-> [pc |-> "idle", claim |-> NoClaim, at |-> 0, now |-> 0, said |-> "nothing"]]

-----------------------------------------------------------------------------
(* end_fact *)

\* resolve_live_claim_for_line: none, one, or more than anyone may choose from.
Resolve(h, at) ==
  LET now  == clock + 1
      live == Recall(L, now)
      Answered(said) == [pc |-> "answered", claim |-> NoClaim, at |-> at, now |-> now, said |-> said]
  IN  /\ host[h].pc = "idle" /\ clock < MaxClock
      /\ clock' = now
      /\ \/ live = {} /\ host' = [host EXCEPT ![h] = Answered("no_live_claim")]
         \/ Cardinality(live) > 1 /\ host' = [host EXCEPT ![h] = Answered("ambiguous")]
         \/ \E c \in live :
              /\ live = {c}
              /\ host' = [host EXCEPT ![h] = [pc |-> "resolved", claim |-> c.tx, at |-> at,
                                              now |-> now, said |-> "nothing"]]
      /\ UNCHANGED <<claims, ledger, assertions, pending, waiting>>

\* Mutant: the idempotency gate is dropped.
BoundAnswer_Again(c, at, now) ==
  IF Queued(c) \/ Denied(L, c) THEN "under_adjudication"
  ELSE IF at < c.start THEN "incoherent"
  ELSE IF c.end <= at THEN "no_effect" ELSE "closed"

\* The gates of assert_validity's Bound in their order, and what each one answers.
BoundAnswer(c, at, now) ==
  LET bound == ActiveBound(L, c, now)
  IN  IF Queued(c) \/ Denied(L, c) THEN "under_adjudication"
      ELSE IF at < c.start THEN "incoherent"
      ELSE IF bound # Never THEN IF bound = at THEN "no_op" ELSE "already_bound"
      ELSE IF c.end <= at THEN "no_effect" ELSE "closed"

\* assert_validity on the claim that was found, by a call whose clock was read later.
Close(h, call) ==
  LET c    == ClaimOf(host[h].claim)
      at   == host[h].at
      said == BoundAnswer(c, at, call.now)
  IN  /\ host[h].pc = "resolved" /\ host[h].now < call.now /\ c.tx \in call.known
      /\ Runs(call)
      /\ host' = [host EXCEPT ![h] = [@ EXCEPT !.pc = "answered", !.now = call.now, !.said = said]]
      /\ IF said = "closed"
           THEN Bounded(c.tx, at, call.now, "host_bound", c.tx)
           ELSE UNCHANGED <<assertions, ledger>>
      /\ UNCHANGED <<claims, pending>>

FacadeNext ==
  \/ Next /\ UNCHANGED host
  \/ \E h \in Host, at \in BoundAt : Resolve(h, at)
  \/ \E h \in Host : \E call \in waiting \cup {Fresh} : Close(h, call)

FacadeSpec == FacadeInit /\ [][FacadeNext]_facadeVars

-----------------------------------------------------------------------------
(* recall: what a host is shown of a belief S, which is a set of claims. *)

\* project: a primary only when one claim is live.
Primary(S) == IF Cardinality(S) = 1 THEN S ELSE {}
Alternatives(S) == S \ Primary(S)

\* Mutant: the primary of a contested belief is not among the candidates.
RustRecall_Dropped(S) ==
  LET contested == Status(L, S) = "Contested"
  IN  [value |-> IF contested THEN {} ELSE Primary(S),
       candidates |-> IF contested THEN Alternatives(S) ELSE {}]

\* A contested belief has candidates and no value: facade ergonomic.rs.
RustRecall(S) ==
  LET contested == Status(L, S) = "Contested"
  IN  [value |-> IF contested THEN {} ELSE Primary(S), candidates |-> IF contested THEN S ELSE {}]

\* In Python a claim that is alone on its line is a value, contested or not: ergonomic.py.
PythonRecall(S) ==
  [value |-> Primary(S),
   candidates |-> IF Status(L, S) = "Contested" THEN S ELSE Alternatives(S)]

-----------------------------------------------------------------------------
(* Safety. *)

Ended(h) == host[h].said \in {"closed", "no_op"}

\* Claims named by a host exist, and are what it was answered about.
FacadeTypeOK ==
  /\ TypeOK
  /\ host \in [Host -> [pc : {"idle", "resolved", "answered"}, claim : Known \cup {NoClaim},
                        at : BoundAt \cup {0}, now : 0..clock, said : Said \cup {"nothing"}]]
  /\ \A h \in Host : host[h].said = "nothing" <=> host[h].pc # "answered"

\* A host that was told its fact ended is never again given it for an instant from there on,
\* until somebody reopens it or a verdict hands the line over; unless it was ended at an instant
\* that was yet to come (EndFactReceipt; active_bound_at on every read path).
EndedStaysEnded ==
  \A h \in Host : \A c \in claims :
    (/\ Ended(h) /\ host[h].claim = c.tx /\ ~EndedAhead(c.tx)
     /\ \A e \in ledger : e.claim = c.tx /\ e.by \in {"reopen", "affirm"} => e.at < host[h].now)
    => /\ c \notin Recall(L, clock)
       /\ \A v \in Instant : host[h].at <= v => c \notin RecallAt(L, clock, v)

\* Of hosts that race to end one fact at two instants, both past, only one is told it did, unless
\* it was reopened between them (AlreadyBound: never resolved by later wins).
OneCloses ==
  \A g, h \in Host :
    (/\ host[g].said = "closed" /\ host[h].said = "closed" /\ host[g].claim = host[h].claim
     /\ host[g].now < host[h].now /\ ~EndedAhead(host[h].claim))
    => \E a \in assertions : /\ a.claim = host[h].claim /\ a.kind = "Reopen"
                             /\ host[g].now < a.asserted /\ a.asserted < host[h].now

\* Whatever the two recalls make of a belief, no live claim is kept from the host, the one that
\* stayed contested when its rival was ended included (recall in both ergonomic layers).
NoneHidden ==
  LET live == Recall(L, clock)
  IN  \A answer \in {RustRecall(live), PythonRecall(live)} :
        answer.value \cup answer.candidates = live

=============================================================================
