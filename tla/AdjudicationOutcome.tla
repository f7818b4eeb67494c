------------------------- MODULE AdjudicationOutcome -------------------------
(***************************************************************************)
(* What the adjudication machinery promises of every claim: it is accepted *)
(* or queued once, and a queued claim is settled once, for good, in one of *)
(* three ways: by the oracle's answer to its own handle, by a revert to    *)
(* Contested (deadline passed, or orphaned), or because it was itself the  *)
(* incumbent of another challenger whose answer moved it.                  *)
(***************************************************************************)
CONSTANT Claim

VARIABLE outcome

Outcome == {"absent", "accepted", "queued", "answered", "reverted", "displaced"}

Init == outcome \in [Claim -> {"absent", "accepted"}]

Ingest(c) ==
  /\ outcome[c] = "absent"
  /\ \E o \in {"accepted", "queued"} : outcome' = [outcome EXCEPT ![c] = o]

\* An answer settles its challenger, and may move the queued claim it contradicts.
Answer(c) ==
  /\ outcome[c] = "queued"
  /\ \/ outcome' = [outcome EXCEPT ![c] = "answered"]
     \/ \E d \in Claim \ {c} :
           /\ outcome[d] = "queued"
           /\ outcome' = [outcome EXCEPT ![c] = "answered", ![d] = "displaced"]

Revert(c) == outcome[c] = "queued" /\ outcome' = [outcome EXCEPT ![c] = "reverted"]

Next == \E c \in Claim : Ingest(c) \/ Answer(c) \/ Revert(c)

Spec == Init /\ [][Next]_outcome

\* The three ways out of the queue are final.
OutcomeIsFinal ==
  [][\A c \in Claim : outcome[c] \notin {"absent", "queued"} => outcome'[c] = outcome[c]]_outcome
=============================================================================
