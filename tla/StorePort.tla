------------------------------ MODULE StorePort ------------------------------
(***************************************************************************)
(* What PersistencePort promises of a store, whichever adapter keeps it:   *)
(* rows are never changed or taken back, those that a transaction appended *)
(* become visible together, and the row of a pending adjudication, which   *)
(* is written outside, never before its claim.  A row names its table and  *)
(* the call that wrote it.                                                 *)
(***************************************************************************)
VARIABLE file

Init == file = {}

\* commit: what one call appended, with the ledger entry it owes.
Appended(rows) ==
  /\ \A r, s \in rows : r.at = s.at
  /\ \A r \in rows, s \in file : r.at # s.at
  /\ \E r \in rows : r.table = "ledger"
  /\ \A r \in rows : r.table # "pending"

\* insert_pending: one row, of a call whose claim is committed.
Registered(rows) ==
  \E r \in rows : /\ rows = {r} /\ r.table = "pending"
                  /\ \E s \in file : s.at = r.at /\ s.table = "claims"

Next ==
  /\ file \subseteq file'
  /\ Appended(file' \ file) \/ Registered(file' \ file)

Spec == Init /\ [][Next]_file
=============================================================================
