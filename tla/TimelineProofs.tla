---------------------------- MODULE TimelineProofs ----------------------------
(***************************************************************************)
(* What the memory keeps however many facts hosts tell and end, of         *)
(* whatever dates, origins and precisions.                                 *)
(*                                                                         *)
(* MemoryInv: a claim is what a host offered, stamped with the instant of  *)
(* the call that told it; every call writes one entry of the ledger at     *)
(* most, so an instant names an entry; and the first entry of a claim is   *)
(* the one it came with.  ReceiptInv: until the next call a receipt tells  *)
(* what was decided.  TrailInv: an edge joins claims that are there.       *)
(* OrderInv: an entry that says contested was told against another value   *)
(* among facts that are no succession.                                     *)
(***************************************************************************)
EXTENDS Trail, FiniteSetTheorems, SequenceTheorems, WellFoundedInduction, TLAPS

-----------------------------------------------------------------------------
(* Dates.                                                                  *)

\* Multiples of one number lie as far apart as that.
LEMMA MultiplesApart ==
  ASSUME NEW P \in Nat, 0 < P, NEW x \in Int, NEW y \in Int, x < y
  PROVE  x * P + P <= y * P
<1>1. x + 1 <= y
  OBVIOUS
<1>2. (x + 1) * P = x * P + P
  OBVIOUS
<1>3. (y - (x + 1)) * P >= 0
  OBVIOUS
<1>. QED
  BY <1>1, <1>2, <1>3

\* A part of a date is found again by division, and what is finer by its remainder.
LEMMA PartFound ==
  ASSUME NEW P \in Nat, 0 < P, NEW x \in Nat, NEW d \in 0..P - 1
  PROVE  (x * P + d) \div P = x /\ (x * P + d) % P = d
<1> DEFINE n == x * P + d
           q == n \div P
           r == n % P
<1>1. x * P \in Nat
  OBVIOUS
<1>2. n \in Nat
  BY <1>1
<1>. HIDE DEF n
<1>3. q \in Int /\ r \in 0..P - 1 /\ n = q * P + r
  BY <1>2
<1>. HIDE DEF q, r
<1>4. ~(q < x)
  <2>1. q < x => q * P + P <= x * P
    BY <1>3, MultiplesApart
  <2>2. q * P \in Int
    BY <1>3
  <2>. QED
    BY <1>1, <1>3, <2>1, <2>2 DEF n
<1>5. ~(x < q)
  <2>1. x < q => x * P + P <= q * P
    BY <1>3, MultiplesApart
  <2>2. q * P \in Int
    BY <1>3
  <2>. QED
    BY <1>1, <1>3, <2>1, <2>2 DEF n
<1>6. q = x
  BY <1>3, <1>4, <1>5
<1>7. r = d
  BY <1>1, <1>3, <1>6 DEF n
<1>. QED
  BY <1>6, <1>7 DEF n, q, r

\* A day has three parts.
LEMMA DayIs ==
  ASSUME NEW n \in Nat
  PROVE  Day(n) \in Seq(Int) /\ Len(Day(n)) = 3
<1> DEFINE days == (n - 1) \div Parts
           months == days \div Parts
<1>1. Parts \in Nat /\ 0 < Parts
  BY DatesAssumption
<1>2. \A k \in Int : k \div Parts \in Int /\ k % Parts \in Int
  BY <1>1
<1>3. days \in Int /\ months \in Int
  BY <1>2
<1>4. Day(n) = <<1 + (months \div Parts), 1 + (months % Parts), 1 + (days % Parts)>>
  BY DEF Day
<1>. HIDE DEF days, months
<1>5. months \div Parts \in Int /\ months % Parts \in Int /\ days % Parts \in Int
  BY <1>2, <1>3
<1>6. ASSUME NEW x \in Int, NEW y \in Int, NEW z \in Int
      PROVE  <<1 + x, 1 + y, 1 + z>> \in Seq(Int) /\ Len(<<1 + x, 1 + y, 1 + z>>) = 3
  OBVIOUS
<1>. QED
  BY <1>4, <1>5, <1>6, Zenon

\* The day of a date is the date's, of which the parts left out are the first.
LEMMA DayOfDate ==
  ASSUME NEW text \in Seq(Nat), Parsable(text)
  PROVE  /\ InstantOf(text) \in Nat /\ 0 < InstantOf(text)
         /\ Day(InstantOf(text)) \in Seq(Nat) /\ Len(Day(InstantOf(text))) = 3
         /\ \A i \in 1..3 : Day(InstantOf(text))[i] = IF i <= Len(text) THEN text[i] ELSE 1
<1> DEFINE a == Start(text, 1)
           b == Start(text, 2)
           c == Start(text, 3)
           d == Start(text, 4)
           year == a * Parts + b
           month == year * Parts + c
           n == InstantOf(text)
<1>1. Parts \in Nat /\ 0 < Parts
  BY DatesAssumption
<1>2. Len(text) \in 1..4 /\ text[1] > 0 /\ text[1] \in Nat /\ \A i \in 2..Len(text) : text[i] \in 1..Parts
  BY DEF Parsable
<1>3. a = text[1] - 1 /\ a \in Nat
  BY <1>2 DEF Start
<1>4. /\ b \in 0..Parts - 1 /\ c \in 0..Parts - 1 /\ d \in 0..Parts - 1
      /\ b = IF 2 <= Len(text) THEN text[2] - 1 ELSE 0
      /\ c = IF 3 <= Len(text) THEN text[3] - 1 ELSE 0
  <2>1. \A i \in 2..4 : Start(text, i) = IF i <= Len(text) THEN text[i] - 1 ELSE 0
    BY DEF Start
  <2>2. ASSUME NEW i \in 2..4 PROVE Start(text, i) \in 0..Parts - 1
    <3>1. CASE i <= Len(text)
      <4>1. text[i] \in 1..Parts /\ Start(text, i) = text[i] - 1
        BY <1>2, <2>1, <3>1
      <4>. QED
        BY <1>1, <4>1
    <3>2. CASE ~(i <= Len(text))
      <4>1. Start(text, i) = 0
        BY <2>1, <3>2
      <4>. QED
        BY <1>1, <4>1
    <3>. QED
      BY <3>1, <3>2
  <2>. QED
    BY <2>1, <2>2
<1>5. n = 1 + month * Parts + d
  BY Zenon DEF InstantOf
<1>. HIDE DEF a, b, c, d, n
<1>6. year \in Nat /\ year \div Parts = a /\ year % Parts = b
  <2>1. a * Parts \in Nat
    BY <1>1, <1>3
  <2>2. (a * Parts + b) \div Parts = a /\ (a * Parts + b) % Parts = b
    BY <1>1, <1>3, <1>4, PartFound, Zenon
  <2>3. a * Parts + b \in Nat
    BY <1>4, <2>1
  <2>. QED
    BY <2>2, <2>3, Zenon
<1>. HIDE DEF year
<1>7. month \in Nat /\ month \div Parts = year /\ month % Parts = c
  <2>1. year * Parts \in Nat
    BY <1>1, <1>6
  <2>2. (year * Parts + c) \div Parts = year /\ (year * Parts + c) % Parts = c
    BY <1>1, <1>4, <1>6, PartFound, Zenon
  <2>3. year * Parts + c \in Nat
    BY <1>4, <2>1
  <2>. QED
    BY <2>2, <2>3, Zenon
<1>. HIDE DEF month
<1>8. n \in Nat /\ 0 < n /\ n - 1 = month * Parts + d /\ (n - 1) \div Parts = month
  <2>1. month * Parts \in Nat
    BY <1>1, <1>7
  <2>2. (month * Parts + d) \div Parts = month
    BY <1>1, <1>4, <1>7, PartFound, Zenon
  <2>3. n - 1 = month * Parts + d /\ n \in Nat /\ 0 < n
    BY <1>4, <1>5, <2>1
  <2>. QED
    BY <2>2, <2>3
<1>9. Day(n) = <<1 + a, 1 + b, 1 + c>>
  BY <1>6, <1>7, <1>8 DEF Day
<1>10. Day(n) \in Seq(Nat) /\ Len(Day(n)) = 3
  <2>1. 1 + a \in Nat /\ 1 + b \in Nat /\ 1 + c \in Nat
    <3>1. \A k \in 0..Parts - 1 : 1 + k \in Nat
      BY <1>1
    <3>2. b \in 0..Parts - 1 /\ c \in 0..Parts - 1
      BY <1>4, Zenon
    <3>3. 1 + a \in Nat
      BY <1>3
    <3>. QED
      BY <3>1, <3>2, <3>3, Zenon
  <2>2. ASSUME NEW x \in Nat, NEW y \in Nat, NEW z \in Nat
        PROVE  <<x, y, z>> \in Seq(Nat) /\ Len(<<x, y, z>>) = 3
    OBVIOUS
  <2>. QED
    BY <1>9, <2>1, <2>2, Zenon
<1>11. \A i \in 1..3 : Day(n)[i] = IF i <= Len(text) THEN text[i] ELSE 1
  <2>1. Day(n)[1] = text[1] /\ 1 <= Len(text)
    BY <1>2, <1>3, <1>9
  <2>2. Day(n)[2] = IF 2 <= Len(text) THEN text[2] ELSE 1
    BY <1>2, <1>4, <1>9
  <2>3. Day(n)[3] = IF 3 <= Len(text) THEN text[3] ELSE 1
    BY <1>2, <1>4, <1>9
  <2>. QED
    BY <2>1, <2>2, <2>3
<1>. QED
  BY <1>8, <1>10, <1>11 DEF n

\* So far as it goes, a date is found again from its instant.
LEMMA DatePrefix ==
  ASSUME NEW text \in Seq(Nat), Parsable(text), NEW k \in 1..3, k <= Len(text)
  PROVE  SubSeq(Day(InstantOf(text)), 1, k) = SubSeq(text, 1, k)
<1> DEFINE day == Day(InstantOf(text))
<1>1. day \in Seq(Nat) /\ Len(day) = 3 /\ \A i \in 1..k : day[i] = text[i]
  <2>1. /\ day \in Seq(Nat) /\ Len(day) = 3
        /\ \A i \in 1..3 : day[i] = IF i <= Len(text) THEN text[i] ELSE 1
    BY DayOfDate
  <2>2. \A i \in 1..k : i \in 1..3 /\ i <= Len(text)
    BY DEF Parsable
  <2>. QED
    BY <2>1, <2>2
<1>. HIDE DEF day
<1>2. SubSeq(day, 1, k) = [i \in 1..k |-> day[i]] /\ SubSeq(text, 1, k) = [i \in 1..k |-> text[i]]
  BY <1>1
<1>. QED
  BY <1>1, <1>2 DEF day

\* A date is shown as it was written, as far as a day goes.
LEMMA ShownAsWritten ==
  ASSUME NEW text \in Seq(Nat), Parsable(text)
  PROVE  Shown(InstantOf(text), Granularity(text)) = Written(text)
<1>1. Len(text) \in 1..4
  BY DEF Parsable
<1>2. ASSUME NEW k \in 1..3, k = Len(text) PROVE SubSeq(Day(InstantOf(text)), 1, k) = text
  BY <1>2, DatePrefix
<1>3. CASE Len(text) = 1
  BY <1>2, <1>3 DEF Shown, Granularity, Written
<1>4. CASE Len(text) = 2
  BY <1>2, <1>4 DEF Shown, Granularity, Written
<1>5. CASE Len(text) = 3
  BY <1>2, <1>5 DEF Shown, Granularity, Written
<1>6. CASE Len(text) = 4
  BY <1>6, DatePrefix DEF Shown, Granularity, Written
<1>. QED
  BY <1>1, <1>3, <1>4, <1>5, <1>6

-----------------------------------------------------------------------------
(* The invariant.                                                          *)

\* A claim is a stamped offer that was not refused.
Genuine(c) ==
  /\ c.offer \in Offer /\ ~Refused(c.offer) /\ c.predicate \in Predicate
  /\ c.tx \in Nat /\ Epoch < c.tx /\ c.tx <= clock
  /\ c = Stamp(c.predicate, c.offer, c.lineage, c.tx)

ClaimsInv ==
  /\ IsFiniteSet(claims)
  /\ \A c \in claims : Genuine(c)
  /\ \A c, d \in claims : c.tx = d.tx => c = d

EntriesInv ==
  /\ \A e \in ledger : e.claim \in Known /\ e.at \in Nat /\ e.claim <= e.at /\ e.at <= clock
  /\ \A e, f \in ledger : e.at = f.at => e = f
  /\ \A c \in claims : \E e \in ledger : e.claim = c.tx /\ e.at = c.tx

EndsInv ==
  \A a \in assertions :
    /\ a.claim \in Known /\ a.kind = "Bound" /\ a.at \in Nat /\ a.at < Never
    /\ a.asserted \in Nat /\ a.asserted <= clock
    /\ a.text \in EndText /\ a.at = InstantOf(a.text)

MemoryInv ==
  /\ clock \in Nat /\ Epoch <= clock /\ clock <= Epoch + MaxCalls
  /\ ClaimsInv /\ EntriesInv /\ EndsInv

\* The fields of a stamped offer.
LEMMA StampIs ==
  ASSUME NEW p, NEW o, NEW lineage, NEW now, NEW c, c = Stamp(p, o, lineage, now)
  PROVE  /\ c.predicate = p /\ c.offer = o /\ c.lineage = lineage /\ c.tx = now
         /\ c.value = o.value /\ c.cardinality = o.cardinality /\ c.origin = o.origin
         /\ c.start = IF o.from = NoDate THEN NoStart ELSE InstantOf(o.from)
         /\ c.end = IF o.until = NoDate THEN Never ELSE InstantOf(o.until)
  BY DEF Stamp

\* The dates of an offer that is not refused are instants.
LEMMA OfferDates ==
  ASSUME NEW o \in Offer, ~Refused(o)
  PROVE  /\ o.from # NoDate =>
              InstantOf(o.from) \in Nat /\ 0 < InstantOf(o.from) /\ InstantOf(o.from) < Never
         /\ o.until # NoDate =>
              InstantOf(o.until) \in Nat /\ 0 < InstantOf(o.until) /\ InstantOf(o.until) < Never
         /\ o.origin \in Provenance
<1>1. \A text \in {o.from, o.until} \ {NoDate} : Parsable(text)
  BY DEF Refused
<1>2. \A text \in {o.from, o.until} : text \in Seq(Nat) /\ (Parsable(text) => InstantOf(text) < Never)
  BY AdmissionAssumption
<1>. QED
  BY <1>1, <1>2, DayOfDate DEF Refused

\* What the fields of a claim hold.
LEMMA ClaimTypes ==
  ASSUME MemoryInv, NEW c \in claims
  PROVE  /\ c.tx \in Nat /\ 0 < c.tx /\ Epoch < c.tx /\ c.tx <= clock /\ c.tx < Never
         /\ c.start \in Nat /\ c.start < Never /\ c.end \in Nat /\ c.end <= Never
         /\ Key(c) \in Nat /\ Key(c) < Never
         /\ c.predicate \in Predicate /\ c.origin \in Provenance
         /\ c.cardinality \in {"Functional", "SetValued", "Unknown"}
<1>1. Genuine(c)
  BY DEF MemoryInv, ClaimsInv
<1>2. /\ clock \in Nat /\ Epoch \in Nat /\ Never \in Nat /\ clock < Never /\ 0 < Epoch
  BY AdmissionAssumption DEF MemoryInv
<1>3. c.tx \in Nat /\ 0 < c.tx /\ Epoch < c.tx /\ c.tx <= clock /\ c.tx < Never
  BY <1>1, <1>2 DEF Genuine
<1>4. /\ c.cardinality = c.offer.cardinality /\ c.origin = c.offer.origin
      /\ c.start = IF c.offer.from = NoDate THEN NoStart ELSE InstantOf(c.offer.from)
      /\ c.end = IF c.offer.until = NoDate THEN Never ELSE InstantOf(c.offer.until)
  BY <1>1, StampIs DEF Genuine
<1>5. c.offer \in Offer /\ ~Refused(c.offer)
  BY <1>1 DEF Genuine
<1>6. c.start \in Nat /\ c.start < Never /\ c.end \in Nat /\ c.end <= Never
  BY <1>2, <1>4, <1>5, OfferDates DEF NoStart
<1>7. Key(c) \in Nat /\ Key(c) < Never
  BY <1>3, <1>6 DEF Key
<1>8. c.origin \in Provenance /\ c.cardinality \in {"Functional", "SetValued", "Unknown"}
  BY <1>4, <1>5, OfferDates, AdmissionAssumption
<1>9. c.predicate \in Predicate
  BY <1>1 DEF Genuine
<1>. QED
  BY <1>3, <1>6, <1>7, <1>8, <1>9

\* A memory is empty when it is opened.
LEMMA MemoryInit == Init => MemoryInv
  BY AdmissionAssumption, FS_EmptySet
  DEF Init, MemoryInv, ClaimsInv, EntriesInv, EndsInv

\* A call that tells the memory a fact.
Tells(c) ==
  /\ clock' = clock + 1 /\ clock < Epoch + MaxCalls
  /\ c.offer \in Offer /\ ~Refused(c.offer) /\ c.predicate \in Predicate
  /\ c = Stamp(c.predicate, c.offer, c.lineage, clock + 1)
  /\ UNCHANGED assertions

\* Every step tells a fact, asks for what is not done, or ends a fact.
LEMMA StepIs ==
  ASSUME TimelineNext
  PROVE  \/ \E c : Tells(c) /\ Commit(c)
         \/ /\ UNCHANGED <<claims, ledger, edges, assertions>>
            /\ clock' \in {clock, clock + 1}
            /\ clock' # clock => clock < Epoch + MaxCalls
            /\ clock' = clock => clock = Epoch
         \/ \E p \in Predicate, text \in EndText : EndFactTool(p, text)
<1>1. CASE \E p \in Predicate, text \in EndText : EndFactTool(p, text)
  BY <1>1
<1>2. CASE Next
  <2>1. PICK p \in Predicate, o \in Offer :
          \E lineage \in {<<>>} \cup IF o.origin = "external" THEN {} ELSE Lineage :
             Remember(p, o, lineage) \/ IngestTool(p, o, lineage)
    BY <1>2 DEF Next
  <2>2. PICK lineage : Remember(p, o, lineage) \/ IngestTool(p, o, lineage)
    BY <2>1
  <2>3. UNCHANGED assertions
    BY <1>2 DEF Next
  <2>4. CASE Refuse(o)
    BY <2>3, <2>4 DEF Refuse
  <2>5. CASE Ingest(p, o, lineage)
    <3> DEFINE c == Stamp(p, o, lineage, clock + 1)
    <3>1. /\ ~Refused(o) /\ clock < Epoch + MaxCalls /\ clock' = clock + 1
          /\ Corroborate(c) \/ RollBack(c) \/ Commit(c)
      BY <2>5 DEF Ingest
    <3>2. Tells(c)
      BY <2>3, <3>1 DEF Tells, Stamp
    <3>. HIDE DEF c
    <3>3. CASE Corroborate(c)
      <4>1. UNCHANGED <<claims, ledger, edges>>
        BY <3>3, Zenon DEF Corroborate
      <4>. QED
        BY <2>3, <3>1, <4>1
    <3>4. CASE RollBack(c)
      BY <2>3, <3>1, <3>4 DEF RollBack
    <3>. QED
      BY <3>1, <3>2, <3>3, <3>4
  <2>. QED
    BY <2>2, <2>4, <2>5 DEF Remember, IngestTool
<1>. QED
  BY <1>1, <1>2 DEF TimelineNext

\* What a told fact writes.
LEMMA CommitWrites ==
  ASSUME NEW c, Commit(c)
  PROVE  /\ claims' = claims \cup {c}
         /\ \E e : /\ ledger' = ledger \cup {e}
                 /\ e.claim = c.tx /\ e.at = c.tx
<1>1. PICK disp, incumbent : ledger' = ledger \cup Appended(c, disp, incumbent)
  BY Zenon DEF Commit
<1>2. claims' = claims \cup {c}
  BY Zenon DEF Commit
<1> DEFINE e == [claim |-> c.tx, disp |-> disp, at |-> c.tx, by |-> "ingest"]
<1>3. ledger' = ledger \cup {e}
  BY <1>1 DEF Appended
<1>4. e.claim = c.tx /\ e.at = c.tx
  OBVIOUS
<1>. QED
  BY <1>2, <1>3, <1>4

\* What an end writes: an assertion about a claim, and an entry of the same instant.
LEMMA EndWrites ==
  ASSUME NEW p \in Predicate, NEW text \in EndText, EndFactTool(p, text)
  PROVE  /\ clock' = clock + 1 /\ clock < Epoch + MaxCalls /\ UNCHANGED <<claims, edges>>
         /\ \/ ledger' = ledger /\ assertions' = assertions
            \/ \E c \in claims : \E a, e :
                 /\ assertions' = assertions \cup {a} /\ ledger' = ledger \cup {e}
                 /\ a.claim = c.tx /\ a.kind = "Bound" /\ a.at = InstantOf(text)
                 /\ a.asserted = clock + 1 /\ a.text = text
                 /\ e.claim = c.tx /\ e.at = clock + 1
<1>1. PICK origin \in Provenance : EndFact(p, text, origin)
  BY Zenon DEF EndFactTool
<1>2. clock' = clock + 1 /\ clock < Epoch + MaxCalls /\ UNCHANGED <<claims, edges>>
  BY <1>1, Zenon DEF EndFact
<1> DEFINE live == Recall(Line(p), clock + 1)
           Bound(c) == [claim |-> c.tx, kind |-> "Bound", at |-> InstantOf(text),
                        asserted |-> clock + 1, text |-> text]
           Ended(c) == [claim |-> c.tx, disp |-> "Superseded", at |-> clock + 1,
                        by |-> "host_bound"]
<1>3. \/ UNCHANGED <<assertions, ledger>>
      \/ \E c \in live : /\ assertions' = assertions \cup {Bound(c)}
                        /\ ledger' = ledger \cup {Ended(c)}
  BY <1>1, Zenon DEF EndFact
<1>4. live \subseteq claims
  BY DEF Recall, Fold, RawLive, AsOf, Line
<1>5. ASSUME NEW c PROVE /\ Bound(c).claim = c.tx /\ Bound(c).kind = "Bound"
                         /\ Bound(c).at = InstantOf(text) /\ Bound(c).asserted = clock + 1
                         /\ Bound(c).text = text
                         /\ Ended(c).claim = c.tx /\ Ended(c).at = clock + 1
  OBVIOUS
<1>. HIDE DEF live, Bound, Ended
<1>6. CASE UNCHANGED <<assertions, ledger>>
  BY <1>2, <1>6
<1>7. CASE \E c \in live : /\ assertions' = assertions \cup {Bound(c)}
                         /\ ledger' = ledger \cup {Ended(c)}
  <2>1. PICK c \in live : /\ assertions' = assertions \cup {Bound(c)}
                         /\ ledger' = ledger \cup {Ended(c)}
    BY <1>7
  <2>. QED
    BY <1>2, <1>4, <1>5, <2>1
<1>. QED
  BY <1>3, <1>6, <1>7

\* The clock may go on, and nothing be written.
LEMMA NothingWritten ==
  ASSUME MemoryInv, UNCHANGED <<claims, ledger, assertions>>, clock' \in {clock, clock + 1},
         clock' # clock => clock < Epoch + MaxCalls
  PROVE  MemoryInv'
<1>1. clock' \in Nat /\ Epoch <= clock' /\ clock' <= Epoch + MaxCalls /\ clock <= clock'
  BY AdmissionAssumption DEF MemoryInv
<1>2. \A c \in claims : Genuine(c)'
  BY <1>1, AdmissionAssumption DEF MemoryInv, ClaimsInv, Genuine
<1>3. ClaimsInv'
  BY <1>2 DEF MemoryInv, ClaimsInv
<1>4. EntriesInv'
  BY <1>1 DEF MemoryInv, EntriesInv, Known
<1>5. EndsInv'
  BY <1>1 DEF MemoryInv, EndsInv, Known
<1>. QED
  BY <1>1, <1>3, <1>4, <1>5 DEF MemoryInv

\* A fact that is told.
LEMMA TellKeeps ==
  ASSUME MemoryInv, NEW c, Tells(c), Commit(c)
  PROVE  MemoryInv'
<1>1. PICK e : /\ claims' = claims \cup {c} /\ ledger' = ledger \cup {e}
               /\ e.claim = c.tx /\ e.at = c.tx
  BY CommitWrites
<1>2. /\ clock' = clock + 1 /\ clock' \in Nat
      /\ Epoch < clock' /\ Epoch <= clock' /\ clock' <= Epoch + MaxCalls
      /\ clock \in Nat /\ clock < clock' /\ assertions' = assertions
  BY AdmissionAssumption DEF MemoryInv, Tells
<1>3. c.tx = clock' /\ Genuine(c)'
  BY <1>2, StampIs DEF Tells, Genuine
<1>4. ASSUME NEW d \in claims PROVE Genuine(d)' /\ d.tx # clock'
  BY <1>2, AdmissionAssumption DEF MemoryInv, ClaimsInv, Genuine
<1>5. ClaimsInv'
  <2>1. IsFiniteSet(claims')
    BY <1>1, FS_AddElement DEF MemoryInv, ClaimsInv
  <2>2. \A d \in claims' : Genuine(d)'
    BY <1>1, <1>3, <1>4
  <2>3. \A d, b \in claims' : d.tx = b.tx => d = b
    BY <1>1, <1>3, <1>4 DEF MemoryInv, ClaimsInv
  <2>. QED
    BY <2>1, <2>2, <2>3 DEF ClaimsInv
<1>6. Known \subseteq Known' /\ c.tx \in Known'
  BY <1>1 DEF Known
<1>7. ASSUME NEW f \in ledger
      PROVE f.claim \in Known' /\ f.at \in Nat /\ f.claim <= f.at /\ f.at <= clock' /\ f.at # clock'
  BY <1>2, <1>6 DEF MemoryInv, EntriesInv
<1>8. EntriesInv'
  <2>1. \A f \in ledger' : f.claim \in Known' /\ f.at \in Nat /\ f.claim <= f.at /\ f.at <= clock'
    BY <1>1, <1>2, <1>3, <1>6, <1>7
  <2>2. \A f, g \in ledger' : f.at = g.at => f = g
    BY <1>1, <1>3, <1>7 DEF MemoryInv, EntriesInv
  <2>3. \A d \in claims' : \E f \in ledger' : f.claim = d.tx /\ f.at = d.tx
    BY <1>1 DEF MemoryInv, EntriesInv
  <2>. QED
    BY <2>1, <2>2, <2>3 DEF EntriesInv
<1>9. EndsInv'
  BY <1>2, <1>6 DEF MemoryInv, EndsInv
<1>. QED
  BY <1>2, <1>5, <1>8, <1>9 DEF MemoryInv

\* A fact that is ended.
LEMMA EndKeeps ==
  ASSUME MemoryInv, NEW p \in Predicate, NEW text \in EndText, EndFactTool(p, text)
  PROVE  MemoryInv'
<1>1. /\ clock' = clock + 1 /\ clock < Epoch + MaxCalls /\ claims' = claims
  BY EndWrites
<1>2. CASE ledger' = ledger /\ assertions' = assertions
  BY <1>1, <1>2, NothingWritten
<1>3. CASE ~(ledger' = ledger /\ assertions' = assertions)
  <2>1. PICK c \in claims : \E a, e :
                 /\ assertions' = assertions \cup {a} /\ ledger' = ledger \cup {e}
                 /\ a.claim = c.tx /\ a.kind = "Bound" /\ a.at = InstantOf(text)
                 /\ a.asserted = clock + 1 /\ a.text = text
                 /\ e.claim = c.tx /\ e.at = clock + 1
    BY <1>3, EndWrites
  <2>2. PICK a, e :
                 /\ assertions' = assertions \cup {a} /\ ledger' = ledger \cup {e}
                 /\ a.claim = c.tx /\ a.kind = "Bound" /\ a.at = InstantOf(text)
                 /\ a.asserted = clock + 1 /\ a.text = text
                 /\ e.claim = c.tx /\ e.at = clock + 1
    BY <2>1
  <2>3. /\ clock' \in Nat /\ Epoch < clock' /\ Epoch <= clock' /\ clock' <= Epoch + MaxCalls
        /\ clock \in Nat /\ clock < clock'
    BY <1>1, AdmissionAssumption DEF MemoryInv
  <2>4. \A d \in claims : Genuine(d)'
    BY <2>3, AdmissionAssumption DEF MemoryInv, ClaimsInv, Genuine
  <2>5. ClaimsInv'
    BY <1>1, <2>4 DEF MemoryInv, ClaimsInv
  <2>6. Known' = Known /\ c.tx \in Known /\ c.tx \in Nat /\ c.tx <= clock
    BY <1>1, ClaimTypes DEF Known
  <2>7. EntriesInv'
    <3>1. \A f \in ledger : f.claim \in Known' /\ f.at \in Nat /\ f.claim <= f.at /\ f.at <= clock
      BY <2>6 DEF MemoryInv, EntriesInv
    <3>2. \A f \in ledger' : f.claim \in Known' /\ f.at \in Nat /\ f.claim <= f.at /\ f.at <= clock'
      BY <1>1, <2>2, <2>3, <2>6, <3>1
    <3>3. \A f, g \in ledger' : f.at = g.at => f = g
      BY <1>1, <2>2, <2>3, <3>1 DEF MemoryInv, EntriesInv
    <3>4. \A d \in claims' : \E f \in ledger' : f.claim = d.tx /\ f.at = d.tx
      BY <1>1, <2>2 DEF MemoryInv, EntriesInv
    <3>. QED
      BY <3>2, <3>3, <3>4 DEF EntriesInv
  <2>8. EndsInv'
    <3>1. InstantOf(text) \in Nat /\ InstantOf(text) < Never
      BY TimelineAssumption, DayOfDate
    <3>. QED
      BY <1>1, <2>2, <2>3, <2>6, <3>1 DEF MemoryInv, EndsInv
  <2>. QED
    BY <2>3, <2>5, <2>7, <2>8 DEF MemoryInv
<1>. QED
  BY <1>2, <1>3

\* Every step keeps the memory in order.
LEMMA MemoryStep == MemoryInv /\ [TimelineNext]_vars => MemoryInv'
<1>. SUFFICES ASSUME MemoryInv, [TimelineNext]_vars PROVE MemoryInv'
  OBVIOUS
<1>1. CASE UNCHANGED vars
  BY <1>1, NothingWritten DEF vars
<1>2. CASE TimelineNext
  BY <1>2, StepIs, TellKeeps, NothingWritten, EndKeeps
<1>. QED
  BY <1>1, <1>2

\* A memory is in order at all times.
LEMMA MemoryInvariant == TimelineSpec => []MemoryInv
  BY MemoryInit, MemoryStep, PTL DEF TimelineSpec

-----------------------------------------------------------------------------
(* Reading a line.                                                         *)

\* Some of the claims and some of the entries, and every end.
View(C, E) == [claims |-> C, ledger |-> E, assertions |-> assertions]

\* A line is a view of the memory.
LEMMA LineIs == \A p : Line(p) = View({c \in claims : c.predicate = p}, ledger)
  BY DEF Line, View

\* A view of other rows.
LEMMA Replaced ==
  ASSUME NEW M, M = View(M.claims, M.ledger), NEW X, NEW Y
  PROVE  [M EXCEPT !.claims = X, !.ledger = Y] = View(X, Y)
<1> DEFINE f == [M EXCEPT !.claims = X, !.ledger = Y]
<1>1. f = [k \in {"claims", "ledger", "assertions"} |-> f[k]]
  BY DEF View
<1>2. f.claims = X /\ f.ledger = Y /\ f.assertions = assertions
  BY DEF View
<1>. HIDE DEF f
<1>3. f = View(X, Y)
  BY <1>1, <1>2 DEF View
<1>. QED
  BY <1>3 DEF f

\* The clock has reached every row: a read as of now sees all of a view.
LEMMA ReadsAll ==
  ASSUME MemoryInv, NEW C, C \subseteq claims, NEW E, E \subseteq ledger
  PROVE  /\ AsOf(View(C, E), clock) = View(C, E)
         /\ Recall(View(C, E), clock) = Fold(View(C, E), clock, clock)
         /\ \A v : RecallAt(View(C, E), clock, v) = Narrowed(View(C, E), clock, v)
<1>1. {c \in C : c.tx <= clock} = C
  BY ClaimTypes
<1>2. {e \in E : e.at <= clock} = E
  BY DEF MemoryInv, EntriesInv
<1>3. View(C, E).claims = C /\ View(C, E).ledger = E
  BY DEF View
<1>4. AsOf(View(C, E), clock) = View(C, E)
  BY <1>1, <1>2, <1>3, Replaced DEF AsOf
<1>. QED
  BY <1>4 DEF Recall, RecallAt

\* The entry that decides a claim's outcome, when it is found.
LEMMA LatestIs ==
  ASSUME MemoryInv, NEW M, M.ledger \subseteq ledger, NEW c, NEW e \in M.ledger, e.claim = c.tx,
         \A f \in M.ledger : f.claim = c.tx => f.at <= e.at
  PROVE  Latest(M, c) = e
<1>1. ASSUME NEW g \in M.ledger, g.claim = c.tx, \A f \in M.ledger : f.claim = c.tx => f.at <= g.at
      PROVE  g = e
  BY <1>1 DEF MemoryInv, EntriesInv
<1>. QED
  BY <1>1 DEF Latest

\* A set of numbers that is not empty has a least one.
LEMMA LeastNat ==
  ASSUME NEW T, T \subseteq Nat, T # {}
  PROVE  \E n \in T : \A m \in T : n <= m
<1>1. IsWellFoundedOn(OpToRel(<, Nat), Nat)
  BY NatLessThanWellFounded
<1>2. PICK n \in T : \A m \in T : ~(<<m, n>> \in OpToRel(<, Nat))
  BY <1>1, WFMin
<1>3. \A m \in T : ~(m < n)
  BY <1>2 DEF OpToRel
<1>. QED
  BY <1>3

\* A claim with entries has a latest one.
LEMMA LatestExists ==
  ASSUME MemoryInv, NEW M, M.ledger \subseteq ledger, NEW c, \E e \in M.ledger : e.claim = c.tx
  PROVE  /\ Latest(M, c) \in M.ledger /\ Latest(M, c).claim = c.tx
         /\ \A f \in M.ledger : f.claim = c.tx => f.at <= Latest(M, c).at
<1> DEFINE E == {e \in M.ledger : e.claim = c.tx}
           T == {clock - e.at : e \in E}
<1>1. \A e \in E : e.at \in Nat /\ clock - e.at \in Nat
  BY DEF MemoryInv, EntriesInv
<1>2. T \subseteq Nat /\ T # {}
  BY <1>1
<1>. HIDE DEF T
<1>3. PICK n \in T : \A m \in T : n <= m
  BY <1>2, LeastNat
<1>4. PICK e \in E : n = clock - e.at
  BY <1>3 DEF T
<1>5. ASSUME NEW f \in E PROVE f.at <= e.at
  <2>1. clock - f.at \in T
    BY DEF T
  <2>2. clock - e.at <= clock - f.at
    BY <1>3, <1>4, <2>1
  <2>. QED
    BY <1>1, <2>2 DEF MemoryInv
<1>6. Latest(M, c) = e
  BY <1>5, LatestIs
<1>. QED
  BY <1>5, <1>6

\* Two views with the same entries about a claim give it the same outcome.
LEMMA SameLatest ==
  ASSUME MemoryInv, NEW M, NEW N, M.ledger \subseteq ledger, N.ledger \subseteq ledger, NEW c,
         {e \in M.ledger : e.claim = c.tx} = {e \in N.ledger : e.claim = c.tx},
         \E e \in M.ledger : e.claim = c.tx
  PROVE  Latest(M, c) = Latest(N, c)
<1>1. /\ Latest(M, c) \in M.ledger /\ Latest(M, c).claim = c.tx
      /\ \A f \in M.ledger : f.claim = c.tx => f.at <= Latest(M, c).at
  BY LatestExists
<1>2. /\ Latest(M, c) \in N.ledger
      /\ \A f \in N.ledger : f.claim = c.tx => f.at <= Latest(M, c).at
  BY <1>1
<1>. QED
  BY <1>1, <1>2, LatestIs

BoundOf(effective) ==
  LET last == CHOOSE a \in effective : \A b \in effective : b.asserted <= a.asserted
  IN  IF effective # {} /\ last.kind = "Bound" THEN last.at ELSE Never

\* Given its outcome, only the ends a view knows of decide how a claim is read.
LEMMA ClaimDepends ==
  ASSUME NEW M, NEW N, NEW c, NEW t, Latest(M, c) = Latest(N, c), M.assertions = N.assertions
  PROVE  /\ ActiveBound(M, c, t) = ActiveBound(N, c, t)
         /\ Live(M, c, t) <=> Live(N, c, t)
         /\ HardExcluded(M, c) <=> HardExcluded(N, c)
         /\ Denied(M, c) <=> Denied(N, c)
         /\ Window(M, c, t) = Window(N, c, t)
<1>1. Effective(M, c, t) = Effective(N, c, t)
  BY DEF Effective
<1>2. ActiveBound(M, c, t) = BoundOf(Effective(M, c, t))
  BY DEF ActiveBound, BoundOf
<1>3. ActiveBound(N, c, t) = BoundOf(Effective(N, c, t))
  BY DEF ActiveBound, BoundOf
<1>4. ActiveBound(M, c, t) = ActiveBound(N, c, t)
  BY <1>1, <1>2, <1>3
<1>. QED
  BY <1>4 DEF Live, Excluded, HardExcluded, Denied, Window

\* A bound narrows a window, and Never leaves it as it is.
LEMMA NeverNarrows ==
  ASSUME MemoryInv, NEW c \in claims, NEW M, NEW t, ActiveBound(M, c, t) = Never
  PROVE  Window(M, c, t) = c
<1>1. c.end \in Nat /\ c.end <= Never
  BY ClaimTypes
<1>2. Least(c.end, Never) = c.end
  BY <1>1 DEF Least
<1>3. c = Stamp(c.predicate, c.offer, c.lineage, c.tx)
  BY DEF MemoryInv, ClaimsInv, Genuine
<1>4. Window(M, c, t) = [c EXCEPT !.end = c.end]
  BY <1>2 DEF Window
<1>. QED
  BY <1>3, <1>4 DEF Stamp

\* On a line where nothing was ended the claims that may re-enter are the live ones, whole.
LEMMA NothingEnded ==
  ASSUME MemoryInv, NEW M, NEW t, M.claims \subseteq claims, M.assertions = assertions,
         \A c \in M.claims : \A a \in assertions : a.claim # c.tx
  PROVE  /\ \A c \in M.claims : ActiveBound(M, c, t) = Never /\ Window(M, c, t) = c
         /\ Reentrant(M, t) = RawLive(M, t)
         /\ Rivals(M, t) = RawLive(M, t)
<1>1. ASSUME NEW c \in M.claims PROVE ActiveBound(M, c, t) = Never /\ Window(M, c, t) = c
  <2>1. Effective(M, c, t) = {}
    BY DEF Effective
  <2>2. ActiveBound(M, c, t) = Never
    BY <2>1 DEF ActiveBound
  <2>. QED
    BY <2>2, NeverNarrows
<1>2. Reentrant(M, t) = RawLive(M, t)
  BY <1>1 DEF Reentrant, RawLive, Live, Excluded, HardExcluded
<1>3. \A c \in RawLive(M, t) : Live(M, c, t)
  BY DEF RawLive
<1>4. Rivals(M, t) = RawLive(M, t)
  BY <1>2, <1>3 DEF Rivals
<1>. QED
  BY <1>1, <1>2, <1>4

\* Fewer claims are a succession if more are.
LEMMA FewerSucceed ==
  ASSUME NEW S, NEW T, S \subseteq T, Succession(T)
  PROVE  Succession(S)
  BY DEF Succession

-----------------------------------------------------------------------------
(* What was derived.                                                       *)

\* The claims of a line that were derived, and the line without them and without what was written
\* when they were told.
DerivedOf(p) == {c.tx : c \in {d \in Line(p).claims : d.origin = "derived"}}
Underived(p) == View({c \in Line(p).claims : c.tx \notin DerivedOf(p)},
                     {e \in ledger : e.at \notin DerivedOf(p)})

\* Without what was derived a line reads each of the other claims as with it: what was written
\* when a claim was told is about that claim.
LEMMA UnderivedReadsAlike ==
  ASSUME MemoryInv, NEW p, NEW c \in Underived(p).claims
  PROVE  Latest(Underived(p), c) = Latest(Line(p), c)
<1> DEFINE D == DerivedOf(p)
<1>1. /\ c \in claims /\ c.tx \notin D /\ Line(p).claims \subseteq claims /\ Line(p).ledger = ledger
      /\ Underived(p).ledger = {e \in ledger : e.at \notin D}
  BY DEF Underived, View, Line
<1>2. ASSUME NEW e \in ledger, e.at \in D PROVE e.claim \in D
  <2>1. PICK d \in claims : d.tx = e.at /\ d.tx \in D
    BY <1>1, <1>2 DEF DerivedOf
  <2>2. PICK own \in ledger : own.claim = d.tx /\ own.at = d.tx
    BY DEF MemoryInv, EntriesInv
  <2>3. own = e
    BY <2>1, <2>2 DEF MemoryInv, EntriesInv
  <2>. QED
    BY <2>1, <2>2, <2>3
<1>. HIDE DEF D
<1>3. {e \in Underived(p).ledger : e.claim = c.tx} = {e \in Line(p).ledger : e.claim = c.tx}
  BY <1>1, <1>2
<1>4. \E e \in ledger : e.claim = c.tx
  BY <1>1 DEF MemoryInv, EntriesInv
<1>5. \E e \in Underived(p).ledger : e.claim = c.tx
  BY <1>1, <1>3, <1>4
<1>. QED
  BY <1>1, <1>3, <1>5, SameLatest

\* L believes what M believes, unless a read of an instant falls back.
Keeps(p, L, M) ==
  /\ {c \in Recall(M, clock) : Holds(c, clock)} \subseteq Recall(L, clock)
  /\ \A v \in Asked : \A c \in RecallAt(M, clock, v) \ RecallAt(L, clock, v) :
       SomeEnded(p) /\ FallsBack(L) /\ ~(Live(L, c, clock) /\ Holds(c, v))

\* So does a line believe what it believes without what was derived.
LEMMA NothingDisplaced ==
  ASSUME MemoryInv, NEW p
  PROVE  Keeps(p, Line(p), Underived(p))
<1> DEFINE L == Line(p)
           M == Underived(p)
<1>1. /\ M.claims \subseteq L.claims /\ L.claims \subseteq claims
      /\ M.assertions = assertions /\ L.assertions = assertions
  BY DEF Underived, View, Line
<1>2. /\ Recall(M, clock) = Fold(M, clock, clock) /\ Recall(L, clock) = Fold(L, clock, clock)
      /\ \A v : RecallAt(M, clock, v) = Narrowed(M, clock, v)
      /\ \A v : RecallAt(L, clock, v) = Narrowed(L, clock, v)
      /\ AsOf(L, clock) = L
  <2>1. {c \in L.claims : c.tx \notin DerivedOf(p)} \subseteq claims
    BY <1>1
  <2>2. {e \in ledger : e.at \notin DerivedOf(p)} \subseteq ledger
    OBVIOUS
  <2>3. {c \in claims : c.predicate = p} \subseteq claims
    OBVIOUS
  <2>. QED
    BY <2>1, <2>2, <2>3, ReadsAll, LineIs DEF Underived
<1>0. \A c \in M.claims : Latest(M, c) = Latest(L, c)
  BY UnderivedReadsAlike
<1>3. RawLive(M, clock) \subseteq RawLive(L, clock)
  <2>. SUFFICES ASSUME NEW c \in M.claims, Live(M, c, clock) PROVE c \in L.claims /\ Live(L, c, clock)
    BY DEF RawLive
  <2>1. Latest(M, c) = Latest(L, c)
    BY UnderivedReadsAlike
  <2>. QED
    BY <1>1, <2>1, ClaimDepends
<1>. HIDE DEF L, M
<1>4. {c \in Fold(M, clock, clock) : Holds(c, clock)} \subseteq Fold(L, clock, clock)
  BY <1>3 DEF Fold
<1>5. ASSUME ~SomeEnded(p), NEW v
      PROVE  Narrowed(M, clock, v) \subseteq Narrowed(L, clock, v)
  <2>1. \A c \in L.claims : \A a \in assertions : a.claim # c.tx
    BY <1>5 DEF SomeEnded, L
  <2>2. /\ Reentrant(L, clock) = RawLive(L, clock)
        /\ \A c \in L.claims : Window(L, c, clock) = c
    BY <1>1, <2>1, NothingEnded
  <2>3. /\ Reentrant(M, clock) = RawLive(M, clock)
        /\ \A c \in M.claims : Window(M, c, clock) = c
    BY <1>1, <2>1, NothingEnded
  <2>4. RawLive(L, clock) \subseteq L.claims /\ RawLive(M, clock) \subseteq M.claims
    BY DEF RawLive
  <2>5. {Window(L, c, clock) : c \in RawLive(L, clock)} = RawLive(L, clock)
    BY <2>2, <2>4
  <2>6. {Window(M, c, clock) : c \in RawLive(M, clock)} = RawLive(M, clock)
    BY <2>3, <2>4
  <2>7. Narrowed(L, clock, v) =
          IF Succession(RawLive(L, clock))
            THEN {c \in RawLive(L, clock) : Holds(Window(L, c, clock), v)} ELSE Fold(L, clock, v)
    BY <2>2, <2>5 DEF Narrowed
  <2>8. Narrowed(M, clock, v) =
          IF Succession(RawLive(M, clock))
            THEN {c \in RawLive(M, clock) : Holds(Window(M, c, clock), v)} ELSE Fold(M, clock, v)
    BY <2>3, <2>6 DEF Narrowed
  <2>9. Succession(RawLive(L, clock)) => Succession(RawLive(M, clock))
    BY <1>3, FewerSucceed
  <2>10. ~Succession(RawLive(L, clock)) => Fold(L, clock, v) = RawLive(L, clock)
    BY DEF Fold
  <2>11. Fold(M, clock, v) \subseteq RawLive(M, clock)
    BY DEF Fold
  <2>12. CASE Succession(RawLive(L, clock))
    <3>1. \A c \in RawLive(M, clock) : Window(M, c, clock) = c /\ Window(L, c, clock) = c
      BY <1>1, <2>2, <2>3, <2>4
    <3>. QED
      BY <1>3, <2>7, <2>8, <2>9, <2>12, <3>1
  <2>13. CASE ~Succession(RawLive(L, clock))
    BY <1>3, <2>7, <2>8, <2>10, <2>11, <2>13
  <2>. QED
    BY <2>12, <2>13
<1>6. ASSUME ~FallsBack(L), NEW v
      PROVE  Narrowed(M, clock, v) \subseteq Narrowed(L, clock, v)
  <2> DEFINE Wide(N) == {Window(N, c, clock) : c \in Reentrant(N, clock)}
  <2>1. \A c \in M.claims : /\ Window(M, c, clock) = Window(L, c, clock)
                            /\ c \in Reentrant(M, clock) => c \in Reentrant(L, clock)
    <3>. SUFFICES ASSUME NEW c \in M.claims
                  PROVE  /\ Window(M, c, clock) = Window(L, c, clock)
                         /\ c \in Reentrant(M, clock) => c \in Reentrant(L, clock)
      OBVIOUS
    <3>1. /\ ActiveBound(M, c, clock) = ActiveBound(L, c, clock) /\ Window(M, c, clock) = Window(L, c, clock)
          /\ Live(M, c, clock) <=> Live(L, c, clock)
          /\ HardExcluded(M, c) <=> HardExcluded(L, c)
          /\ Denied(M, c) <=> Denied(L, c)
      BY <1>1, <1>0, ClaimDepends
    <3>. QED
      BY <1>1, <3>1 DEF Reentrant
  <2>2. Reentrant(M, clock) \subseteq M.claims
    BY DEF Reentrant
  <2>3. Succession(Wide(L))
    BY <1>2, <1>6 DEF FallsBack
  <2>4. Wide(M) \subseteq Wide(L)
    BY <2>1, <2>2
  <2>5. Succession(Wide(M))
    BY <2>3, <2>4, FewerSucceed
  <2>6. /\ Narrowed(M, clock, v) = {c \in Reentrant(M, clock) : Holds(Window(M, c, clock), v)}
        /\ Narrowed(L, clock, v) = {c \in Reentrant(L, clock) : Holds(Window(L, c, clock), v)}
    BY <2>3, <2>5 DEF Narrowed
  <2>. QED
    BY <2>1, <2>2, <2>6
<1>7. ASSUME NEW c \in L.claims, Live(L, c, clock), NEW v, Holds(c, v)
      PROVE  c \in Narrowed(L, clock, v)
  <2>1. ActiveBound(L, c, clock) = Never /\ ~Excluded(L, c)
    BY <1>7 DEF Live
  <2>2. Window(L, c, clock) = c
    BY <1>1, <2>1, NeverNarrows
  <2>3. c \in Reentrant(L, clock) /\ c \in RawLive(L, clock)
    BY <1>7, <2>1 DEF Reentrant, RawLive, Excluded, HardExcluded
  <2>4. c \in Fold(L, clock, v)
    BY <1>7, <2>3 DEF Fold
  <2>. QED
    BY <1>7, <2>2, <2>3, <2>4 DEF Narrowed
<1>8. \A v : Narrowed(M, clock, v) \subseteq M.claims
  BY DEF Narrowed, Fold, Reentrant, RawLive
<1>. QED
  BY <1>1, <1>2, <1>4, <1>5, <1>6, <1>7, <1>8 DEF Keeps, L, M

\* What a model derived takes nothing out that was told from outside: without it a line believes
\* nothing of now, nor of an instant, that it does not believe with it, but for ended facts (and
\* what does not hold then) where the read of an instant falls back to what is live (the gate lets
\* a derived claim in as Inferred and appends no entry but its own).
THEOREM DerivedDisplacesNothing == TimelineSpec => []DerivedNeverDisplaces
<1>1. MemoryInv => DerivedNeverDisplaces
  <2>. SUFFICES ASSUME MemoryInv, NEW p \in Predicate
                PROVE  LET L == Line(p)
                           derived == {c.tx : c \in {d \in L.claims : d.origin = "derived"}}
                           without == [L EXCEPT !.claims = {c \in @ : c.tx \notin derived},
                                                !.ledger = {e \in @ : e.at \notin derived}]
                       IN  Keeps(p, L, without)
    BY Zenon DEF DerivedNeverDisplaces, Keeps
  <2> DEFINE L == Line(p)
             X == {c \in L.claims : c.tx \notin DerivedOf(p)}
             Y == {e \in L.ledger : e.at \notin DerivedOf(p)}
             without == [L EXCEPT !.claims = X, !.ledger = Y]
  <2>1. L = View(L.claims, L.ledger) /\ L.ledger = ledger
    BY DEF Line, View
  <2>. HIDE DEF L, X, Y
  <2>2. without = View(X, Y)
    <3>1. without = [k \in {"claims", "ledger", "assertions"} |-> without[k]]
      BY <2>1 DEF View
    <3>2. without.claims = X /\ without.ledger = Y /\ without.assertions = assertions
      BY <2>1 DEF View
    <3>. HIDE DEF without
    <3>. QED
      BY <3>1, <3>2 DEF View
  <2>3. without = Underived(p)
    BY <2>1, <2>2 DEF Underived, L, X, Y
  <2>. QED
    BY <2>3, NothingDisplaced DEF DerivedOf, L, X, Y
<1>. QED
  BY <1>1, MemoryInvariant, PTL

-----------------------------------------------------------------------------
(* The history of a line.                                                  *)

\* The first claim of a set in the order of ordering_key is one of the set, and before the rest.
LEMMA FirstIsFirst ==
  ASSUME NEW S, S # {}, \A c \in S : Key(c) \in Nat /\ c.tx \in Nat,
         \A c, d \in S : c.tx = d.tx => c = d
  PROVE  First(S) \in S /\ \A d \in S \ {First(S)} : Precedes(First(S), d)
<1>1. PICK k \in {Key(c) : c \in S} : \A j \in {Key(c) : c \in S} : k <= j
  <2>1. {Key(c) : c \in S} \subseteq Nat /\ {Key(c) : c \in S} # {}
    OBVIOUS
  <2>. QED
    BY <2>1, LeastNat
<1> DEFINE A == {c \in S : Key(c) = k}
<1>2. PICK t \in {c.tx : c \in A} : \A u \in {c.tx : c \in A} : t <= u
  <2>1. {c.tx : c \in A} \subseteq Nat /\ {c.tx : c \in A} # {}
    BY <1>1
  <2>. QED
    BY <2>1, LeastNat
<1>3. PICK c \in A : c.tx = t
  BY <1>2
<1>4. ASSUME NEW d \in S \ {c} PROVE Precedes(c, d)
  <2>1. k <= Key(d)
    BY <1>1
  <2>2. CASE Key(d) = k
    <3>1. d \in A /\ t <= d.tx /\ d.tx # t
      BY <1>2, <1>3, <2>2
    <3>. QED
      BY <1>3, <2>2, <3>1 DEF Precedes
  <2>3. CASE Key(d) # k
    BY <1>3, <2>1, <2>3 DEF Precedes
  <2>. QED
    BY <2>2, <2>3
<1>. QED
  BY <1>3, <1>4 DEF First

\* The first of some claims.
LEMMA FirstOfClaims ==
  ASSUME MemoryInv, NEW S, S \subseteq claims, S # {}
  PROVE  First(S) \in S /\ \A d \in S : Key(First(S)) <= Key(d)
<1>1. /\ \A c \in S : Key(c) \in Nat /\ c.tx \in Nat
      /\ \A c, d \in S : c.tx = d.tx => c = d
  BY ClaimTypes DEF MemoryInv, ClaimsInv
<1>2. First(S) \in S /\ \A d \in S \ {First(S)} : Precedes(First(S), d)
  BY <1>1, FirstIsFirst
<1>. QED
  BY <1>1, <1>2 DEF Precedes

\* The bound that is in force is Never, or an instant an assertion states that counts.
LEMMA BoundType ==
  ASSUME MemoryInv, NEW M, M.assertions = assertions, NEW c, NEW t
  PROVE  /\ ActiveBound(M, c, t) \in Nat
         /\ \/ ActiveBound(M, c, t) = Never
            \/ \E a \in Effective(M, c, t) : a.at = ActiveBound(M, c, t)
<1> DEFINE E == Effective(M, c, t)
           last == CHOOSE a \in E : \A b \in E : b.asserted <= a.asserted
<1>1. ActiveBound(M, c, t) = IF E # {} /\ last.kind = "Bound" THEN last.at ELSE Never
  BY DEF ActiveBound
<1>2. \A a \in E : a.at \in Nat /\ a.asserted \in Nat /\ clock - a.asserted \in Nat
  BY DEF Effective, MemoryInv, EndsInv
<1>3. E # {} => \E a \in E : \A b \in E : b.asserted <= a.asserted
  <2>. SUFFICES ASSUME E # {} PROVE \E a \in E : \A b \in E : b.asserted <= a.asserted
    OBVIOUS
  <2> DEFINE T == {clock - a.asserted : a \in E}
  <2>1. T \subseteq Nat /\ T # {}
    BY <1>2
  <2>. HIDE DEF T, E
  <2>2. PICK n \in T : \A m \in T : n <= m
    BY <2>1, LeastNat
  <2>3. PICK a \in E : n = clock - a.asserted
    BY <2>2 DEF T
  <2>4. ASSUME NEW b \in E PROVE b.asserted <= a.asserted
    <3>1. clock - b.asserted \in T
      BY DEF T
    <3>2. clock - a.asserted <= clock - b.asserted
      BY <2>2, <2>3, <3>1
    <3>. QED
      BY <1>2, <3>2 DEF MemoryInv
  <2>. QED
    BY <2>4
<1>. HIDE DEF E
<1>4. E # {} => last \in E
  BY <1>3
<1>. HIDE DEF last
<1>5. CASE E # {} /\ last.kind = "Bound"
  <2>1. last \in E /\ ActiveBound(M, c, t) = last.at /\ last.at \in Nat
    BY <1>1, <1>2, <1>4, <1>5
  <2>. QED
    BY <2>1 DEF E
<1>6. CASE ~(E # {} /\ last.kind = "Bound")
  BY <1>1, <1>6, AdmissionAssumption
<1>. QED
  BY <1>5, <1>6

\* A bound leaves all but the end of a window as it is.
LEMMA WindowOf ==
  ASSUME MemoryInv, NEW c \in claims, NEW M, M.assertions = assertions, NEW t
  PROVE  /\ Window(M, c, t).end = Least(c.end, ActiveBound(M, c, t))
         /\ Window(M, c, t).end \in Nat
         /\ Window(M, c, t).start = c.start /\ Window(M, c, t).tx = c.tx
         /\ Window(M, c, t).value = c.value /\ Key(Window(M, c, t)) = Key(c)
         /\ Trusted(Window(M, c, t)) <=> Trusted(c)
<1>1. c = Stamp(c.predicate, c.offer, c.lineage, c.tx)
  BY DEF MemoryInv, ClaimsInv, Genuine
<1> DEFINE w == Window(M, c, t)
<1>2. /\ w.end = Least(c.end, ActiveBound(M, c, t)) /\ w.start = c.start /\ w.tx = c.tx
      /\ w.value = c.value /\ w.timed = c.timed
  BY <1>1 DEF Window, Stamp
<1>. HIDE DEF w
<1>3. c.end \in Nat /\ ActiveBound(M, c, t) \in Nat
  BY ClaimTypes, BoundType
<1>4. Trusted(w) <=> Trusted(c)
  BY <1>2 DEF Trusted
<1>5. Key(w) = Key(c)
  BY <1>2, <1>4 DEF Key
<1>6. w.end \in Nat
  BY <1>2, <1>3 DEF Least
<1>. QED
  BY <1>2, <1>4, <1>5, <1>6 DEF w

\* The end of an entry is where the windows of query_history end.
LEMMA EndOfEntry ==
  ASSUME MemoryInv, NEW p, NEW c \in Line(p).claims
  PROVE  LET L == Line(p)
             next == First(Successors(L, c))
         IN  /\ HistoryEntry(L, c, clock).claim = c
             /\ HistoryEntry(L, c, clock).status = EntryStatus(L, c, clock)
             /\ HistoryEntry(L, c, clock).end = Until(L, c, clock)
             /\ Successors(L, c) # {} =>
                  /\ next \in L.claims /\ Key(c) < Key(next) /\ Key(next) \in Nat
                  /\ \A d \in Successors(L, c) : Key(next) <= Key(d)
                  /\ ~OverlapsNext(L, c, clock) => Until(L, c, clock) <= Key(next)
             /\ Until(L, c, clock) \in Nat
<1> DEFINE L == Line(p)
           next == First(Successors(L, c))
           own == OwnEnd(L, c, clock)
           w == Window(L, c, clock)
<1>1. L.claims \subseteq claims /\ L.assertions = assertions /\ c \in L.claims
  BY DEF Line
<1>2. HistoryEntry(L, c, clock).claim = c
      /\ HistoryEntry(L, c, clock).status = EntryStatus(L, c, clock)
      /\ HistoryEntry(L, c, clock).end = UntilStamp(L, c, clock)[1]
  BY DEF HistoryEntry
<1>. HIDE DEF L
<1>3. w.end = Least(c.end, ActiveBound(L, c, clock)) /\ w.end \in Nat
  BY <1>1, WindowOf
<1>4. c.end \in Nat /\ ActiveBound(L, c, clock) \in Nat
  BY <1>1, ClaimTypes, BoundType
<1>5. own[1] = IF ActiveBound(L, c, clock) < c.end THEN ActiveBound(L, c, clock) ELSE c.end
  BY DEF OwnEnd
<1>6. own[1] = w.end
  BY <1>3, <1>4, <1>5 DEF Least
<1>7. ASSUME Successors(L, c) # {}
      PROVE  /\ next \in L.claims /\ Key(c) < Key(next) /\ Key(next) \in Nat
             /\ \A d \in Successors(L, c) : Key(next) <= Key(d)
  <2>1. Successors(L, c) \subseteq claims
    BY <1>1 DEF Successors
  <2>2. next \in Successors(L, c) /\ \A d \in Successors(L, c) : Key(next) <= Key(d)
    BY <1>7, <2>1, FirstOfClaims
  <2>3. next \in L.claims /\ Key(next) > Key(c) /\ next \in claims
    BY <2>1, <2>2 DEF Successors
  <2>4. Key(next) \in Nat /\ Key(c) \in Nat
    BY <1>1, <2>3, ClaimTypes
  <2>. QED
    BY <2>2, <2>3, <2>4
<1>8. KeyStamp(next)[1] = Key(next)
  BY DEF KeyStamp
<1>9. UntilStamp(L, c, clock) =
        IF Successors(L, c) = {} \/ OverlapsNext(L, c, clock) \/ own[1] <= KeyStamp(next)[1]
          THEN own ELSE KeyStamp(next)
  BY DEF UntilStamp
<1>10. Until(L, c, clock) =
        IF Successors(L, c) = {} \/ (Trusted(c) /\ Trusted(next) /\ ~Apart(w, next))
          THEN w.end ELSE Least(w.end, Key(next))
  BY DEF Until
<1>11. OverlapsNext(L, c, clock) <=>
         Successors(L, c) # {} /\ Trusted(c) /\ Trusted(next) /\ ~Apart(w, next)
  BY DEF OverlapsNext
<1>. HIDE DEF own, next, w
<1>12. UntilStamp(L, c, clock)[1] =
         IF Successors(L, c) = {} \/ OverlapsNext(L, c, clock) \/ w.end <= Key(next)
           THEN w.end ELSE Key(next)
  BY <1>6, <1>8, <1>9
<1>13. CASE Successors(L, c) = {}
  BY <1>2, <1>3, <1>10, <1>12, <1>13 DEF L, w
<1>14. CASE Successors(L, c) # {} /\ OverlapsNext(L, c, clock)
  BY <1>2, <1>3, <1>7, <1>10, <1>11, <1>12, <1>14 DEF L, next
<1>15. CASE Successors(L, c) # {} /\ ~OverlapsNext(L, c, clock)
  <2>1. Until(L, c, clock) = Least(w.end, Key(next)) /\ Key(next) \in Nat
    BY <1>7, <1>10, <1>11, <1>15
  <2>2. /\ Until(L, c, clock) = UntilStamp(L, c, clock)[1] /\ Until(L, c, clock) <= Key(next)
        /\ Until(L, c, clock) \in Nat
    BY <1>3, <1>12, <1>15, <2>1 DEF Least
  <2>. QED
    BY <1>2, <1>7, <1>15, <2>2 DEF L, next
<1>. QED
  BY <1>13, <1>14, <1>15

\* What a line believes now.
LEMMA BelievedNow ==
  ASSUME MemoryInv, NEW p
  PROVE  LET L == Line(p)
             S == Fold(L, clock, clock)
         IN  /\ Recall(L, clock) = S /\ Believed(p, Never) = S
             /\ S \subseteq RawLive(L, clock) /\ RawLive(L, clock) \subseteq L.claims
             /\ L.claims \subseteq claims /\ IsFiniteSet(RawLive(L, clock)) /\ IsFiniteSet(S)
<1> DEFINE L == Line(p)
<1>1. Recall(L, clock) = Fold(L, clock, clock)
  <2>1. {c \in claims : c.predicate = p} \subseteq claims
    OBVIOUS
  <2>. QED
    BY <2>1, ReadsAll, LineIs
<1>2. Believed(p, Never) = Recall(L, clock)
  BY DEF Believed
<1>3. L.claims \subseteq claims
  BY DEF Line
<1>. HIDE DEF L
<1>4. Fold(L, clock, clock) \subseteq RawLive(L, clock) /\ RawLive(L, clock) \subseteq L.claims
  BY DEF Fold, RawLive
<1>5. IsFiniteSet(RawLive(L, clock)) /\ IsFiniteSet(Fold(L, clock, clock))
  BY <1>3, <1>4, FS_Subset DEF MemoryInv, ClaimsInv
<1>. QED
  BY <1>1, <1>2, <1>3, <1>4, <1>5 DEF L

\* The entries of a line.
LEMMA EntriesAre ==
  ASSUME NEW p
  PROVE  History(p) = {HistoryEntry(Line(p), c, clock) : c \in Line(p).claims}
  BY DEF History

\* Two claims that a line believes are live, and no succession, if one runs into the other.
LEMMA RunsIntoLive ==
  ASSUME MemoryInv, NEW p, NEW c, NEW d, c # d,
         c \in RawLive(Line(p), clock), d \in RawLive(Line(p), clock),
         ~Apart(Window(Line(p), c, clock), d)
  PROVE  {c, d} \subseteq Fold(Line(p), clock, clock)
<1>1. c \in claims /\ ActiveBound(Line(p), c, clock) = Never
  BY BelievedNow DEF RawLive, Live
<1>2. Window(Line(p), c, clock) = c
  BY <1>1, NeverNarrows
<1>3. ~Succession(RawLive(Line(p), clock))
  BY <1>2 DEF Succession
<1>. QED
  BY <1>3 DEF Fold

\* The history and recall agree on what holds now, and entries that conflict with nothing do not
\* overlap (compute_history_windows and fold classify from one derivation).
THEOREM HistoryAndRecallAgree == TimelineSpec => []HistoryAgreesWithRecall
<1>1. ASSUME MemoryInv, NEW p
      PROVE  LET L == Line(p)
                 S == Believed(p, Never)
                 entries == History(p)
                 current == Current(p)
                 RunsIntoUnbelieved(c) ==
                   OverlapsNext(L, c, clock) /\ ~Live(L, First(Successors(L, c)), clock)
             IN  /\ HasConflict(S) =>
                      /\ current = {}
                      /\ S \subseteq {e.claim : e \in {x \in entries : x.status = "Contested"}}
                 /\ \A c \in PrimaryOf(S) :
                      /\ current \subseteq {c}
                      /\ ~RunsIntoUnbelieved(c) =>
                           (current = {c} <=>
                              c.start <= clock /\ \E e \in entries : e.claim = c /\ clock < e.end)
                 /\ \A e, f \in entries :
                      (/\ {e.status, f.status} \subseteq {"Current", "Ended"}
                       /\ Trusted(e.claim) /\ Trusted(f.claim) /\ Key(e.claim) < Key(f.claim))
                      => e.end <= f.claim.start
  <2> DEFINE L == Line(p)
             S == Fold(L, clock, clock)
             E(c) == HistoryEntry(L, c, clock)
             entries == History(p)
             current == Current(p)
             Next1(c) == First(Successors(L, c))
             Holding(c) == c.start <= clock /\ clock < Until(L, c, clock)
  <2>1. /\ Believed(p, Never) = S /\ S \subseteq RawLive(L, clock)
        /\ RawLive(L, clock) \subseteq L.claims
        /\ L.claims \subseteq claims /\ IsFiniteSet(S)
    BY <1>1, BelievedNow
  <2>2. entries = {E(c) : c \in L.claims}
    BY EntriesAre
  <2>3. current = {e.claim : e \in {x \in entries : x.status = "Current"}}
    BY DEF Current
  <2>4. ASSUME NEW c \in L.claims
        PROVE  /\ E(c).claim = c /\ E(c).status = EntryStatus(L, c, clock)
               /\ E(c).end = Until(L, c, clock)
               /\ Successors(L, c) # {} =>
                    /\ Next1(c) \in L.claims /\ Key(c) < Key(Next1(c)) /\ Key(Next1(c)) \in Nat
                    /\ \A d \in Successors(L, c) : Key(Next1(c)) <= Key(d)
                    /\ ~OverlapsNext(L, c, clock) => Until(L, c, clock) <= Key(Next1(c))
               /\ Until(L, c, clock) \in Nat
    BY <1>1, EndOfEntry
  <2>5. ASSUME NEW c
        PROVE  EntryStatus(L, c, clock) =
                 IF ~Live(L, c, clock) THEN "Superseded"
                 ELSE IF OverlapsNext(L, c, clock) \/ HasConflict(S) THEN "Contested"
                 ELSE IF c \in S /\ Holding(c) THEN "Current" ELSE "Ended"
    BY DEF EntryStatus
  <2>6. ASSUME NEW c PROVE c \in RawLive(L, clock) <=> c \in L.claims /\ Live(L, c, clock)
    BY DEF RawLive
  <2>. HIDE DEF E, L, S, entries, current, Next1, Holding
  <2>7. \A c \in L.claims : c \in current <=> EntryStatus(L, c, clock) = "Current"
    BY <2>2, <2>3, <2>4
  <2>8. current \subseteq L.claims
    BY <2>2, <2>3, <2>4
  <2>9. ASSUME HasConflict(S)
        PROVE  /\ current = {}
               /\ S \subseteq {e.claim : e \in {x \in entries : x.status = "Contested"}}
    <3>1. \A c \in L.claims : EntryStatus(L, c, clock) # "Current"
      BY <2>5, <2>9
    <3>2. current = {}
      BY <2>7, <2>8, <3>1
    <3>3. ASSUME NEW c \in S
          PROVE  c \in {e.claim : e \in {x \in entries : x.status = "Contested"}}
      <4>1. c \in L.claims /\ Live(L, c, clock)
        BY <2>1, <2>6
      <4>2. EntryStatus(L, c, clock) = "Contested"
        BY <2>5, <2>9, <4>1
      <4>. QED
        BY <2>2, <2>4, <4>1, <4>2
    <3>. QED
      BY <3>2, <3>3
  <2>10. ASSUME NEW c \in PrimaryOf(S)
         PROVE  /\ current \subseteq {c}
                /\ ~(OverlapsNext(L, c, clock) /\ ~Live(L, Next1(c), clock)) =>
                     (current = {c} <=>
                        c.start <= clock /\ \E e \in entries : e.claim = c /\ clock < e.end)
    <3>1. Cardinality(S) = 1 /\ ~HasConflict(S) /\ c \in S
      BY DEF PrimaryOf
    <3>2. S = {c}
      BY <2>1, <3>1, FS_Singleton
    <3>3. c \in RawLive(L, clock) /\ c \in L.claims /\ Live(L, c, clock)
      BY <2>1, <2>6, <3>1
    <3>4. \A d \in L.claims : EntryStatus(L, d, clock) = "Current" => d \in S
      BY <2>5
    <3>5. current \subseteq {c}
      BY <2>7, <2>8, <3>2, <3>4
    <3>6. ASSUME OverlapsNext(L, c, clock), Live(L, Next1(c), clock) PROVE FALSE
      <4>1. Successors(L, c) # {} /\ ~Apart(Window(L, c, clock), Next1(c))
        BY <3>6 DEF OverlapsNext, Next1
      <4>2. Next1(c) \in L.claims /\ Key(c) < Key(Next1(c)) /\ Key(Next1(c)) \in Nat
        BY <2>4, <3>3, <4>1
      <4>3. Next1(c) # c
        BY <2>1, <4>2, <3>3, <1>1, ClaimTypes
      <4>4. Next1(c) \in RawLive(L, clock)
        BY <2>6, <3>6, <4>2
      <4>5. {c, Next1(c)} \subseteq S
        BY <1>1, <3>3, <4>1, <4>3, <4>4, RunsIntoLive DEF L, S
      <4>. QED
        BY <3>2, <4>3, <4>5
    <3>7. ASSUME ~(OverlapsNext(L, c, clock) /\ ~Live(L, Next1(c), clock))
          PROVE  c \in current <=> Holding(c)
      <4>1. ~OverlapsNext(L, c, clock)
        BY <3>6, <3>7
      <4>2. EntryStatus(L, c, clock) = IF Holding(c) THEN "Current" ELSE "Ended"
        BY <2>5, <3>1, <3>3, <4>1
      <4>. QED
        BY <2>7, <3>3, <4>2
    <3>8. Holding(c) <=> c.start <= clock /\ \E e \in entries : e.claim = c /\ clock < e.end
      <4>1. E(c) \in entries /\ \A e \in entries : e.claim = c => e = E(c)
        BY <2>2, <2>4, <3>3
      <4>2. E(c).claim = c /\ E(c).end = Until(L, c, clock)
        BY <2>4, <3>3
      <4>. QED
        BY <4>1, <4>2 DEF Holding
    <3>. QED
      BY <3>5, <3>7, <3>8
  <2>11. ASSUME NEW e \in entries, NEW f \in entries,
                {e.status, f.status} \subseteq {"Current", "Ended"},
                Trusted(e.claim), Trusted(f.claim), Key(e.claim) < Key(f.claim)
         PROVE  e.end <= f.claim.start
    <3>1. PICK c \in L.claims : e = E(c)
      BY <2>2
    <3>2. PICK d \in L.claims : f = E(d)
      BY <2>2
    <3>3. e.claim = c /\ e.status = EntryStatus(L, c, clock) /\ e.end = Until(L, c, clock)
      BY <2>4, <3>1
    <3>4. f.claim = d
      BY <2>4, <3>2
    <3>5. d \in Successors(L, c)
      BY <2>1, <2>11, <3>3, <3>4, <1>1, ClaimTypes DEF Successors
    <3>6. ~OverlapsNext(L, c, clock)
      BY <2>5, <2>11, <3>3
    <3>7. Until(L, c, clock) <= Key(Next1(c)) /\ Key(Next1(c)) <= Key(d) /\ Key(Next1(c)) \in Nat
      BY <2>4, <3>5, <3>6
    <3>8. Key(d) = d.start /\ d.start \in Nat
      BY <1>1, <2>1, <2>11, <3>4, ClaimTypes DEF Key
    <3>9. Until(L, c, clock) \in Nat
      BY <2>4
    <3>. QED
      BY <3>3, <3>4, <3>7, <3>8, <3>9
  <2>. QED
    BY <2>1, <2>9, <2>10, <2>11, Zenon DEF L, S, Next1, entries, current
<1>2. MemoryInv => HistoryAgreesWithRecall
  BY <1>1, Zenon DEF HistoryAgreesWithRecall
<1>. QED
  BY <1>2, MemoryInvariant, PTL

-----------------------------------------------------------------------------
(* What a receipt says.                                                    *)

\* The line as it was when a claim was told that is its youngest.
LineBefore(c) == View({d \in claims : d.predicate = c.predicate /\ d.tx # c.tx},
                  {e \in ledger : e.claim # c.tx})

\* Who a candidate is measured against, and what is decided.
Incumbent(M, t) ==
  IF Fold(M, t, t) # {} THEN {First(Fold(M, t, t))}
  ELSE IF Rivals(M, t) # {} THEN {First(Rivals(M, t))} ELSE {}
Decided(c, M, t) == Route(c, Conflicts(c, Incumbent(M, t), Rivals(M, t)))

\* Until the next call the receipt of a claim says what was decided about it, of the line as it
\* was without it; its one entry says the same, and nothing was ended since.
Receipted(c, M, t) ==
  /\ receipt.disp = Decided(c, M, t)
  /\ receipt.contested = IF Decided(c, M, t) \in {"Contested", "Queued"}
                           THEN {i.tx : i \in Incumbent(M, t)} ELSE {}
  /\ \E e \in ledger : /\ e.claim = c.tx /\ e.disp = Decided(c, M, t)
                      /\ \A f \in ledger : f.claim = c.tx => f = e
  /\ \A a \in assertions : a.claim # c.tx

ReceiptInv ==
  \A c \in claims : receipt.claim = c.tx /\ c.tx = clock => Receipted(c, LineBefore(c), clock)

\* A fact is told to the line as it was.
LEMMA ToldToLine ==
  ASSUME MemoryInv, NEW c, Tells(c), Commit(c), NEW L, L = Line(c.predicate), NEW t, t = clock + 1
  PROVE  clock' = t /\ c.tx = t /\ claims' = claims \cup {c} /\ LineBefore(c)' = L /\ Receipted(c, L, t)'
<1> DEFINE disp == Decided(c, L, t)
<1>1. clock' = t /\ c.tx = t /\ clock \in Nat /\ assertions' = assertions
  BY StampIs DEF Tells, MemoryInv
<1>2. /\ claims' = claims \cup {c}
      /\ ledger' = ledger \cup Appended(c, disp, Incumbent(L, t))
      /\ receipt' = [outcome |-> "answered", claim |-> c.tx, disp |-> disp,
                     contested |-> IF disp \in {"Contested", "Queued"}
                                     THEN {i.tx : i \in Incumbent(L, t)} ELSE {}]
  BY <1>1, Zenon DEF Commit, Decided, Incumbent
<1>. HIDE DEF disp
<1> DEFINE e == [claim |-> c.tx, disp |-> disp, at |-> c.tx, by |-> "ingest"]
<1>3. ledger' = ledger \cup {e} /\ e.claim = c.tx /\ e.disp = disp
  BY <1>2 DEF Appended
<1>. HIDE DEF e
<1>4. \A d \in claims : d.tx # c.tx
  BY <1>1, ClaimTypes
<1>5. \A f \in ledger : f.claim # c.tx
  <2>. SUFFICES ASSUME NEW f \in ledger PROVE f.claim # c.tx
    OBVIOUS
  <2>1. f.claim \in Known
    BY DEF MemoryInv, EntriesInv
  <2>. QED
    BY <1>4, <2>1 DEF Known
<1>6. \A a \in assertions : a.claim # c.tx
  <2>. SUFFICES ASSUME NEW a \in assertions PROVE a.claim # c.tx
    OBVIOUS
  <2>1. a.claim \in Known
    BY DEF MemoryInv, EndsInv
  <2>. QED
    BY <1>4, <2>1 DEF Known
<1>7. {d \in claims' : d.predicate = c.predicate /\ d.tx # c.tx}
        = {d \in claims : d.predicate = c.predicate}
  BY <1>2, <1>4
<1>8. {f \in ledger' : f.claim # c.tx} = ledger
  BY <1>3, <1>5
<1>9. LineBefore(c)' = L
  BY <1>1, <1>7, <1>8, LineIs DEF LineBefore, View
<1>10. /\ receipt'.disp = disp
       /\ receipt'.contested = IF disp \in {"Contested", "Queued"}
                                 THEN {i.tx : i \in Incumbent(L, t)} ELSE {}
  BY <1>2
<1>11. \E f \in ledger' : /\ f.claim = c.tx /\ f.disp = disp
                         /\ \A g \in ledger' : g.claim = c.tx => g = f
  BY <1>3, <1>5
<1>. QED
  BY <1>1, <1>2, <1>6, <1>9, <1>10, <1>11 DEF Receipted, disp

\* Receipts stay true: a call takes a new instant, so the claim of an older one is older.
LEMMA ReceiptStep == MemoryInv /\ ReceiptInv /\ [TimelineNext]_vars => ReceiptInv'
<1>. SUFFICES ASSUME MemoryInv, ReceiptInv, [TimelineNext]_vars PROVE ReceiptInv'
  OBVIOUS
<1>1. CASE UNCHANGED vars
  BY <1>1 DEF vars, ReceiptInv, Receipted, LineBefore, View
<1>2. ASSUME claims' = claims, clock' = clock + 1 \/ clock' = Epoch PROVE ReceiptInv'
  <2>1. \A c \in claims : c.tx # clock'
    BY <1>2, ClaimTypes, AdmissionAssumption DEF MemoryInv
  <2>. QED
    BY <1>2, <2>1 DEF ReceiptInv
<1>3. ASSUME NEW c, Tells(c), Commit(c) PROVE ReceiptInv'
  <2>1. PICK L : L = Line(c.predicate)
    OBVIOUS
  <2>2. PICK t : t = clock + 1
    OBVIOUS
  <2>3. /\ clock' = t /\ c.tx = t /\ claims' = claims \cup {c}
        /\ LineBefore(c)' = L /\ Receipted(c, L, t)'
    BY <1>3, <2>1, <2>2, ToldToLine
  <2>4. \A d \in claims : d.tx # clock'
    BY <2>2, <2>3, ClaimTypes DEF MemoryInv
  <2>5. Receipted(c, LineBefore(c), clock)'
    BY <2>3 DEF Receipted
  <2>. QED
    BY <2>3, <2>4, <2>5 DEF ReceiptInv
<1>4. ASSUME NEW p \in Predicate, NEW text \in EndText, EndFactTool(p, text) PROVE ReceiptInv'
  BY <1>2, <1>4, EndWrites
<1>. QED
  BY <1>1, <1>2, <1>3, <1>4, StepIs

\* Receipts are true at all times.
LEMMA ReceiptInvariant == TimelineSpec => []ReceiptInv
<1>1. Init => ReceiptInv
  BY DEF Init, ReceiptInv
<1>. QED
  BY <1>1, ReceiptStep, MemoryInvariant, PTL DEF TimelineSpec

\* A line just told a fact reads its other claims as it did before.
LEMMA LineAfter ==
  ASSUME MemoryInv, NEW c \in claims, Receipted(c, LineBefore(c), clock)
  PROVE  LET L == Line(c.predicate)
             M == LineBefore(c)
             N == View(M.claims, ledger)
         IN  /\ L.claims = M.claims \cup {c} /\ c \notin M.claims /\ L.claims \subseteq claims
             /\ M.claims = L.claims \ {c} /\ M.assertions = assertions /\ N.claims = M.claims
             /\ N.assertions = assertions
             /\ Latest(L, c).disp = receipt.disp
             /\ Live(L, c, clock) <=> receipt.disp \notin {"Quarantined", "Superseded"}
             /\ \A d \in M.claims : Latest(N, d) = Latest(L, d)
             /\ \A d \in M.claims : Live(M, d, clock) <=> Live(L, d, clock)
             /\ RawLive(N, clock) = RawLive(M, clock)
             /\ RawLive(L, clock) = RawLive(M, clock) \cup (IF Live(L, c, clock) THEN {c} ELSE {})
<1> DEFINE L == Line(c.predicate)
           M == LineBefore(c)
           N == View(M.claims, ledger)
<1>1. /\ M.claims = {d \in claims : d.predicate = c.predicate /\ d.tx # c.tx}
      /\ M.ledger = {e \in ledger : e.claim # c.tx} /\ M.assertions = assertions
      /\ N.claims = M.claims /\ N.ledger = ledger /\ N.assertions = assertions
      /\ L.claims = {d \in claims : d.predicate = c.predicate} /\ L.ledger = ledger
      /\ L.assertions = assertions
  BY DEF LineBefore, View, Line
<1>. HIDE DEF L, M, N
<1>2. \A d \in claims : d.tx = c.tx => d = c
  BY DEF MemoryInv, ClaimsInv
<1>3. L.claims = M.claims \cup {c} /\ c \notin M.claims /\ L.claims \subseteq claims
      /\ M.claims = L.claims \ {c}
  BY <1>1, <1>2
<1>4. PICK e \in ledger : /\ e.claim = c.tx /\ e.disp = receipt.disp
                         /\ \A f \in ledger : f.claim = c.tx => f = e
  BY DEF Receipted
<1>5. Latest(L, c) = e
  <2>1. \A f \in L.ledger : f.claim = c.tx => f.at <= e.at
    BY <1>1, <1>4 DEF MemoryInv, EntriesInv
  <2>. QED
    BY <1>1, <1>4, <2>1, LatestIs
<1>6. ActiveBound(L, c, clock) = Never
  <2>1. Effective(L, c, clock) = {}
    BY <1>1 DEF Effective, Receipted
  <2>. QED
    BY <2>1 DEF ActiveBound
<1>7. Live(L, c, clock) <=> receipt.disp \notin {"Quarantined", "Superseded"}
  BY <1>4, <1>5, <1>6 DEF Live, Excluded
<1>8. ASSUME NEW d \in M.claims
      PROVE  /\ Latest(N, d) = Latest(L, d)
             /\ Live(M, d, clock) <=> Live(L, d, clock)
             /\ Live(N, d, clock) <=> Live(L, d, clock)
  <2>1. d \in claims /\ d.tx # c.tx
    BY <1>1
  <2>2. PICK f \in ledger : f.claim = d.tx
    BY <2>1 DEF MemoryInv, EntriesInv
  <2>3. Latest(N, d) = Latest(L, d)
    BY <1>1, <2>2, SameLatest
  <2>4. {g \in M.ledger : g.claim = d.tx} = {g \in L.ledger : g.claim = d.tx}
    BY <1>1, <2>1
  <2>5. f \in M.ledger /\ M.ledger \subseteq ledger
    BY <1>1, <2>1, <2>2
  <2>6. Latest(M, d) = Latest(L, d)
    BY <1>1, <2>2, <2>4, <2>5, SameLatest
  <2>. QED
    BY <1>1, <2>3, <2>6, ClaimDepends
<1>9. RawLive(N, clock) = RawLive(M, clock)
  BY <1>1, <1>8 DEF RawLive
<1>10. RawLive(L, clock) = RawLive(M, clock) \cup (IF Live(L, c, clock) THEN {c} ELSE {})
  BY <1>3, <1>8 DEF RawLive
<1>. QED
  BY <1>1, <1>3, <1>4, <1>5, <1>7, <1>8, <1>9, <1>10 DEF L, M, N

\* Whoever a candidate is measured against was told with a value of the line; what is live counts.
LEMMA IncumbentOf ==
  ASSUME MemoryInv, NEW M, M.claims \subseteq claims, M.assertions = assertions, NEW t
  PROVE  /\ RawLive(M, t) \subseteq Rivals(M, t)
         /\ \A i \in Incumbent(M, t) : \E d \in M.claims : i.value = d.value
         /\ Incumbent(M, t) = {} => RawLive(M, t) = {}
         /\ Rivals(M, t) = RawLive(M, t) => Incumbent(M, t) \subseteq RawLive(M, t)
<1>1. RawLive(M, t) \subseteq Reentrant(M, t) /\ Reentrant(M, t) \subseteq M.claims
  BY DEF RawLive, Reentrant, Live, Excluded, HardExcluded
<1> DEFINE R(d) == IF Live(M, d, t) THEN d ELSE Window(M, d, t)
<1>2. Rivals(M, t) = {R(d) : d \in Reentrant(M, t)}
  BY DEF Rivals
<1>3. \A d \in M.claims : /\ R(d).value = d.value /\ R(d).tx = d.tx /\ Key(R(d)) = Key(d)
                          /\ Key(d) \in Nat /\ d.tx \in Nat
  BY WindowOf, ClaimTypes
<1>4. RawLive(M, t) \subseteq Rivals(M, t)
  <2>1. \A d \in RawLive(M, t) : R(d) = d
    BY DEF RawLive
  <2>. QED
    BY <1>1, <1>2, <2>1
<1>. HIDE DEF R
<1>5. Fold(M, t, t) \subseteq RawLive(M, t) /\ RawLive(M, t) \subseteq claims
  BY <1>1 DEF Fold
<1>6. Fold(M, t, t) # {} => First(Fold(M, t, t)) \in Fold(M, t, t)
  BY <1>5, FirstOfClaims
<1>7. Rivals(M, t) # {} => First(Rivals(M, t)) \in Rivals(M, t)
  <2>1. \A r \in Rivals(M, t) : Key(r) \in Nat /\ r.tx \in Nat
    BY <1>1, <1>2, <1>3
  <2>2. \A r, s \in Rivals(M, t) : r.tx = s.tx => r = s
    BY <1>1, <1>2, <1>3 DEF MemoryInv, ClaimsInv
  <2>. QED
    BY <2>1, <2>2, FirstIsFirst
<1>8. \A r \in Rivals(M, t) : \E d \in M.claims : r.value = d.value
  BY <1>1, <1>2, <1>3
<1>9. \A i \in Incumbent(M, t) : i \in Fold(M, t, t) \/ i \in Rivals(M, t)
  BY <1>6, <1>7 DEF Incumbent
<1>10. \A i \in Incumbent(M, t) : \E d \in M.claims : i.value = d.value
  BY <1>1, <1>5, <1>8, <1>9
<1>11. Incumbent(M, t) = {} => RawLive(M, t) = {}
  BY <1>4 DEF Incumbent
<1>12. Rivals(M, t) = RawLive(M, t) => Incumbent(M, t) \subseteq RawLive(M, t)
  BY <1>5, <1>9
<1>. QED
  BY <1>4, <1>10, <1>11, <1>12

\* A finite set has more than one member, or not.
LEMMA MoreThanOne ==
  ASSUME NEW S, IsFiniteSet(S)
  PROVE  Cardinality(S) \in Nat /\ (Cardinality(S) > 1 <=> \E c, d \in S : c # d)
<1>1. Cardinality(S) \in Nat
  BY FS_CardinalityType
<1>2. Cardinality(S) = 0 <=> S = {}
  BY FS_EmptySet
<1>3. Cardinality(S) = 1 <=> \E c : S = {c}
  BY FS_Singleton
<1>4. (\E c, d \in S : c # d) <=> S # {} /\ ~\E c : S = {c}
  OBVIOUS
<1>. QED
  BY <1>1, <1>2, <1>3, <1>4

\* At most one claim of a succession holds an instant.
LEMMA SuccessionHoldsOnce ==
  ASSUME NEW S, Succession(S), \A c \in S : c.start \in Int /\ c.end \in Int,
         NEW v \in Int, NEW c \in S, NEW d \in S, Holds(c, v), Holds(d, v)
  PROVE  c = d
  BY DEF Succession, Apart, Holds

\* A fact that is contested is read with what it is contested with.
LEMMA ContestedIsRead ==
  ASSUME MemoryInv, ReceiptInv, NEW c \in claims, receipt.claim = c.tx, c.tx = clock,
         c.origin = "external", receipt.disp \in {"Contested", "Queued"}, ~SomeEnded(c.predicate)
  PROVE  LET L == Line(c.predicate)
             shown == Recall(L, clock)
         IN  /\ receipt.contested # {} /\ {c.tx} \cup receipt.contested \subseteq {d.tx : d \in shown}
             /\ c.cardinality = "Functional" => StatusOf(L, shown) = "Contested"
<1> DEFINE L == Line(c.predicate)
           M == LineBefore(c)
           I == Incumbent(M, clock)
           R == RawLive(M, clock)
           S == Recall(L, clock)
<1>1. Receipted(c, M, clock)
  BY DEF ReceiptInv
<1>2. /\ L.claims = M.claims \cup {c} /\ c \notin M.claims /\ L.claims \subseteq claims
      /\ M.assertions = assertions /\ Live(L, c, clock)
      /\ RawLive(L, clock) = R \cup {c}
  BY <1>1, LineAfter
<1>3. S = Fold(L, clock, clock) /\ IsFiniteSet(S)
  BY BelievedNow
<1>. HIDE DEF L, M, S
<1>4. \A d \in M.claims : \A a \in assertions : a.claim # d.tx
  BY <1>2 DEF SomeEnded, L
<1>5. Rivals(M, clock) = R
  BY <1>2, <1>4, NothingEnded
<1>. HIDE DEF R, I
<1>6. Route(c, Conflicts(c, I, R)) \in {"Contested", "Queued"}
      /\ receipt.contested = {i.tx : i \in I}
  BY <1>1, <1>5 DEF Receipted, Decided, I
<1>7. Conflicts(c, I, R)
  BY <1>6 DEF Route, Gate
<1>8. (\E i : i \in I) /\ ~Succession({c} \cup R)
  BY <1>7 DEF Conflicts
<1>9. I \subseteq R
  BY <1>2, <1>5, IncumbentOf DEF I, R
<1>10. S = R \cup {c}
  <2>1. {c} \cup R = RawLive(L, clock)
    BY <1>2
  <2>. QED
    BY <1>2, <1>3, <1>8, <2>1 DEF Fold
<1>11. receipt.contested # {} /\ {c.tx} \cup receipt.contested \subseteq {d.tx : d \in S}
  BY <1>6, <1>8, <1>9, <1>10
<1>12. ASSUME c.cardinality = "Functional" PROVE StatusOf(L, S) = "Contested"
  <2>1. PICK i : i \in I
    BY <1>8
  <2>2. i \in S /\ c \in S /\ i # c
    BY <1>2, <1>9, <1>10, <2>1 DEF R, RawLive
  <2>3. Cardinality(S) > 1
    BY <1>3, <2>2, MoreThanOne
  <2>4. HasConflict(S)
    BY <1>12, <2>2, <2>3 DEF HasConflict
  <2>. QED
    BY <2>2, <2>4 DEF StatusOf
<1>. QED
  BY <1>11, <1>12 DEF L, S

\* A fact that nothing contests leaves the line uncontested, if it was.
LEMMA CheapIsUncontested ==
  ASSUME MemoryInv, ReceiptInv, NEW c \in claims, receipt.claim = c.tx, c.tx = clock,
         c.origin = "external", receipt.disp \notin NonCommitted,
         \A d \in LineBefore(c).claims : d.value # c.value
  PROVE  LET L == Line(c.predicate)
             N == View(LineBefore(c).claims, ledger)
         IN  StatusOf(N, Recall(N, clock)) \notin NonCommitted
             => StatusOf(L, Recall(L, clock)) \notin NonCommitted
<1> DEFINE L == Line(c.predicate)
           M == LineBefore(c)
           N == View(M.claims, ledger)
           I == Incumbent(M, clock)
           R == RawLive(M, clock)
           S == Recall(L, clock)
           T == Recall(N, clock)
<1>1. Receipted(c, M, clock)
  BY DEF ReceiptInv
<1>2. /\ L.claims = M.claims \cup {c} /\ c \notin M.claims /\ L.claims \subseteq claims
      /\ M.assertions = assertions
      /\ Latest(L, c).disp = receipt.disp
      /\ Live(L, c, clock) <=> receipt.disp \notin {"Quarantined", "Superseded"}
      /\ \A d \in M.claims : Latest(N, d) = Latest(L, d)
      /\ RawLive(N, clock) = R
      /\ RawLive(L, clock) = R \cup (IF Live(L, c, clock) THEN {c} ELSE {})
  BY <1>1, LineAfter
<1>3. S = Fold(L, clock, clock) /\ IsFiniteSet(S) /\ IsFiniteSet(RawLive(L, clock))
  BY BelievedNow
<1>4. T = Fold(N, clock, clock)
  <2>1. M.claims \subseteq claims
    BY <1>2
  <2>. HIDE DEF M
  <2>. QED
    BY <2>1, ReadsAll
<1>. HIDE DEF L, M, N, S, T
<1>5. receipt.disp = Route(c, Conflicts(c, I, Rivals(M, clock)))
  BY <1>1 DEF Receipted, Decided
<1>6. receipt.disp = "Cheap" /\ ~Conflicts(c, I, Rivals(M, clock))
  BY <1>5 DEF Route, Gate, NonCommitted
<1>7. RawLive(L, clock) = R \cup {c}
  BY <1>2, <1>6
<1>8. /\ R \subseteq Rivals(M, clock)
      /\ \A i \in I : \E d \in M.claims : i.value = d.value
      /\ I = {} => R = {}
  <2>1. M.claims \subseteq claims
    BY <1>2
  <2>. QED
    BY <1>2, <2>1, IncumbentOf
<1>. HIDE DEF R, I
<1>9. I = {} \/ Succession({c} \cup Rivals(M, clock))
  <2>1. \A i \in I : c.value # i.value
    BY <1>8 DEF M
  <2>. QED
    BY <1>6, <2>1 DEF Conflicts, Restates
<1>10. R = {} \/ Succession(R \cup {c})
  <2>1. R \cup {c} \subseteq {c} \cup Rivals(M, clock)
    BY <1>8
  <2>. QED
    BY <1>8, <1>9, <2>1, FewerSucceed
<1>11. \/ R \cup {c} = {c} /\ S = {c}
       \/ S = {d \in R \cup {c} : Holds(d, clock)} /\ Succession(R \cup {c})
  <2>1. CASE Cardinality(RawLive(L, clock)) > 1
    <3>1. R # {}
      BY <1>3, <1>7, <2>1, MoreThanOne
    <3>. QED
      BY <1>3, <1>7, <1>10, <2>1, <3>1 DEF Fold
  <2>2. CASE ~(Cardinality(RawLive(L, clock)) > 1)
    <3>1. R \cup {c} = {c}
      BY <1>3, <1>7, <2>2, MoreThanOne
    <3>. QED
      BY <1>3, <1>7, <2>2, <3>1 DEF Fold
  <2>. QED
    BY <2>1, <2>2
<1>12. \A d, e \in S : d = e
  <2>1. CASE S = {c}
    BY <2>1
  <2>2. CASE S = {d \in R \cup {c} : Holds(d, clock)} /\ Succession(R \cup {c})
    <3>1. R \cup {c} \subseteq claims
      BY <1>2, <1>7 DEF RawLive
    <3>2. \A d \in R \cup {c} : d.start \in Int /\ d.end \in Int
      BY <3>1, ClaimTypes
    <3>3. clock \in Int
      BY DEF MemoryInv
    <3>. QED
      BY <2>2, <3>2, <3>3, SuccessionHoldsOnce
  <2>. QED
    BY <1>11, <2>1, <2>2
<1>13. ~HasConflict(S)
  <2>1. IsFiniteSet(Functional(S)) /\ Functional(S) \subseteq S
    BY <1>3, FS_Subset DEF Functional
  <2>2. ~(Cardinality(S) > 1) /\ ~(Cardinality(Functional(S)) > 1)
    BY <1>3, <1>12, <2>1, MoreThanOne
  <2>. QED
    BY <2>2 DEF HasConflict
<1>14. ASSUME NEW d \in S, Latest(L, d).disp = "Contested"
       PROVE  StatusOf(N, T) = "Contested"
  <2>1. d # c
    BY <1>2, <1>6, <1>14
  <2>2. d \in R /\ Holds(d, clock)
    BY <1>11, <1>14, <2>1
  <2>3. d \in M.claims
    BY <2>2 DEF R, RawLive
  <2>4. d \in T
    BY <1>2, <1>4, <2>2 DEF Fold
  <2>5. Latest(N, d).disp = "Contested"
    BY <1>2, <1>14, <2>3
  <2>. QED
    BY <2>4, <2>5 DEF StatusOf
<1>15. StatusOf(N, T) \notin NonCommitted => StatusOf(L, S) \notin NonCommitted
  BY <1>13, <1>14 DEF StatusOf, NonCommitted
<1>. QED
  BY <1>15 DEF L, N, S, T, M

\* A receipt and the next read agree: what it says is contested is read with what it is contested
\* with, and a fact that it lets in leaves the line uncontested (classify_conflict and fold ask
\* the same question of a line, is_trusted_succession).
THEOREM ReceiptsTellReads == TimelineSpec => []ReceiptTellsRead
<1>1. MemoryInv /\ ReceiptInv => ReceiptTellsRead
  <2>. SUFFICES ASSUME MemoryInv, ReceiptInv, NEW c \in claims,
                       receipt.claim = c.tx, c.tx = clock, c.origin = "external"
       PROVE LET L == Line(c.predicate)
                 without == [L EXCEPT !.claims = @ \ {c}]
                 shown == Recall(L, clock)
                 Now(M) == StatusOf(M, Recall(M, clock))
             IN  /\ receipt.disp \in {"Contested", "Queued"} /\ ~SomeEnded(c.predicate) =>
                      /\ receipt.contested # {}
                      /\ {c.tx} \cup receipt.contested \subseteq {d.tx : d \in shown}
                      /\ c.cardinality = "Functional" => Now(L) = "Contested"
                 /\ (/\ receipt.disp \notin NonCommitted /\ \A d \in without.claims : d.value # c.value
                     /\ Now(without) \notin NonCommitted) => Now(L) \notin NonCommitted
    BY Zenon DEF ReceiptTellsRead
  <2> DEFINE L == Line(c.predicate)
             without == [L EXCEPT !.claims = @ \ {c}]
             Now(M) == StatusOf(M, Recall(M, clock))
             N == View(LineBefore(c).claims, ledger)
  <2>1. without = N /\ N.claims = LineBefore(c).claims
    <3>1. LineBefore(c).claims = L.claims \ {c}
      BY LineAfter DEF ReceiptInv
    <3>2. L = View(L.claims, ledger)
      BY DEF Line, View
    <3>. HIDE DEF L
    <3>. QED
      BY <3>1, <3>2 DEF View
  <2>2. ASSUME receipt.disp \in {"Contested", "Queued"}, ~SomeEnded(c.predicate)
        PROVE  /\ receipt.contested # {}
               /\ {c.tx} \cup receipt.contested \subseteq {d.tx : d \in Recall(L, clock)}
               /\ c.cardinality = "Functional" => Now(L) = "Contested"
    BY <2>2, ContestedIsRead
  <2>3. ASSUME receipt.disp \notin NonCommitted, \A d \in N.claims : d.value # c.value
        PROVE  Now(N) \notin NonCommitted => Now(L) \notin NonCommitted
    BY <2>1, <2>3, CheapIsUncontested
  <2>. HIDE DEF L, without, N, Now
  <2>4. \/ receipt.disp \in NonCommitted
        \/ ~\A d \in without.claims : d.value # c.value
        \/ Now(without) \in NonCommitted
        \/ Now(L) \notin NonCommitted
    BY <2>1, <2>3
  <2>. QED
    BY <2>2, <2>4 DEF L, without, Now
<1>. QED
  BY <1>1, MemoryInvariant, ReceiptInvariant, PTL

-----------------------------------------------------------------------------
(* What is shown of a date.                                                *)

\* Of a date a host told as much is shown as was told.
LEMMA TextIsShown ==
  ASSUME NEW o \in Offer, ~Refused(o), NEW text \in {o.from, o.until}, text # NoDate
  PROVE  Shown(InstantOf(text), PrecisionOf(o, text)) = Told(o, text)
<1>1. Parsable(text) /\ (o.binding = "mcp" => Granularity(text) = "Instant")
  BY DEF Refused
<1>2. text \in Seq(Nat) /\ Len(text) \in 1..4
  BY <1>1, AdmissionAssumption DEF Parsable
<1>3. CASE o.binding # "mcp"
  BY <1>1, <1>2, <1>3, ShownAsWritten DEF PrecisionOf, Told
<1>4. CASE o.binding = "mcp"
  <2>1. Len(text) = 4
    <3>1. Granularity(text) = "Instant"
      BY <1>1, <1>4
    <3>2. Len(text) = 1 => Granularity(text) = "Year"
      BY DEF Granularity
    <3>3. Len(text) = 2 => Granularity(text) = "Month"
      BY DEF Granularity
    <3>4. Len(text) = 3 => Granularity(text) = "Day"
      BY DEF Granularity
    <3>. QED
      BY <1>2, <3>1, <3>2, <3>3, <3>4
  <2>2. ASSUME NEW k \in 1..3 PROVE SubSeq(Day(InstantOf(text)), 1, k) = SubSeq(text, 1, k)
    <3>1. k <= Len(text)
      BY <2>1
    <3>. QED
      BY <1>1, <1>2, <3>1, DatePrefix
  <2>3. PrecisionOf(o, text) = o.hint
    BY <1>4 DEF PrecisionOf
  <2>4. CASE o.hint = "Year"
    BY <1>4, <2>2, <2>3, <2>4 DEF Shown, Told
  <2>5. CASE o.hint = "Month"
    BY <1>4, <2>2, <2>3, <2>5 DEF Shown, Told
  <2>6. CASE o.hint \notin {"Year", "Month"}
    BY <2>1, <2>2, <2>3, <2>6 DEF Shown, Told, Written
  <2>. QED
    BY <2>4, <2>5, <2>6
<1>. QED
  BY <1>3, <1>4

\* What was not stated is shown as nothing.
LEMMA NothingIsShown == ASSUME NEW o PROVE Told(o, NoDate) = NoDate
  BY DEF Told, Written, NoDate

\* The dates of a claim are shown as they were told.
LEMMA ClaimIsShown ==
  ASSUME MemoryInv, NEW c \in claims
  PROVE  LET o == c.offer
         IN  /\ o \in Offer /\ ~Refused(o)
             /\ c.start = NoStart <=> o.from = NoDate
             /\ c.start # NoStart =>
                  /\ c.start = InstantOf(o.from) /\ c.start # Never
                  /\ Shown(c.start, PrecisionOf(o, o.from)) = Told(o, o.from)
             /\ c.end = Never <=> o.until = NoDate
             /\ c.end # Never =>
                  /\ c.end = InstantOf(o.until) /\ c.end # NoStart
                  /\ Shown(c.end, PrecisionOf(o, o.until)) = Told(o, o.until)
<1> DEFINE o == c.offer
<1>1. o \in Offer /\ ~Refused(o)
  BY DEF MemoryInv, ClaimsInv, Genuine
<1>2. /\ c.start = IF o.from = NoDate THEN NoStart ELSE InstantOf(o.from)
      /\ c.end = IF o.until = NoDate THEN Never ELSE InstantOf(o.until)
  BY StampIs DEF MemoryInv, ClaimsInv, Genuine
<1>. HIDE DEF o
<1>3. o.from # NoDate =>
        /\ InstantOf(o.from) # NoStart /\ InstantOf(o.from) # Never
        /\ Shown(InstantOf(o.from), PrecisionOf(o, o.from)) = Told(o, o.from)
  BY <1>1, OfferDates, TextIsShown, AdmissionAssumption DEF NoStart
<1>4. o.until # NoDate =>
        /\ InstantOf(o.until) # NoStart /\ InstantOf(o.until) # Never
        /\ Shown(InstantOf(o.until), PrecisionOf(o, o.until)) = Told(o, o.until)
  BY <1>1, OfferDates, TextIsShown, AdmissionAssumption DEF NoStart
<1>. QED
  BY <1>1, <1>2, <1>3, <1>4 DEF o

\* What query_subject shows of a line it shows of one claim of it.
LEMMA SubjectShows ==
  ASSUME MemoryInv, NEW p, NEW v, NEW d \in SubjectFact(p, v).dates
  PROVE  \E c \in claims :
           /\ c.predicate = p /\ {c.value} = SubjectFact(p, v).value
           /\ d = [from |-> Told(c.offer, c.offer.from), until |-> Told(c.offer, c.offer.until)]
<1> DEFINE L == Line(p)
           S == Believed(p, v)
<1>1. L.claims \subseteq claims /\ \A c \in L.claims : c.predicate = p
  BY DEF Line
<1>2. L = View(L.claims, ledger)
  BY DEF Line, View
<1>3. /\ Recall(L, clock) = Fold(L, clock, clock) /\ RecallAt(L, clock, v) = Narrowed(L, clock, v)
  <2>1. {c \in claims : c.predicate = p} \subseteq claims
    OBVIOUS
  <2>. QED
    BY <2>1, ReadsAll, LineIs
<1>4. S = IF v = Never THEN Recall(L, clock) ELSE RecallAt(L, clock, v)
  BY DEF Believed
<1>5. /\ SubjectFact(p, v).dates = {Display(c) : c \in PrimaryOf(S)}
      /\ SubjectFact(p, v).value =
           {c.value : c \in IF PrimaryOf(S) # {} THEN PrimaryOf(S) ELSE IF S = {} THEN {} ELSE {First(S)}}
  BY DEF SubjectFact
<1>. HIDE DEF L, S
<1>6. \A w : Fold(L, clock, w) \subseteq L.claims
  BY DEF Fold, RawLive
<1>7. Narrowed(L, clock, v) \subseteq L.claims
  BY <1>6 DEF Narrowed, Reentrant
<1>8. S \subseteq L.claims
  BY <1>3, <1>4, <1>6, <1>7
<1>9. PICK c \in PrimaryOf(S) : d = Display(c)
  BY <1>5
<1>10. PrimaryOf(S) = {c}
  <2>1. IsFiniteSet(S)
    BY <1>1, <1>8, FS_Subset DEF MemoryInv, ClaimsInv
  <2>2. PrimaryOf(S) = S /\ Cardinality(S) = 1
    BY <1>9 DEF PrimaryOf
  <2>3. PICK x : S = {x}
    BY <2>1, <2>2, FS_Singleton
  <2>. QED
    BY <1>9, <2>2, <2>3
<1>11. c \in claims /\ c.predicate = p
  BY <1>1, <1>8, <1>9 DEF PrimaryOf
<1>12. {c.value} = SubjectFact(p, v).value
  BY <1>5, <1>10
<1> DEFINE from == IF c.start = NoStart THEN NoDate ELSE Shown(c.start, PrecisionOf(c.offer, c.offer.from))
           until == IF c.end = Never THEN NoDate ELSE Shown(c.end, PrecisionOf(c.offer, c.offer.until))
<1>13. Display(c) = [from |-> from, until |-> until]
  BY DEF Display
<1>14. from = Told(c.offer, c.offer.from) /\ until = Told(c.offer, c.offer.until)
  BY <1>11, ClaimIsShown, NothingIsShown
<1>. HIDE DEF from, until
<1>15. d = [from |-> Told(c.offer, c.offer.from), until |-> Told(c.offer, c.offer.until)]
  BY <1>9, <1>13, <1>14
<1>. QED
  BY <1>11, <1>12, <1>15

\* The end of an entry, if nothing succeeds it earlier: what a host wrote who ended the fact, or
\* who told it.
LEMMA OwnEndShown ==
  ASSUME MemoryInv, NEW p, NEW c \in Line(p).claims
  PROVE  LET own == OwnEnd(Line(p), c, clock)
         IN  \/ own[1] = Never /\ Rendered(own) = NoDate
             \/ c.offer.until # NoDate /\ own[1] = InstantOf(c.offer.until)
                /\ Rendered(own) = Told(c.offer, c.offer.until)
             \/ \E a \in assertions :
                  /\ a.claim = c.tx /\ a.text # NoDate /\ own[1] = InstantOf(a.text)
                  /\ Rendered(own) = Written(a.text)
<1> DEFINE L == Line(p)
           bound == ActiveBound(L, c, clock)
           told == {a.text : a \in {b \in Effective(L, c, clock) : b.at = bound}}
           text == CHOOSE text \in told : TRUE
           own == OwnEnd(L, c, clock)
<1>1. c \in claims /\ L.assertions = assertions
  BY DEF Line
<1>2. own = IF bound < c.end THEN <<bound, Granularity(text)>>
            ELSE <<c.end, PrecisionOf(c.offer, c.offer.until)>>
  BY Zenon DEF OwnEnd
<1>3. \A n, g : Rendered(<<n, g>>) = IF n \in {NoStart, Never} THEN NoDate ELSE Shown(n, g)
  BY DEF Rendered
<1>. HIDE DEF L, text, own
<1>4. bound \in Nat /\ (bound = Never \/ \E a \in Effective(L, c, clock) : a.at = bound)
  BY <1>1, BoundType
<1>5. c.end \in Nat /\ c.end <= Never /\ Never \in Nat
  BY <1>1, ClaimTypes, AdmissionAssumption
<1>6. CASE bound < c.end
  <2>1. told # {}
    BY <1>4, <1>5, <1>6
  <2>2. text \in told
    BY <2>1 DEF text
  <2>3. PICK a \in Effective(L, c, clock) : a.at = bound /\ a.text = text
    BY <2>2
  <2>4. a \in assertions /\ a.claim = c.tx
    BY <1>1, <2>3 DEF Effective
  <2>5. text \in EndText /\ bound = InstantOf(text) /\ bound < Never
    BY <2>3, <2>4 DEF MemoryInv, EndsInv
  <2>6. text \in Seq(Nat) /\ Parsable(text)
    BY <2>5, TimelineAssumption
  <2>7. text # NoDate
    BY <2>6 DEF Parsable, NoDate
  <2>8. 0 < bound
    BY <2>5, <2>6, DayOfDate
  <2>9. Shown(bound, Granularity(text)) = Written(text)
    BY <2>5, <2>6, ShownAsWritten
  <2>10. own = <<bound, Granularity(text)>>
    BY <1>2, <1>6
  <2>11. Rendered(own) = Written(text) /\ own[1] = InstantOf(text)
    BY <1>3, <1>5, <2>5, <2>8, <2>9, <2>10 DEF NoStart
  <2>. QED
    BY <2>3, <2>4, <2>7, <2>11 DEF own, L
<1>7. CASE ~(bound < c.end)
  <2>1. own = <<c.end, PrecisionOf(c.offer, c.offer.until)>>
    BY <1>2, <1>7
  <2>2. own[1] = c.end
    BY <2>1
  <2>3. Rendered(own) = IF c.end \in {NoStart, Never} THEN NoDate
                        ELSE Shown(c.end, PrecisionOf(c.offer, c.offer.until))
    BY <1>3, <2>1
  <2>4. CASE c.end = Never
    BY <2>2, <2>3, <2>4 DEF own, L
  <2>5. CASE c.end # Never
    <3>1. /\ c.offer.until # NoDate /\ c.end = InstantOf(c.offer.until) /\ c.end # NoStart
          /\ Shown(c.end, PrecisionOf(c.offer, c.offer.until)) = Told(c.offer, c.offer.until)
      BY <1>1, <2>5, ClaimIsShown
    <3>. QED
      BY <2>2, <2>3, <2>5, <3>1 DEF own, L
  <2>. QED
    BY <2>4, <2>5
<1>. QED
  BY <1>6, <1>7

\* Where a successor begins: what the host wrote who told it, or the day it was told.
LEMMA KeyShown ==
  ASSUME MemoryInv, NEW s \in claims
  PROVE  \/ /\ Trusted(s) /\ s.offer.from # NoDate /\ KeyStamp(s)[1] = InstantOf(s.offer.from)
            /\ Rendered(KeyStamp(s)) = Told(s.offer, s.offer.from)
         \/ ~Trusted(s) /\ KeyStamp(s)[1] = s.tx /\ Rendered(KeyStamp(s)) = Day(s.tx)
<1>1. \A n, g : Rendered(<<n, g>>) = IF n \in {NoStart, Never} THEN NoDate ELSE Shown(n, g)
  BY DEF Rendered
<1>2. CASE Trusted(s)
  <2>1. /\ s.offer.from # NoDate /\ s.start = InstantOf(s.offer.from) /\ s.start \notin {NoStart, Never}
        /\ Shown(s.start, PrecisionOf(s.offer, s.offer.from)) = Told(s.offer, s.offer.from)
    BY <1>2, ClaimIsShown DEF Trusted
  <2>2. KeyStamp(s) = <<s.start, PrecisionOf(s.offer, s.offer.from)>>
    BY <1>2 DEF KeyStamp, Key
  <2>. QED
    BY <1>1, <1>2, <2>1, <2>2
<1>3. CASE ~Trusted(s)
  <2>1. KeyStamp(s) = <<s.tx, NoPrecision>>
    BY <1>3 DEF KeyStamp, Key
  <2>2. s.tx \notin {NoStart, Never}
    BY ClaimTypes, AdmissionAssumption DEF NoStart
  <2>3. Shown(s.tx, NoPrecision) = SubSeq(Day(s.tx), 1, 3)
    BY DEF Shown, NoPrecision
  <2>4. Day(s.tx) \in Seq(Int) /\ Len(Day(s.tx)) = 3
    BY ClaimTypes, DayIs
  <2>5. SubSeq(Day(s.tx), 1, 3) = Day(s.tx)
    BY <2>4
  <2>. QED
    BY <1>1, <1>3, <2>1, <2>2, <2>3, <2>5
<1>. QED
  BY <1>2, <1>3

\* The dates of an entry of the history.
LEMMA EntryShows ==
  ASSUME MemoryInv, NEW p, NEW c \in Line(p).claims, NEW e, e = HistoryEntry(Line(p), c, clock)
  PROVE  LET own == c.offer
             successors == Successors(Line(p), c)
         IN  /\ e.claim = c /\ e.from = Told(own, own.from)
             /\ \/ e.end = Never /\ e.until = NoDate
                \/ own.until # NoDate /\ e.end = InstantOf(own.until) /\ e.until = Told(own, own.until)
                \/ \E a \in assertions :
                     /\ a.claim = c.tx /\ a.text # NoDate /\ e.end = InstantOf(a.text)
                     /\ e.until = Written(a.text)
                \/ \E s \in successors :
                     /\ Trusted(s) /\ s.offer.from # NoDate /\ e.end = InstantOf(s.offer.from)
                     /\ e.until = Told(s.offer, s.offer.from)
                \/ \E s \in successors : ~Trusted(s) /\ s.tx = e.end /\ e.until = Day(s.tx)
<1> DEFINE L == Line(p)
           stamp == UntilStamp(L, c, clock)
           own == OwnEnd(L, c, clock)
           next == First(Successors(L, c))
<1>1. L.claims \subseteq claims /\ c \in claims
  BY DEF Line
<1>2. /\ e.claim = c /\ e.end = stamp[1] /\ e.until = Rendered(stamp)
      /\ e.from = Rendered(<<c.start, PrecisionOf(c.offer, c.offer.from)>>)
  BY DEF HistoryEntry
<1>3. e.from = Told(c.offer, c.offer.from)
  <2>1. c.start # Never
    BY <1>1, ClaimTypes, AdmissionAssumption
  <2>2. e.from = IF c.start \in {NoStart, Never} THEN NoDate
                 ELSE Shown(c.start, PrecisionOf(c.offer, c.offer.from))
    BY <1>2 DEF Rendered
  <2>. QED
    BY <1>1, <2>1, <2>2, ClaimIsShown, NothingIsShown
<1>4. stamp = own \/ (Successors(L, c) # {} /\ stamp = KeyStamp(next))
  BY DEF UntilStamp
<1>. HIDE DEF L, stamp, own, next
<1>5. CASE stamp = own
  <2>1. \/ own[1] = Never /\ Rendered(own) = NoDate
        \/ c.offer.until # NoDate /\ own[1] = InstantOf(c.offer.until)
           /\ Rendered(own) = Told(c.offer, c.offer.until)
        \/ \E a \in assertions :
             /\ a.claim = c.tx /\ a.text # NoDate /\ own[1] = InstantOf(a.text)
             /\ Rendered(own) = Written(a.text)
    BY OwnEndShown DEF L, own
  <2>. QED
    BY <1>2, <1>3, <1>5, <2>1
<1>6. CASE Successors(L, c) # {} /\ stamp = KeyStamp(next)
  <2>1. Successors(L, c) \subseteq claims
    BY <1>1 DEF Successors
  <2>2. next \in Successors(L, c) /\ next \in claims
    BY <1>6, <2>1, FirstOfClaims DEF next
  <2>3. \/ /\ Trusted(next) /\ next.offer.from # NoDate
           /\ KeyStamp(next)[1] = InstantOf(next.offer.from)
           /\ Rendered(KeyStamp(next)) = Told(next.offer, next.offer.from)
        \/ /\ ~Trusted(next) /\ KeyStamp(next)[1] = next.tx
           /\ Rendered(KeyStamp(next)) = Day(next.tx)
    BY <2>2, KeyShown
  <2>. QED
    BY <1>2, <1>3, <1>6, <2>2, <2>3 DEF L
<1>. QED
  BY <1>4, <1>5, <1>6

\* Whatever hosts tell and end, of whatever dates and precisions: a date of a belief and of the
\* history is shown as its host wrote it, as far as a day and a hint go (honest precision).
THEOREM DatesAsWritten == TimelineSpec => []DatesShownAsWritten
<1>1. ASSUME MemoryInv, NEW v, NEW fact \in QuerySubject(v), NEW d \in fact.dates
      PROVE  \E c \in claims :
               /\ c.predicate = fact.predicate /\ {c.value} = fact.value
               /\ d = [from |-> Told(c.offer, c.offer.from), until |-> Told(c.offer, c.offer.until)]
  <2>1. PICK p : fact = SubjectFact(p, v)
    BY <1>1 DEF QuerySubject
  <2>2. fact.predicate = p
    BY <2>1 DEF SubjectFact
  <2>3. PICK c \in claims :
          /\ c.predicate = p /\ {c.value} = SubjectFact(p, v).value
          /\ d = [from |-> Told(c.offer, c.offer.from), until |-> Told(c.offer, c.offer.until)]
    BY <1>1, <2>1, SubjectShows
  <2>. QED
    BY <2>1, <2>2, <2>3
<1>2. ASSUME MemoryInv, NEW p, NEW e \in History(p)
      PROVE  LET own == e.claim.offer
                 successors == Successors(Line(p), e.claim)
                 told == {<<own.until, Told(own, own.until)>>}
                         \cup {<<a.text, Written(a.text)>> :
                                 a \in {b \in assertions : b.claim = e.claim.tx}}
                         \cup {<<d.offer.from, Told(d.offer, d.offer.from)>> :
                                 d \in {s \in successors : Trusted(s)}}
             IN  /\ e.from = Told(own, own.from)
                 /\ \/ e.end = Never /\ e.until = NoDate
                    \/ \E x \in told : x[1] # NoDate /\ InstantOf(x[1]) = e.end /\ e.until = x[2]
                    \/ \E s \in successors : ~Trusted(s) /\ s.tx = e.end /\ e.until = Day(s.tx)
  <2> DEFINE own == e.claim.offer
             successors == Successors(Line(p), e.claim)
             A == {<<a.text, Written(a.text)>> : a \in {b \in assertions : b.claim = e.claim.tx}}
             D == {<<d.offer.from, Told(d.offer, d.offer.from)>> : d \in {s \in successors : Trusted(s)}}
             told == {<<own.until, Told(own, own.until)>>} \cup A \cup D
             Shows(x) == x[1] # NoDate /\ InstantOf(x[1]) = e.end /\ e.until = x[2]
  <2>1. PICK c \in Line(p).claims : e = HistoryEntry(Line(p), c, clock)
    BY EntriesAre
  <2>2. e.claim = c
    BY <2>1, <1>2, EntryShows
  <2>3. /\ e.from = Told(own, own.from)
        /\ \/ e.end = Never /\ e.until = NoDate
           \/ own.until # NoDate /\ e.end = InstantOf(own.until) /\ e.until = Told(own, own.until)
           \/ \E a \in assertions :
                /\ a.claim = e.claim.tx /\ a.text # NoDate /\ e.end = InstantOf(a.text)
                /\ e.until = Written(a.text)
           \/ \E s \in successors :
                /\ Trusted(s) /\ s.offer.from # NoDate /\ e.end = InstantOf(s.offer.from)
                /\ e.until = Told(s.offer, s.offer.from)
           \/ \E s \in successors : ~Trusted(s) /\ s.tx = e.end /\ e.until = Day(s.tx)
    BY <1>2, <2>1, <2>2, EntryShows
  <2>4. ASSUME own.until # NoDate, e.end = InstantOf(own.until), e.until = Told(own, own.until)
        PROVE  \E x \in told : Shows(x)
    <3>1. Shows(<<own.until, Told(own, own.until)>>)
      BY <2>4
    <3>. QED
      BY <3>1
  <2>5. ASSUME NEW a \in assertions, a.claim = e.claim.tx, a.text # NoDate,
               e.end = InstantOf(a.text), e.until = Written(a.text)
        PROVE  \E x \in told : Shows(x)
    <3>1. Shows(<<a.text, Written(a.text)>>) /\ <<a.text, Written(a.text)>> \in A
      BY <2>5
    <3>. QED
      BY <3>1
  <2>6. ASSUME NEW s \in successors, Trusted(s), s.offer.from # NoDate,
               e.end = InstantOf(s.offer.from), e.until = Told(s.offer, s.offer.from)
        PROVE  \E x \in told : Shows(x)
    <3>1. /\ Shows(<<s.offer.from, Told(s.offer, s.offer.from)>>)
          /\ <<s.offer.from, Told(s.offer, s.offer.from)>> \in D
      BY <2>6
    <3>. QED
      BY <3>1
  <2>7. \/ e.end = Never /\ e.until = NoDate
        \/ \E x \in told : Shows(x)
        \/ \E s \in successors : ~Trusted(s) /\ s.tx = e.end /\ e.until = Day(s.tx)
    BY <2>3, <2>4, <2>5, <2>6, Zenon
  <2>. QED
    BY <2>3, <2>7, Zenon
<1>3. MemoryInv => DatesShownAsWritten
  <2>. SUFFICES ASSUME MemoryInv PROVE DatesShownAsWritten
    OBVIOUS
  <2>1. \A v \in Moment : \A fact \in QuerySubject(v) : \A d \in fact.dates :
          \E c \in claims :
            /\ c.predicate = fact.predicate /\ {c.value} = fact.value
            /\ d = [from |-> Told(c.offer, c.offer.from), until |-> Told(c.offer, c.offer.until)]
    BY <1>1
  <2>. QED
    BY <1>2, <2>1, Zenon DEF DatesShownAsWritten
<1>. QED
  BY <1>3, MemoryInvariant, PTL

-----------------------------------------------------------------------------
(* What was read stays so.                                                 *)

\* The rows of the ledger are finitely many, and an edge joins claims that are there.
TrailInv ==
  /\ IsFiniteSet(ledger)
  /\ \A x \in edges : x[1] \in Known /\ x[2] \in Known

\* What a call adds it stamps with its own instant: rows of claims, of the ledger and of ends, and
\* the edges of a claim that is new.
Grown ==
  /\ clock' \in Nat /\ clock <= clock'
  /\ claims \subseteq claims' /\ \A c \in claims' \ claims : c.tx = clock + 1
  /\ ledger \subseteq ledger' /\ \A e \in ledger' \ ledger : e.at = clock + 1
  /\ assertions \subseteq assertions' /\ \A a \in assertions' \ assertions : a.asserted = clock + 1
  /\ edges \subseteq edges' /\ \A x \in edges' \ edges : x[1] = clock + 1 /\ x[2] \in Known
  /\ \A x \in edges' \ edges : clock + 1 \in {c.tx : c \in claims'}
  /\ \A e, f \in ledger' \ ledger : e = f

\* Every call only adds.
LEMMA OnlyAdds == ASSUME MemoryInv, TimelineNext PROVE Grown
<1>1. clock \in Nat
  BY DEF MemoryInv
<1>2. ASSUME NEW c, Tells(c), Commit(c) PROVE Grown
  <2>1. PICK e : /\ claims' = claims \cup {c} /\ ledger' = ledger \cup {e}
                 /\ e.claim = c.tx /\ e.at = c.tx
    BY <1>2, CommitWrites
  <2>2. clock' = clock + 1 /\ c.tx = clock + 1 /\ assertions' = assertions
    BY <1>2, StampIs DEF Tells
  <2>3. edges' = edges \cup {<<c.tx, x>> : x \in ToSet(c.lineage)} /\ ToSet(c.lineage) \subseteq Known
    BY <1>2, Zenon DEF Commit, Unlinkable
  <2>4. \A x \in edges' \ edges : x[1] = clock + 1 /\ x[2] \in Known
    BY <2>2, <2>3
  <2>. QED
    BY <1>1, <2>1, <2>2, <2>3, <2>4 DEF Grown
<1>3. CASE UNCHANGED <<claims, ledger, edges, assertions>> /\ clock' \in {clock, clock + 1}
  BY <1>1, <1>3 DEF Grown
<1>4. ASSUME NEW p \in Predicate, NEW text \in EndText, EndFactTool(p, text) PROVE Grown
  <2>1. clock' = clock + 1 /\ UNCHANGED <<claims, edges>>
    BY <1>4, EndWrites
  <2>2. CASE ledger' = ledger /\ assertions' = assertions
    BY <1>1, <2>1, <2>2 DEF Grown
  <2>3. CASE ~(ledger' = ledger /\ assertions' = assertions)
    <3>1. PICK a, e : /\ assertions' = assertions \cup {a} /\ ledger' = ledger \cup {e}
                      /\ a.asserted = clock + 1 /\ e.at = clock + 1
      BY <1>4, <2>3, EndWrites
    <3>. QED
      BY <1>1, <2>1, <3>1 DEF Grown
  <2>. QED
    BY <2>2, <2>3
<1>. QED
  BY <1>2, <1>3, <1>4, StepIs

\* TrailInv is kept.
LEMMA TrailStep == MemoryInv /\ TrailInv /\ [TimelineNext]_vars => TrailInv'
<1>. SUFFICES ASSUME MemoryInv, TrailInv, [TimelineNext]_vars PROVE TrailInv'
  OBVIOUS
<1>1. CASE UNCHANGED vars
  BY <1>1 DEF vars, TrailInv, Known
<1>2. CASE TimelineNext
  <2>1. Grown
    BY <1>2, OnlyAdds
  <2>2. Known \subseteq Known' /\ \A x \in edges' \ edges : x[1] \in Known'
    BY <2>1 DEF Grown, Known
  <2>3. \A x \in edges' : x[1] \in Known' /\ x[2] \in Known'
    BY <2>1, <2>2 DEF Grown, TrailInv
  <2>4. IsFiniteSet(ledger')
    <3>1. CASE ledger' = ledger
      BY <3>1 DEF TrailInv
    <3>2. CASE ledger' # ledger
      <4>1. PICK e \in ledger' : e \notin ledger
        BY <2>1, <3>2 DEF Grown
      <4>2. ledger' = ledger \cup {e}
        BY <2>1, <4>1 DEF Grown
      <4>. QED
        BY <4>2, FS_AddElement DEF TrailInv
    <3>. QED
      BY <3>1, <3>2
  <2>. QED
    BY <2>3, <2>4 DEF TrailInv
<1>. QED
  BY <1>1, <1>2

\* TrailInv holds at all times.
LEMMA TrailInvariant == TimelineSpec => []TrailInv
<1>1. Init => TrailInv
  BY FS_EmptySet DEF Init, TrailInv
<1>. QED
  BY <1>1, TrailStep, MemoryInvariant, PTL DEF TimelineSpec

\* One level of a lineage, over the edges E, and all of them.
Level(E, claim, levels, d) ==
  {x \in E : x[1] \in IF d = 1 THEN {claim} ELSE {y[2] : y \in levels[d - 1]}}
Levels(E, claim) == CHOOSE f : f = [d \in 1..MaxDepth |-> Level(E, claim, f, d)]
Lineages(E, claim) == UNION {Levels(E, claim)[d] \X {d} : d \in 1..MaxDepth}

\* The lineage that is loaded.
LEMMA AncestryIs == \A claim : Ancestry(claim) = Lineages(edges, claim)
  BY DEF Ancestry, Upward, Lineages, Levels, Level

\* There are as many levels as are asked for: otherwise there was a least number of which there
\* are not, and one more level is added to those before it.
LEMMA LevelsExist ==
  ASSUME NEW E, NEW claim, NEW N \in Nat
  PROVE  \E f : f = [d \in 1..N |-> Level(E, claim, f, d)]
<1> DEFINE Has(n) == \E f : f = [d \in 1..n |-> Level(E, claim, f, d)]
           T == {n \in Nat : ~Has(n)}
<1>1. Has(0)
  <2> DEFINE f == [d \in 1..0 |-> Level(E, claim, <<>>, d)]
  <2>1. f = [d \in 1..0 |-> Level(E, claim, f, d)]
    OBVIOUS
  <2>. QED
    BY <2>1, Zenon
<1>2. ASSUME NEW n \in Nat, Has(n) PROVE Has(n + 1)
  <2>1. PICK f : f = [d \in 1..n |-> Level(E, claim, f, d)]
    BY <1>2
  <2> DEFINE g == [d \in 1..n + 1 |-> Level(E, claim, f, d)]
  <2>2. ASSUME NEW d \in 1..n PROVE g[d] = f[d]
    <3>1. d \in 1..n + 1
      OBVIOUS
    <3>2. g[d] = Level(E, claim, f, d)
      BY <3>1
    <3>3. [k \in 1..n |-> Level(E, claim, f, k)][d] = Level(E, claim, f, d)
      OBVIOUS
    <3>. QED
      BY <2>1, <3>2, <3>3, Zenon
  <2>. HIDE DEF g
  <2>3. ASSUME NEW d \in 1..n + 1 PROVE Level(E, claim, g, d) = Level(E, claim, f, d)
    <3>1. CASE d = 1
      BY <3>1 DEF Level
    <3>2. CASE d # 1
      <4>1. d - 1 \in 1..n
        BY <3>2
      <4>2. g[d - 1] = f[d - 1]
        BY <2>2, <4>1
      <4>. QED
        BY <4>2, Zenon DEF Level
    <3>. QED
      BY <3>1, <3>2
  <2>4. g = [d \in 1..n + 1 |-> Level(E, claim, g, d)]
    <3>1. g = [d \in 1..n + 1 |-> Level(E, claim, f, d)]
      BY DEF g
    <3>. QED
      BY <2>3, <3>1, Zenon
  <2>. QED
    BY <2>4, Zenon
<1>. HIDE DEF Has
<1>3. T = {}
  <2>. SUFFICES ASSUME T # {} PROVE FALSE
    OBVIOUS
  <2>1. PICK n \in T : \A m \in T : n <= m
    BY LeastNat
  <2>2. n # 0 /\ n \in Nat
    BY <1>1, <2>1
  <2>3. n - 1 \in Nat /\ n - 1 \notin T
    BY <2>1, <2>2
  <2>4. Has(n - 1 + 1)
    BY <1>2, <2>3
  <2>. QED
    BY <2>1, <2>2, <2>4
<1>. QED
  BY <1>3 DEF Has

\* The levels of a lineage.
LEMMA LevelIs ==
  ASSUME NEW E, NEW claim, NEW d \in 1..MaxDepth
  PROVE  Levels(E, claim)[d] = Level(E, claim, Levels(E, claim), d)
<1>1. \E f : f = [k \in 1..MaxDepth |-> Level(E, claim, f, k)]
  BY LevelsExist, TrailAssumption
<1>2. Levels(E, claim) = [k \in 1..MaxDepth |-> Level(E, claim, Levels(E, claim), k)]
  BY <1>1, Zenon DEF Levels
<1>3. [k \in 1..MaxDepth |-> Level(E, claim, Levels(E, claim), k)][d]
        = Level(E, claim, Levels(E, claim), d)
  OBVIOUS
<1>. QED
  BY <1>2, <1>3, Zenon

\* Edges of claims that were not there add nothing to the lineage of one that was.
LEMMA SameLineage ==
  ASSUME NEW E, NEW F, NEW K, NEW claim \in K, E \subseteq F,
         \A x \in E : x[2] \in K, \A x \in F \ E : x[1] \notin K
  PROVE  Lineages(E, claim) = Lineages(F, claim)
<1> DEFINE L == Levels(E, claim)
           M == Levels(F, claim)
           T == {d \in 1..MaxDepth : L[d] # M[d]}
<1>1. \A d \in 1..MaxDepth : L[d] = Level(E, claim, L, d) /\ M[d] = Level(F, claim, M, d)
  BY LevelIs
<1>. HIDE DEF L, M
<1>2. T = {}
  <2>. SUFFICES ASSUME T # {} PROVE FALSE
    OBVIOUS
  <2>1. T \subseteq Nat
    OBVIOUS
  <2>2. PICK d \in T : \A m \in T : d <= m
    BY <2>1, LeastNat
  <2> DEFINE S == IF d = 1 THEN {claim} ELSE {y[2] : y \in L[d - 1]}
  <2>3. L[d] = {x \in E : x[1] \in S}
    BY <1>1, <2>2, Zenon DEF Level
  <2>4. d # 1 => d - 1 \in 1..MaxDepth /\ L[d - 1] = M[d - 1]
    <3>. SUFFICES ASSUME d # 1 PROVE d - 1 \in 1..MaxDepth /\ L[d - 1] = M[d - 1]
      OBVIOUS
    <3>1. d - 1 \in 1..MaxDepth /\ d - 1 \notin T
      BY <2>1, <2>2, TrailAssumption
    <3>. QED
      BY <3>1
  <2>5. M[d] = {x \in F : x[1] \in S}
    <3>1. M[d] = {x \in F : x[1] \in IF d = 1 THEN {claim} ELSE {y[2] : y \in M[d - 1]}}
      BY <1>1, <2>2, Zenon DEF Level
    <3>. QED
      BY <2>4, <3>1, Zenon
  <2>6. S \subseteq K
    <3>1. CASE d = 1
      BY <3>1
    <3>2. CASE d # 1
      <4>1. L[d - 1] \subseteq E
        BY <1>1, <2>4, <3>2 DEF Level
      <4>. QED
        BY <3>2, <4>1
    <3>. QED
      BY <3>1, <3>2
  <2>. HIDE DEF S
  <2>7. L[d] = M[d]
    BY <2>3, <2>5, <2>6
  <2>. QED
    BY <2>2, <2>7
<1>3. \A d \in 1..MaxDepth : L[d] = M[d]
  BY <1>2
<1>4. {L[d] \X {d} : d \in 1..MaxDepth} = {M[d] \X {d} : d \in 1..MaxDepth}
  BY <1>3, Zenon
<1>. QED
  BY <1>4, Zenon DEF Lineages, L, M

\* Of the page that is cut from the entries X, those of the claim that was asked about.
Cut(X, limit, claim) == {e \in {x \in X : Before(x, X) < limit} : claim \in {0, e.claim}}

\* Younger entries come after those that were on a page, and not on one that was full.
LEMMA PageGrows ==
  ASSUME NEW S, NEW R, S \subseteq R, IsFiniteSet(R), \A e \in R : e.at \in Nat,
         \A e \in R \ S : \A d \in S : d.at < e.at, NEW limit \in Nat, NEW claim
  PROVE  /\ Cut(S, limit, claim) \subseteq Cut(R, limit, claim)
         /\ Cardinality(Cut(S, limit, claim)) = limit => Cut(R, limit, claim) = Cut(S, limit, claim)
<1>1. ASSUME NEW e \in S PROVE Before(e, R) = Before(e, S)
  <2>1. {d \in R : d.at < e.at} = {d \in S : d.at < e.at}
    <3>. SUFFICES ASSUME NEW d \in R, d.at < e.at, d \notin S PROVE FALSE
      OBVIOUS
    <3>1. e.at < d.at /\ d.at \in Nat /\ e.at \in Nat
      OBVIOUS
    <3>. QED
      BY <3>1
  <2>. QED
    BY <2>1, Zenon DEF Before
<1>2. Cut(S, limit, claim) \subseteq Cut(R, limit, claim)
  BY <1>1 DEF Cut
<1>3. ASSUME Cardinality(Cut(S, limit, claim)) = limit, NEW e \in R, e \notin S PROVE ~(Before(e, R) < limit)
  <2> DEFINE D == {d \in R : d.at < e.at}
  <2>1. Cut(S, limit, claim) \subseteq D /\ IsFiniteSet(D)
    <3>1. \A x \in Cut(S, limit, claim) : x \in S
      BY DEF Cut
    <3>. QED
      BY <1>3, <3>1, FS_Subset
  <2>2. Cardinality(Cut(S, limit, claim)) <= Cardinality(D) /\ Cardinality(D) \in Nat
    BY <2>1, FS_Subset, FS_CardinalityType
  <2>3. Before(e, R) = Cardinality(D)
    BY DEF Before
  <2>. HIDE DEF D
  <2>. QED
    BY <1>3, <2>2, <2>3
<1>4. Cardinality(Cut(S, limit, claim)) = limit => Cut(R, limit, claim) \subseteq Cut(S, limit, claim)
  BY <1>1, <1>3 DEF Cut
<1>. QED
  BY <1>2, <1>4

\* A page that is read again.
LEMMA AuditGrows ==
  ASSUME MemoryInv, TrailInv, TrailInv', MemoryInv', Grown, NEW query \in AuditQuery
  PROVE  /\ Audit(query) \subseteq Audit(query)'
         /\ Cardinality(Audit(query)) = query.limit => Audit(query)' = Audit(query)
<1> DEFINE S == {e \in ledger : e.at >= query.from}
           R == {e \in ledger' : e.at >= query.from}
           Shows(X) == Cut(X, query.limit, query.claim)
<1>1. Audit(query) = Shows(S)
  BY DEF Audit, Page, Since, Cut
<1>2. Audit(query)' = Shows(R)
  BY DEF Audit, Page, Since, Before, Cut
<1>3. S \subseteq R
  BY DEF Grown
<1>4. IsFiniteSet(R)
  BY FS_Subset DEF TrailInv
<1>5. \A e \in R : e.at \in Nat
  BY DEF MemoryInv, EntriesInv
<1>6. ASSUME NEW e \in R, e \notin S, NEW d \in S PROVE d.at < e.at
  <2>1. e \in ledger' \ ledger
    BY <1>6
  <2>2. e.at = clock + 1
    BY <2>1 DEF Grown
  <2>3. d.at \in Nat /\ d.at <= clock /\ clock \in Nat
    BY DEF MemoryInv, EntriesInv
  <2>. QED
    BY <2>2, <2>3
<1>7. query.limit \in Nat
  BY AdmissionAssumption DEF AuditQuery
<1>. HIDE DEF S, R
<1>8. Shows(S) \subseteq Shows(R) /\ (Cardinality(Shows(S)) = query.limit => Shows(R) = Shows(S))
  BY <1>3, <1>4, <1>5, <1>6, <1>7, PageGrows
<1>. QED
  BY <1>1, <1>2, <1>8, Zenon

\* Of two lines that at an instant show the same rows and the same ends the reads are the same.
LEMMA ReadsAlike ==
  ASSUME NEW M, NEW N, NEW t, M.claims = N.claims, M.ledger = N.ledger,
         \A c : Effective(M, c, t) = Effective(N, c, t)
  PROVE  /\ Fold(M, t, t) = Fold(N, t, t)
         /\ \A S : StatusOf(M, S) = StatusOf(N, S) /\ Markers(M, S) = Markers(N, S)
<1>1. \A c : Latest(M, c) = Latest(N, c)
  BY Zenon DEF Latest
<1>2. ASSUME NEW c PROVE ActiveBound(M, c, t) = ActiveBound(N, c, t)
  <2>1. ActiveBound(M, c, t) = BoundOf(Effective(M, c, t))
    BY DEF ActiveBound, BoundOf
  <2>2. ActiveBound(N, c, t) = BoundOf(Effective(N, c, t))
    BY DEF ActiveBound, BoundOf
  <2>. QED
    BY <2>1, <2>2
<1>3. \A c : Live(M, c, t) <=> Live(N, c, t)
  BY <1>1, <1>2 DEF Live, Excluded
<1>4. RawLive(M, t) = RawLive(N, t)
  BY <1>3 DEF RawLive
<1>5. Fold(M, t, t) = Fold(N, t, t)
  BY <1>4, Zenon DEF Fold
<1>6. ASSUME NEW S PROVE StatusOf(M, S) = StatusOf(N, S) /\ Markers(M, S) = Markers(N, S)
  <2>1. StatusOf(M, S) = StatusOf(N, S)
    <3>1. (\E c \in S : Latest(M, c).disp = "Contested") <=> (\E c \in S : Latest(N, c).disp = "Contested")
      BY <1>1
    <3>. QED
      BY <3>1 DEF StatusOf
  <2>. QED
    BY <2>1, Zenon DEF Markers
<1>. QED
  BY <1>5, <1>6

\* A line as of an instant.
LEMMA AsOfIs ==
  ASSUME NEW C, NEW E, NEW A, NEW t, NEW L, L = [claims |-> C, ledger |-> E, assertions |-> A]
  PROVE  /\ AsOf(L, t).claims = {c \in C : c.tx <= t} /\ AsOf(L, t).assertions = A
         /\ AsOf(L, t).ledger = {e \in E : e.at <= t}
  BY DEF AsOf

\* What is read of a line as of an instant that is past stays so when a call adds.
LEMMA PastReads ==
  ASSUME MemoryInv, Grown, NEW p, NEW t \in Nat, t <= clock, NEW M, M = Line(p)'
  PROVE  /\ Recall(M, t) = Recall(Line(p), t) /\ Recall(M, t) \subseteq claims
         /\ \A S : /\ StatusOf(AsOf(M, t), S) = StatusOf(AsOf(Line(p), t), S)
                   /\ Markers(AsOf(M, t), S) = Markers(AsOf(Line(p), t), S)
<1> DEFINE X == AsOf(Line(p), t)
           Y == AsOf(M, t)
           C == {c \in claims : c.predicate = p}
           D == {c \in claims' : c.predicate = p}
<1>1. /\ X.claims = {c \in C : c.tx <= t} /\ X.ledger = {e \in ledger : e.at <= t}
      /\ X.assertions = assertions
  BY AsOfIs DEF Line
<1>2. /\ Y.claims = {c \in D : c.tx <= t} /\ Y.ledger = {e \in ledger' : e.at <= t}
      /\ Y.assertions = assertions'
  BY AsOfIs DEF Line
<1>3. clock \in Nat
  BY DEF MemoryInv
<1>. HIDE DEF X, Y
<1>4. X.claims = Y.claims
  <2>1. \A c \in claims' \ claims : ~(c.tx <= t)
    BY <1>3 DEF Grown
  <2>. QED
    BY <1>1, <1>2, <2>1 DEF Grown
<1>5. X.ledger = Y.ledger
  <2>1. \A e \in ledger' \ ledger : ~(e.at <= t)
    BY <1>3 DEF Grown
  <2>. QED
    BY <1>1, <1>2, <2>1 DEF Grown
<1>6. ASSUME NEW c PROVE Effective(X, c, t) = Effective(Y, c, t)
  <2>1. \A a \in assertions' \ assertions : ~(a.asserted <= t)
    BY <1>3 DEF Grown
  <2>. QED
    BY <1>1, <1>2, <2>1 DEF Grown, Effective
<1>7. /\ Fold(X, t, t) = Fold(Y, t, t)
      /\ \A S : StatusOf(X, S) = StatusOf(Y, S) /\ Markers(X, S) = Markers(Y, S)
  BY <1>4, <1>5, <1>6, ReadsAlike
<1>8. Recall(Line(p), t) = Fold(X, t, t) /\ Recall(M, t) = Fold(Y, t, t)
  BY DEF Recall, X, Y
<1>9. Fold(X, t, t) \subseteq claims
  BY <1>1 DEF Fold, RawLive
<1>. QED
  BY <1>7, <1>8, <1>9 DEF X, Y

\* What a belief shows ages, and is never younger again.
LEMMA CurrencyAges ==
  ASSUME MemoryInv, NEW S, S \subseteq claims, NEW now \in Nat, NEW later \in Nat, now <= later
  PROVE  /\ \E i, j \in 1..3 : /\ i <= j /\ Currency(S, now) = Currencies[i]
                              /\ Currency(S, later) = Currencies[j]
         /\ Staleness(S, now) => Staleness(S, later)
<1> DEFINE Rank(c, n) == IF n - c.tx < AgingAfter THEN 1 ELSE IF n - c.tx < DecayedAfter THEN 2 ELSE 3
<1>1. ASSUME NEW c \in claims
      PROVE  /\ Rank(c, now) \in 1..3 /\ Rank(c, later) \in 1..3 /\ Rank(c, now) <= Rank(c, later)
             /\ CurrencyState(c, now) = Currencies[Rank(c, now)]
             /\ CurrencyState(c, later) = Currencies[Rank(c, later)]
             /\ CurrencyState(c, now) = "Decayed" => CurrencyState(c, later) = "Decayed"
  <2>1. c.tx \in Nat /\ AgingAfter \in Nat /\ DecayedAfter \in Nat /\ AgingAfter <= DecayedAfter
    BY ClaimTypes, TimelineAssumption
  <2>2. Rank(c, now) \in 1..3 /\ Rank(c, later) \in 1..3 /\ Rank(c, now) <= Rank(c, later)
    BY <2>1
  <2>3. \A n \in Nat : CurrencyState(c, n) = Currencies[Rank(c, n)]
    BY DEF CurrencyState, Currencies
  <2>4. \A n \in Nat : CurrencyState(c, n) = "Decayed" <=> Rank(c, n) = 3
    BY DEF CurrencyState
  <2>. QED
    BY <2>2, <2>3, <2>4
<1>. HIDE DEF Rank
<1>2. CASE S = {}
  BY <1>2 DEF Currency, Staleness, Currencies
<1>3. CASE S # {}
  <2>1. First(S) \in claims
    BY <1>3, FirstOfClaims
  <2>2. Currency(S, now) = CurrencyState(First(S), now) /\ Currency(S, later) = CurrencyState(First(S), later)
    BY <1>3 DEF Currency
  <2>3. PrimaryOf(S) \subseteq claims
    BY DEF PrimaryOf
  <2>. QED
    BY <1>1, <1>3, <2>1, <2>2, <2>3 DEF Staleness
<1>. QED
  BY <1>2, <1>3

\* The same belief, of another age.
Reread(was, is) ==
  /\ is.reason = was.reason
  /\ \A field \in {"believed", "status", "markers"} : is.belief[field] = was.belief[field]
  /\ \E i, j \in 1..3 : /\ i <= j /\ was.belief.currency = Currencies[i]
                       /\ is.belief.currency = Currencies[j]
  /\ was.belief.stale => is.belief.stale

\* Whatever is called: what an auditor or a host read of the past, they read again.
THEOREM ReadsStay == TimelineSpec => WhatWasReadStays
<1>1. ASSUME MemoryInv, TrailInv, Grown, NEW c \in Known
      PROVE  Ancestry(c)' = Ancestry(c) /\ EdgesOf(c) \subseteq EdgesOf(c)'
  <2>1. \A x \in edges : x[2] \in Known
    BY <1>1 DEF TrailInv
  <2>2. clock + 1 \notin Known
    BY <1>1, ClaimTypes DEF Known, MemoryInv
  <2>3. edges \subseteq edges' /\ \A x \in edges' \ edges : x[1] \notin Known
    BY <1>1, <2>2 DEF Grown
  <2>4. Lineages(edges, c) = Lineages(edges', c)
    BY <2>1, <2>3, SameLineage
  <2>5. Ancestry(c) = Lineages(edges, c)
    BY AncestryIs
  <2>6. Ancestry(c)' = Lineages(edges', c)
    BY DEF Ancestry, Upward, Lineages, Levels, Level
  <2>. QED
    BY <2>3, <2>4, <2>5, <2>6 DEF EdgesOf
<1>2. ASSUME MemoryInv, Grown, NEW p, NEW t \in Epoch + 1..clock, NEW M, M = Line(p)',
             NEW was, was = QueryTool(Line(p), t, clock), NEW is, is = QueryTool(M, t, clock')
      PROVE  Reread(was, is)
  <2>1. t \in Nat /\ t <= clock /\ clock \in Nat /\ clock' \in Nat /\ clock <= clock'
    BY <1>2, AdmissionAssumption DEF Grown, MemoryInv
  <2> DEFINE S == Recall(Line(p), t)
             X == AsOf(Line(p), t)
             Y == AsOf(M, t)
  <2>2. /\ Recall(M, t) = S /\ S \subseteq claims
        /\ StatusOf(Y, S) = StatusOf(X, S) /\ Markers(Y, S) = Markers(X, S)
    BY <1>2, <2>1, PastReads
  <2>3. /\ was.belief.believed = S /\ was.belief.status = StatusOf(X, S)
        /\ was.belief.markers = Markers(X, S) /\ was.belief.currency = Currency(S, clock)
        /\ was.belief.stale = Staleness(S, clock) /\ was.reason = (StatusOf(X, S) \in NonCommitted)
    BY <1>2 DEF QueryTool, Projection
  <2>4. /\ is.belief.believed = Recall(M, t) /\ is.belief.status = StatusOf(Y, Recall(M, t))
        /\ is.belief.markers = Markers(Y, Recall(M, t))
        /\ is.belief.currency = Currency(Recall(M, t), clock')
        /\ is.belief.stale = Staleness(Recall(M, t), clock')
        /\ is.reason = (StatusOf(Y, Recall(M, t)) \in NonCommitted)
    BY <1>2 DEF QueryTool, Projection
  <2>. HIDE DEF S, X, Y
  <2>5. /\ \E i, j \in 1..3 : /\ i <= j /\ Currency(S, clock) = Currencies[i]
                             /\ Currency(S, clock') = Currencies[j]
        /\ Staleness(S, clock) => Staleness(S, clock')
    BY <1>2, <2>1, <2>2, CurrencyAges
  <2>. QED
    BY <2>2, <2>3, <2>4, <2>5 DEF Reread
<1> DEFINE Stays ==
     /\ \A c \in Known : Ancestry(c)' = Ancestry(c) /\ EdgesOf(c) \subseteq EdgesOf(c)'
     /\ \A query \in AuditQuery :
          \A was \in {Audit(query)}, is \in {Audit(query)'} :
            was \subseteq is /\ (Cardinality(was) = query.limit => is = was)
     /\ \A p \in Predicate : \A M \in {Line(p)'} : \A t \in Epoch + 1..clock :
          \A was \in {QueryTool(Line(p), t, clock)}, is \in {QueryTool(M, t, clock')} :
            Reread(was, is)
<1>3. ASSUME MemoryInv, TrailInv, MemoryInv', TrailInv', Grown PROVE Stays
  <2>1. \A query \in AuditQuery :
          \A was \in {Audit(query)}, is \in {Audit(query)'} :
            was \subseteq is /\ (Cardinality(was) = query.limit => is = was)
    BY <1>3, AuditGrows
  <2>2. \A c \in Known : Ancestry(c)' = Ancestry(c) /\ EdgesOf(c) \subseteq EdgesOf(c)'
    BY <1>1, <1>3
  <2>3. ASSUME NEW p \in Predicate, NEW M \in {Line(p)'}, NEW t \in Epoch + 1..clock,
               NEW was \in {QueryTool(Line(p), t, clock)}, NEW is \in {QueryTool(M, t, clock')}
        PROVE  Reread(was, is)
    <3>1. M = Line(p)' /\ was = QueryTool(Line(p), t, clock) /\ is = QueryTool(M, t, clock')
      BY Zenon
    <3>. QED
      BY <1>2, <1>3, <3>1, Zenon
  <2>. QED
    BY <2>1, <2>2, <2>3, Zenon
<1>. HIDE DEF Stays
<1>4. /\ MemoryInv /\ TrailInv /\ MemoryInv' /\ TrailInv' /\ [TimelineNext]_vars
      => [Stays]_<<claims, ledger, edges, clock>>
  <2>. SUFFICES ASSUME MemoryInv, TrailInv, MemoryInv', TrailInv', [TimelineNext]_vars
                PROVE  [Stays]_<<claims, ledger, edges, clock>>
    OBVIOUS
  <2>1. CASE UNCHANGED vars
    BY <2>1 DEF vars
  <2>2. CASE TimelineNext
    BY <1>3, <2>2, OnlyAdds
  <2>. QED
    BY <2>1, <2>2
<1>5. ([][Stays]_<<claims, ledger, edges, clock>>) => WhatWasReadStays
  BY DEF Stays, WhatWasReadStays, Reread
<1>. QED
  BY <1>4, <1>5, MemoryInvariant, TrailInvariant, PTL DEF TimelineSpec

-----------------------------------------------------------------------------
(* The order in which facts are told.                                      *)

\* Quarantined when it is told, whatever else its line was told.
Unsound(c) == c.origin # "recall" /\ Incoherent(c)
Sound(p)   == {c \in claims : c.predicate = p /\ ~Unsound(c)}

\* An entry that is not its claim's first comes with an end.  What the first one says of a line
\* where nothing was ended: Contested was told against another value, of facts that are no
\* succession, nor will they be with what is told after them.
OrderInv ==
  /\ \A e \in ledger : e.at # e.claim => \E a \in assertions : a.claim = e.claim
  /\ \A c \in claims, e \in ledger :
       e.claim = c.tx /\ e.at = c.tx =>
         /\ e.disp = "Quarantined" <=> Unsound(c)
         /\ e.disp # "Superseded"
         /\ e.disp = "Contested" /\ ~SomeEnded(c.predicate) =>
              ~Succession(Sound(c.predicate)) /\ \E d \in Sound(c.predicate) : d.value # c.value

\* A claim of a line where nothing was ended has its first entry only.
LEMMA OneEntry ==
  ASSUME MemoryInv, OrderInv, NEW c \in claims, ~SomeEnded(c.predicate), NEW M, M.ledger = ledger
  PROVE  /\ Latest(M, c) \in ledger /\ Latest(M, c).claim = c.tx /\ Latest(M, c).at = c.tx
         /\ \A a \in assertions : a.claim # c.tx
<1>1. \A a \in assertions : a.claim # c.tx
  BY DEF SomeEnded, Line
<1>2. \A e \in ledger : e.claim = c.tx => e.at = c.tx
  BY <1>1 DEF OrderInv
<1>3. PICK e \in ledger : e.claim = c.tx /\ e.at = c.tx
  BY DEF MemoryInv, EntriesInv
<1>4. \A f \in M.ledger : f.claim = c.tx => f.at <= e.at
  BY <1>2, <1>3, ClaimTypes
<1>5. Latest(M, c) = e
  BY <1>3, <1>4, LatestIs
<1>. QED
  BY <1>1, <1>3, <1>5

\* Where nothing was ended a line is live as far as it is sound, and its ends are its own.
LEMMA LiveIsSound ==
  ASSUME MemoryInv, OrderInv, NEW p, ~SomeEnded(p), NEW t
  PROVE  LET L == Line(p)
         IN  /\ RawLive(L, t) = Sound(p) /\ Reentrant(L, t) = Sound(p) /\ Rivals(L, t) = Sound(p)
             /\ \A c \in Sound(p) : Window(L, c, t) = c
<1> DEFINE L == Line(p)
<1>1. L.claims = {c \in claims : c.predicate = p} /\ L.ledger = ledger /\ L.assertions = assertions
  BY DEF Line
<1>. HIDE DEF L
<1>2. ASSUME NEW c \in L.claims
      PROVE  /\ \A a \in assertions : a.claim # c.tx
             /\ Excluded(L, c) <=> Unsound(c)
  <2>1. c \in claims /\ ~SomeEnded(c.predicate)
    BY <1>1
  <2>2. /\ Latest(L, c) \in ledger /\ Latest(L, c).claim = c.tx /\ Latest(L, c).at = c.tx
        /\ \A a \in assertions : a.claim # c.tx
    BY <1>1, <2>1, OneEntry
  <2>3. (Latest(L, c).disp = "Quarantined" <=> Unsound(c)) /\ Latest(L, c).disp # "Superseded"
    BY <2>1, <2>2 DEF OrderInv
  <2>. QED
    BY <2>2, <2>3 DEF Excluded
<1>3. /\ \A c \in L.claims : ActiveBound(L, c, t) = Never /\ Window(L, c, t) = c
      /\ Reentrant(L, t) = RawLive(L, t) /\ Rivals(L, t) = RawLive(L, t)
  BY <1>1, <1>2, NothingEnded
<1>4. RawLive(L, t) = Sound(p)
  BY <1>1, <1>2, <1>3 DEF RawLive, Live, Sound
<1>. QED
  BY <1>1, <1>3, <1>4 DEF L, Sound

\* What an entry says of the facts of a line.
Says(c, e) ==
  /\ e.disp = "Quarantined" <=> Unsound(c)
  /\ e.disp # "Superseded"
  /\ e.disp = "Contested" /\ ~SomeEnded(c.predicate) =>
       ~Succession(Sound(c.predicate)) /\ \E d \in Sound(c.predicate) : d.value # c.value

\* It goes on being true when more is told and ended.
LEMMA SaysStill ==
  ASSUME claims \subseteq claims', assertions \subseteq assertions', NEW c, NEW e, Says(c, e)
  PROVE  Says(c, e)'
<1>1. SomeEnded(c.predicate) => SomeEnded(c.predicate)'
  BY DEF SomeEnded, Line
<1>2. Sound(c.predicate) \subseteq Sound(c.predicate)'
  BY DEF Sound, Unsound
<1>3. Succession(Sound(c.predicate)') => Succession(Sound(c.predicate))
  BY <1>2, FewerSucceed
<1>4. Unsound(c)' <=> Unsound(c)
  BY DEF Unsound
<1>. QED
  BY <1>1, <1>2, <1>3, <1>4 DEF Says

\* The invariant, in those terms.
LEMMA OrderIs ==
  OrderInv <=> /\ \A e \in ledger : e.at # e.claim => \E a \in assertions : a.claim = e.claim
               /\ \A c \in claims, e \in ledger : e.claim = c.tx /\ e.at = c.tx => Says(c, e)
  BY DEF OrderInv, Says

\* What is decided of a fact that is told.
LEMMA DecidedSays ==
  ASSUME NEW c, NEW M, NEW t
  PROVE  /\ Decided(c, M, t) = "Quarantined" <=> Unsound(c)
         /\ Decided(c, M, t) # "Superseded"
         /\ Decided(c, M, t) = "Contested" => Conflicts(c, Incumbent(M, t), Rivals(M, t))
<1> DEFINE conflict == Conflicts(c, Incumbent(M, t), Rivals(M, t))
<1>1. Decided(c, M, t) = Route(c, conflict)
  BY DEF Decided
<1>. HIDE DEF conflict
<1>2. /\ Route(c, conflict) = "Quarantined" <=> Unsound(c)
      /\ Route(c, conflict) # "Superseded"
      /\ Route(c, conflict) = "Contested" => conflict
  BY DEF Route, Gate, Unsound
<1>. QED
  BY <1>1, <1>2 DEF conflict

\* A conflict of values, of facts that are no succession.
LEMMA ConflictIs ==
  ASSUME NEW c, NEW I, NEW R, Conflicts(c, I, R), I \subseteq R
  PROVE  ~Succession({c} \cup R) /\ \E d \in R : d.value # c.value
<1>1. PICK i \in I : ~Restates(c, i, R)
  BY DEF Conflicts
<1>2. c.value # i.value \/ \E d \in R : d.value # c.value
  BY <1>1 DEF Restates
<1>. QED
  BY <1>2 DEF Conflicts

\* A fact that is told.
LEMMA TellKeepsOrder ==
  ASSUME MemoryInv, OrderInv, NEW c, Tells(c), Commit(c)
  PROVE  OrderInv'
<1>1. PICK L : L = Line(c.predicate)
  OBVIOUS
<1>2. PICK t : t = clock + 1
  OBVIOUS
<1> DEFINE disp == Decided(c, L, t)
           new == [claim |-> c.tx, disp |-> disp, at |-> c.tx, by |-> "ingest"]
<1>3. clock' = t /\ c.tx = t /\ assertions' = assertions
  BY <1>2, StampIs DEF Tells
<1>4. claims' = claims \cup {c} /\ ledger' = ledger \cup Appended(c, disp, Incumbent(L, t))
  BY <1>1, <1>2, <1>3, Zenon DEF Commit, Decided, Incumbent
<1>. HIDE DEF disp
<1>5. PICK e : ledger' = ledger \cup {e} /\ e.claim = c.tx /\ e.at = c.tx /\ e.disp = disp
  <2>1. ledger' = ledger \cup {new}
    BY <1>4 DEF Appended
  <2>2. new.claim = c.tx /\ new.at = c.tx /\ new.disp = disp
    OBVIOUS
  <2>. QED
    BY <2>1, <2>2
<1>6. c.tx \notin Known
  BY <1>2, <1>3, ClaimTypes DEF Known, MemoryInv
<1>7. Says(c, e)'
  <2>1. /\ disp = "Quarantined" <=> Unsound(c)
        /\ disp # "Superseded"
        /\ disp = "Contested" => Conflicts(c, Incumbent(L, t), Rivals(L, t))
    BY DecidedSays DEF disp
  <2>2. ASSUME disp = "Contested", ~SomeEnded(c.predicate)'
        PROVE  ~Succession(Sound(c.predicate)') /\ \E d \in Sound(c.predicate)' : d.value # c.value
    <3>1. ~SomeEnded(c.predicate)
      BY <1>3, <1>4, <2>2 DEF SomeEnded, Line
    <3>2. RawLive(L, t) = Sound(c.predicate) /\ Rivals(L, t) = Sound(c.predicate)
      BY <1>1, <3>1, LiveIsSound
    <3>3. L.claims \subseteq claims /\ L.assertions = assertions
      BY <1>1 DEF Line
    <3>4. Incumbent(L, t) \subseteq Sound(c.predicate)
      BY <3>2, <3>3, IncumbentOf
    <3>5. ~Succession({c} \cup Sound(c.predicate)) /\ \E d \in Sound(c.predicate) : d.value # c.value
      BY <2>1, <2>2, <3>2, <3>4, ConflictIs
    <3>6. Sound(c.predicate)' = {c} \cup Sound(c.predicate)
      BY <1>4, <2>1, <2>2 DEF Sound, Unsound
    <3>. QED
      BY <3>5, <3>6
  <2>3. Unsound(c)' <=> Unsound(c)
    BY DEF Unsound
  <2>. QED
    BY <1>5, <2>1, <2>2, <2>3 DEF Says
<1>8. ASSUME NEW d \in claims', NEW f \in ledger', f.claim = d.tx, f.at = d.tx PROVE Says(d, f)'
  <2>1. CASE f = e
    <3>1. d = c
      BY <1>4, <1>5, <1>6, <1>8, <2>1 DEF Known
    <3>. QED
      BY <1>7, <2>1, <3>1
  <2>2. CASE f # e
    <3>1. f \in ledger /\ f.claim \in Known
      BY <1>5, <2>2 DEF MemoryInv, EntriesInv
    <3>2. d \in claims
      BY <1>4, <1>6, <1>8, <3>1
    <3>3. Says(d, f)
      BY <1>8, <3>1, <3>2, OrderIs
    <3>. QED
      BY <1>3, <1>4, <3>3, SaysStill
  <2>. QED
    BY <2>1, <2>2
<1>9. ASSUME NEW f \in ledger', f.at # f.claim PROVE \E a \in assertions' : a.claim = f.claim
  BY <1>3, <1>5, <1>9 DEF OrderInv
<1>. QED
  BY <1>8, <1>9 DEF OrderInv, Says

\* Every call keeps what the entries say.
LEMMA OrderStep == MemoryInv /\ OrderInv /\ [TimelineNext]_vars => OrderInv'
<1>. SUFFICES ASSUME MemoryInv, OrderInv, [TimelineNext]_vars PROVE OrderInv'
  OBVIOUS
<1>1. ASSUME UNCHANGED <<claims, ledger, assertions>> PROVE OrderInv'
  <2>1. ASSUME NEW c \in claims', NEW e \in ledger', e.claim = c.tx, e.at = c.tx PROVE Says(c, e)'
    <3>1. Says(c, e)
      BY <1>1, <2>1, OrderIs
    <3>. QED
      BY <1>1, <3>1, SaysStill
  <2>2. \A e \in ledger' : e.at # e.claim => \E a \in assertions' : a.claim = e.claim
    BY <1>1 DEF OrderInv
  <2>. QED
    BY <2>1, <2>2 DEF OrderInv, Says
<1>2. CASE UNCHANGED vars
  BY <1>1, <1>2 DEF vars
<1>3. ASSUME NEW p \in Predicate, NEW text \in EndText, EndFactTool(p, text) PROVE OrderInv'
  <2>1. claims' = claims
    BY <1>3, EndWrites
  <2>2. CASE ledger' = ledger /\ assertions' = assertions
    BY <1>1, <2>1, <2>2
  <2>3. CASE ~(ledger' = ledger /\ assertions' = assertions)
    <3>1. PICK b \in claims : \E a, e :
            /\ assertions' = assertions \cup {a} /\ ledger' = ledger \cup {e}
            /\ a.claim = b.tx /\ e.claim = b.tx /\ e.at = clock + 1
      BY <1>3, <2>3, EndWrites
    <3>2. PICK a, e : /\ assertions' = assertions \cup {a} /\ ledger' = ledger \cup {e}
                      /\ a.claim = b.tx /\ e.claim = b.tx /\ e.at = clock + 1
      BY <3>1
    <3>3. ASSUME NEW c \in claims', NEW f \in ledger', f.claim = c.tx, f.at = c.tx PROVE Says(c, f)'
      <4>1. c \in claims /\ c.tx # clock + 1
        BY <2>1, ClaimTypes DEF MemoryInv
      <4>2. f \in ledger
        BY <3>2, <3>3, <4>1
      <4>3. Says(c, f)
        BY <3>3, <4>1, <4>2, OrderIs
      <4>. QED
        BY <2>1, <3>2, <4>3, SaysStill
    <3>4. ASSUME NEW f \in ledger', f.at # f.claim PROVE \E x \in assertions' : x.claim = f.claim
      BY <3>2, <3>4 DEF OrderInv
    <3>. QED
      BY <3>3, <3>4 DEF OrderInv, Says
  <2>. QED
    BY <2>2, <2>3
<1>. QED
  BY <1>1, <1>2, <1>3, StepIs, TellKeepsOrder

\* The entries say so at all times.
LEMMA OrderInvariant == TimelineSpec => []OrderInv
<1>1. Init => OrderInv
  BY DEF Init, OrderInv
<1>. QED
  BY <1>1, OrderStep, MemoryInvariant, PTL DEF TimelineSpec

\* More than one.
Many(S) == \E c, d \in S : c # d

\* What a set tells once or twice, another tells once or twice.
Embeds(A, B) ==
  /\ \A c \in A : \E d \in B : d.offer = c.offer
  /\ \A c1, c2 \in A : c1 # c2 => \E d1, d2 \in B : d1 # d2 /\ d1.offer = c1.offer /\ d2.offer = c2.offer

\* Counting to two.
LEMMA ManyIs ==
  ASSUME NEW S, IsFiniteSet(S)
  PROVE  /\ Cardinality(S) > 1 <=> Many(S)
         /\ Cardinality(S) = 1 <=> S # {} /\ ~Many(S)
<1>1. Cardinality(S) \in Nat /\ (Cardinality(S) = 0 <=> S = {})
  BY FS_CardinalityType, FS_EmptySet
<1>2. Cardinality(S) = 1 <=> \E x : S = {x}
  BY FS_Singleton
<1>3. (\E x : S = {x}) <=> S # {} /\ ~Many(S)
  BY DEF Many
<1>4. S = {} => ~Many(S)
  BY DEF Many
<1>. QED
  BY <1>1, <1>2, <1>3, <1>4

\* The dates of an offer are trusted if there are any and it is sure of them.
LEMMA StampTimed ==
  ASSUME NEW p, NEW o, NEW lineage, NEW now, NEW x, x = Stamp(p, o, lineage, now)
  PROVE  x.timed = (o.sure /\ {o.from, o.until} # {NoDate})
BY Zenon DEF Stamp

\* All of a claim but its line, its lineage and its instant is what was offered.
LEMMA AsOffered ==
  ASSUME MemoryInv, NEW c \in claims, NEW d \in claims, c.offer = d.offer
  PROVE  /\ c.start = d.start /\ c.end = d.end /\ c.value = d.value /\ c.origin = d.origin
         /\ c.cardinality = d.cardinality /\ (Trusted(c) <=> Trusted(d))
<1>1. ASSUME NEW x \in claims
      PROVE  /\ x.value = x.offer.value /\ x.cardinality = x.offer.cardinality
             /\ x.origin = x.offer.origin
             /\ x.start = IF x.offer.from = NoDate THEN NoStart ELSE InstantOf(x.offer.from)
             /\ x.end = IF x.offer.until = NoDate THEN Never ELSE InstantOf(x.offer.until)
             /\ x.timed = (x.offer.sure /\ {x.offer.from, x.offer.until} # {NoDate})
  <2>1. x = Stamp(x.predicate, x.offer, x.lineage, x.tx)
    BY DEF MemoryInv, ClaimsInv, Genuine
  <2>2. x.timed = (x.offer.sure /\ {x.offer.from, x.offer.until} # {NoDate})
    BY <2>1, StampTimed
  <2>. QED
    BY <2>1, <2>2, StampIs
<1>2. /\ c.start = d.start /\ c.end = d.end /\ c.value = d.value /\ c.origin = d.origin
      /\ c.cardinality = d.cardinality
  BY <1>1
<1>3. c.timed = d.timed
  BY <1>1
<1>. QED
  BY <1>2, <1>3 DEF Trusted

\* Two lines that were told as much of each offer.
LEMMA ToldAlike ==
  ASSUME MemoryInv, NEW p, NEW q,
         {c.offer : c \in {d \in claims : d.predicate = p}}
           = {c.offer : c \in {d \in claims : d.predicate = q}},
         \A o \in {c.offer : c \in {d \in claims : d.predicate = p}} :
           Cardinality({c \in claims : c.predicate = p /\ c.offer = o})
             = Cardinality({c \in claims : c.predicate = q /\ c.offer = o})
  PROVE  Embeds(Line(p).claims, Line(q).claims)
<1> DEFINE Of(r, o) == {c \in claims : c.predicate = r /\ c.offer = o}
           A == {c \in claims : c.predicate = p}
           B == {c \in claims : c.predicate = q}
<1>1. Line(p).claims = A /\ Line(q).claims = B
  BY DEF Line
<1>2. \A c \in A : \E d \in B : d.offer = c.offer
  OBVIOUS
<1>3. ASSUME NEW c1 \in A, NEW c2 \in A, c1 # c2
      PROVE  \E d1, d2 \in B : d1 # d2 /\ d1.offer = c1.offer /\ d2.offer = c2.offer
  <2>1. CASE c1.offer # c2.offer
    BY <1>2, <2>1
  <2>2. CASE c1.offer = c2.offer
    <3> DEFINE o == c1.offer
    <3>1. \A r : IsFiniteSet(Of(r, o))
      BY FS_Subset DEF MemoryInv, ClaimsInv
    <3>2. Many(Of(p, o))
      BY <1>3, <2>2 DEF Many
    <3>3. Cardinality(Of(p, o)) > 1
      BY <3>1, <3>2, ManyIs
    <3>4. Cardinality(Of(p, o)) = Cardinality(Of(q, o))
      OBVIOUS
    <3>5. Many(Of(q, o))
      BY <3>1, <3>3, <3>4, ManyIs
    <3>. QED
      BY <2>2, <3>5 DEF Many
  <2>. QED
    BY <2>1, <2>2
<1>. QED
  BY <1>1, <1>2, <1>3 DEF Embeds

\* Of those whose offer is one of some.
LEMMA EmbedsSome ==
  ASSUME NEW A, NEW B, Embeds(A, B), NEW O
  PROVE  Embeds({c \in A : c.offer \in O}, {c \in B : c.offer \in O})
<1> DEFINE X == {c \in A : c.offer \in O}
           Y == {c \in B : c.offer \in O}
<1>1. ASSUME NEW c \in X PROVE \E d \in Y : d.offer = c.offer
  BY DEF Embeds
<1>2. ASSUME NEW c1 \in X, NEW c2 \in X, c1 # c2
      PROVE  \E d1, d2 \in Y : d1 # d2 /\ d1.offer = c1.offer /\ d2.offer = c2.offer
  <2>1. PICK d1 \in B, d2 \in B : d1 # d2 /\ d1.offer = c1.offer /\ d2.offer = c2.offer
    BY <1>2 DEF Embeds
  <2>. QED
    BY <2>1
<1>. HIDE DEF X, Y
<1>3. Embeds(X, Y)
  BY <1>1, <1>2 DEF Embeds
<1>. QED
  BY <1>3 DEF X, Y

\* What can be told of two claims at a time, of one set can be told of the other.
LEMMA EmbedsTells ==
  ASSUME MemoryInv, NEW A, A \subseteq claims, NEW B, B \subseteq claims, Embeds(A, B)
  PROVE  /\ {c.offer : c \in A} \subseteq {c.offer : c \in B}
         /\ B = {} => A = {}
         /\ Many(A) => Many(B)
         /\ Succession(B) => Succession(A)
         /\ HasConflict(A) => HasConflict(B)
         /\ (\A c \in B : c.start = NoStart /\ c.end = Never)
              => \A c \in A : c.start = NoStart /\ c.end = Never
<1>1. {c.offer : c \in A} \subseteq {c.offer : c \in B} /\ (B = {} => A = {})
  BY DEF Embeds
<1>2. Many(A) => Many(B)
  BY DEF Embeds, Many
<1>3. ASSUME Succession(B) PROVE Succession(A)
  <2>1. ASSUME NEW c \in A PROVE Trusted(c)
    <3>1. PICK d \in B : d.offer = c.offer
      BY DEF Embeds
    <3>. QED
      BY <1>3, <3>1, AsOffered DEF Succession
  <2>2. ASSUME NEW c1 \in A, NEW c2 \in A, c1 # c2 PROVE Apart(c1, c2)
    <3>1. PICK d1 \in B, d2 \in B : d1 # d2 /\ d1.offer = c1.offer /\ d2.offer = c2.offer
      BY <2>2 DEF Embeds
    <3>2. Apart(d1, d2)
      BY <1>3, <3>1 DEF Succession
    <3>3. c1.start = d1.start /\ c1.end = d1.end /\ c2.start = d2.start /\ c2.end = d2.end
      BY <3>1, AsOffered
    <3>. QED
      BY <3>2, <3>3 DEF Apart
  <2>. QED
    BY <2>1, <2>2 DEF Succession
<1>4. ASSUME HasConflict(A) PROVE HasConflict(B)
  <2>1. /\ IsFiniteSet(A) /\ IsFiniteSet(B) /\ IsFiniteSet(Functional(A)) /\ IsFiniteSet(Functional(B))
    BY FS_Subset DEF MemoryInv, ClaimsInv, Functional
  <2>2. CASE Many(Functional(A))
    <3>1. PICK c1 \in Functional(A), c2 \in Functional(A) : c1 # c2
      BY <2>2 DEF Many
    <3>2. PICK d1 \in B, d2 \in B : d1 # d2 /\ d1.offer = c1.offer /\ d2.offer = c2.offer
      BY <3>1 DEF Embeds, Functional
    <3>3. d1 \in Functional(B) /\ d2 \in Functional(B)
      <4>1. /\ c1 \in claims /\ c2 \in claims /\ d1 \in claims /\ d2 \in claims
            /\ c1.cardinality = "Functional" /\ c2.cardinality = "Functional"
        BY <3>1, <3>2 DEF Functional
      <4>2. d1.cardinality = "Functional" /\ d2.cardinality = "Functional"
        BY <3>2, <4>1, AsOffered
      <4>. QED
        BY <3>2, <4>2 DEF Functional
    <3>4. Many(Functional(B))
      BY <3>2, <3>3 DEF Many
    <3>. QED
      BY <2>1, <3>4, ManyIs DEF HasConflict
  <2>3. CASE Many(A) /\ \E c \in A : c.cardinality # "SetValued"
    <3>1. PICK c \in A : c.cardinality # "SetValued"
      BY <2>3
    <3>2. PICK d \in B : d.offer = c.offer
      BY DEF Embeds
    <3>3. d.cardinality # "SetValued"
      BY <3>1, <3>2, AsOffered
    <3>4. Many(B)
      BY <1>2, <2>3
    <3>. QED
      BY <2>1, <3>3, <3>4, ManyIs DEF HasConflict
  <2>. QED
    BY <1>4, <2>1, <2>2, <2>3, ManyIs DEF HasConflict
<1>5. ASSUME \A c \in B : c.start = NoStart /\ c.end = Never, NEW c \in A
      PROVE  c.start = NoStart /\ c.end = Never
  <2>1. PICK d \in B : d.offer = c.offer
    BY DEF Embeds
  <2>. QED
    BY <1>5, <2>1, AsOffered
<1>. QED
  BY <1>1, <1>2, <1>3, <1>4, <1>5

\* What a line that nothing of was ended gives, now or of an instant.
Given(p, v) ==
  IF Succession(Sound(p)) /\ (v # Never \/ Many(Sound(p)))
    THEN {c \in Sound(p) : Holds(c, IF v = Never THEN clock ELSE v)} ELSE Sound(p)

\* It is what query_subject believes.
LEMMA BelievedIsGiven ==
  ASSUME MemoryInv, OrderInv, NEW p, ~SomeEnded(p), NEW v
  PROVE  Believed(p, v) = Given(p, v)
<1> DEFINE L == Line(p)
           S == Sound(p)
<1>1. \A t : RawLive(L, t) = S /\ Reentrant(L, t) = S
  BY LiveIsSound
<1>2. \A t : {Window(L, c, t) : c \in S} = S
  <2>1. \A t : \A c \in S : Window(L, c, t) = c
    BY LiveIsSound
  <2>. QED
    BY <2>1
<1>3. S \subseteq claims /\ IsFiniteSet(S)
  BY FS_Subset DEF Sound, MemoryInv, ClaimsInv
<1>4. Recall(L, clock) = Fold(L, clock, clock) /\ RecallAt(L, clock, v) = Narrowed(L, clock, v)
  <2>1. {c \in claims : c.predicate = p} \subseteq claims
    OBVIOUS
  <2>. QED
    BY <2>1, ReadsAll, LineIs
<1>5. Believed(p, v) = IF v = Never THEN Fold(L, clock, clock) ELSE Narrowed(L, clock, v)
  BY <1>4 DEF Believed
<1>. HIDE DEF L, S
<1>6. \A w : Fold(L, clock, w) =
        IF Many(S) /\ Succession(S) THEN {c \in S : Holds(c, w)} ELSE S
  BY <1>1, <1>3, ManyIs DEF Fold
<1>7. Narrowed(L, clock, v) = IF Succession(S) THEN {c \in S : Holds(c, v)} ELSE Fold(L, clock, v)
  <2>1. Succession({Window(L, c, clock) : c \in Reentrant(L, clock)}) <=> Succession(S)
    BY <1>1, <1>2
  <2>2. ASSUME NEW c \in S PROVE Window(L, c, clock) = c
    BY <2>2, LiveIsSound DEF L, S
  <2>3. {c \in Reentrant(L, clock) : Holds(Window(L, c, clock), v)} = {c \in S : Holds(c, v)}
    BY <1>1, <2>2
  <2>. QED
    BY <2>1, <2>3 DEF Narrowed
<1>8. Given(p, v) = IF Succession(S) /\ (v # Never \/ Many(S))
                      THEN {c \in S : Holds(c, IF v = Never THEN clock ELSE v)} ELSE S
  BY DEF Given, S
<1>9. CASE v = Never
  BY <1>5, <1>6, <1>8, <1>9
<1>10. CASE v # Never
  BY <1>5, <1>6, <1>7, <1>8, <1>10
<1>. QED
  BY <1>9, <1>10

\* If nothing was told before it began, what is sound is told by the offer.
LEMMA SoundAlike ==
  ASSUME MemoryInv, \A c \in claims : c.start <= Epoch, NEW p, NEW q,
         Embeds(Line(p).claims, Line(q).claims)
  PROVE  Embeds(Sound(p), Sound(q))
<1> DEFINE O == {c.offer : c \in {d \in claims : ~Unsound(d)}}
<1>1. ASSUME NEW c \in claims, NEW d \in claims, c.offer = d.offer PROVE Unsound(c) <=> Unsound(d)
  <2>1. \A x \in claims : Incoherent(x) <=> Trusted(x) /\ x.start > x.end
    <3>. SUFFICES ASSUME NEW x \in claims PROVE ~(x.start > x.tx)
      BY DEF Incoherent
    <3>1. x.start \in Nat /\ x.tx \in Nat /\ Epoch < x.tx /\ x.start <= Epoch
      BY ClaimTypes
    <3>. QED
      BY <3>1, AdmissionAssumption
  <2>2. /\ c.start = d.start /\ c.end = d.end /\ c.origin = d.origin
        /\ Trusted(c) <=> Trusted(d)
    BY <1>1, AsOffered
  <2>. QED
    BY <2>1, <2>2 DEF Unsound
<1>2. \A r : Sound(r) = {c \in Line(r).claims : c.offer \in O}
  BY <1>1 DEF Sound, Line
<1>. QED
  BY <1>2, EmbedsSome

\* What is given is told by the offers.
LEMMA GivenAlike ==
  ASSUME MemoryInv, \A c \in claims : c.start <= Epoch, NEW p, NEW q, NEW v,
         Embeds(Line(p).claims, Line(q).claims), Embeds(Line(q).claims, Line(p).claims)
  PROVE  Embeds(Given(p, v), Given(q, v))
<1> DEFINE t == IF v = Never THEN clock ELSE v
           O == {c.offer : c \in {d \in claims : Holds(d, t)}}
<1>1. Embeds(Sound(p), Sound(q)) /\ Embeds(Sound(q), Sound(p))
  BY SoundAlike
<1>2. Sound(p) \subseteq claims /\ Sound(q) \subseteq claims
  BY DEF Sound
<1>3. (Many(Sound(p)) <=> Many(Sound(q))) /\ (Succession(Sound(p)) <=> Succession(Sound(q)))
  BY <1>1, <1>2, EmbedsTells
<1>4. ASSUME NEW r, Sound(r) \subseteq claims
      PROVE  {c \in Sound(r) : Holds(c, t)} = {c \in Sound(r) : c.offer \in O}
  <2>1. ASSUME NEW c \in claims, NEW d \in claims, c.offer = d.offer
        PROVE  Holds(c, t) <=> Holds(d, t)
    BY <2>1, AsOffered DEF Holds
  <2>. HIDE DEF t
  <2>. QED
    BY <1>4, <2>1
<1>5. Embeds({c \in Sound(p) : c.offer \in O}, {c \in Sound(q) : c.offer \in O})
  BY <1>1, EmbedsSome
<1>6. \A r : Given(r, v) = IF Succession(Sound(r)) /\ (v # Never \/ Many(Sound(r)))
                            THEN {c \in Sound(r) : Holds(c, t)} ELSE Sound(r)
  BY DEF Given
<1>. HIDE DEF O, t
<1>7. /\ {c \in Sound(p) : Holds(c, t)} = {c \in Sound(p) : c.offer \in O}
      /\ {c \in Sound(q) : Holds(c, t)} = {c \in Sound(q) : c.offer \in O}
  BY <1>2, <1>4
<1>. QED
  BY <1>1, <1>3, <1>5, <1>6, <1>7

\* Of set-valued facts of one value none is told contested but in a conflict that is read.
LEMMA StatusTells ==
  ASSUME MemoryInv, OrderInv, NEW p, ~SomeEnded(p), NEW v,
         \A c, d \in Line(p).claims :
           {c.cardinality, d.cardinality} = {"SetValued"} => c.value = d.value
  PROVE  LET S == Given(p, v)
         IN  StatusOf(Line(p), S) =
               IF S = {} THEN "NoBelief" ELSE IF HasConflict(S) THEN "Contested"
               ELSE IF ~Many(S) /\ \A c \in S : c.start = NoStart /\ c.end = Never THEN "TimingUncertain"
               ELSE "Resolved"
<1> DEFINE S == Given(p, v)
           L == Line(p)
<1>1. S \subseteq Sound(p) /\ Sound(p) \subseteq L.claims /\ Sound(p) \subseteq claims
  BY DEF Given, Sound, Line
<1>2. IsFiniteSet(S)
  <2>1. S \subseteq claims
    BY <1>1
  <2>. QED
    BY <2>1, FS_Subset DEF MemoryInv, ClaimsInv
<1>3. ASSUME NEW c \in S, Latest(L, c).disp = "Contested" PROVE HasConflict(S)
  <2>1. c \in claims /\ c.predicate = p
    BY <1>1, <1>3 DEF Sound
  <2>2. Latest(L, c) \in ledger /\ Latest(L, c).claim = c.tx /\ Latest(L, c).at = c.tx
    BY <2>1, OneEntry DEF Line
  <2>3. ~Succession(Sound(p)) /\ \E d \in Sound(p) : d.value # c.value
    BY <1>3, <2>1, <2>2 DEF OrderInv
  <2>4. S = Sound(p)
    BY <2>3 DEF Given
  <2>5. PICK d \in S : d.value # c.value
    BY <2>3, <2>4
  <2>6. Cardinality(S) > 1
    BY <1>2, <1>3, <2>5, ManyIs DEF Many
  <2>7. ~({c.cardinality, d.cardinality} = {"SetValued"})
    BY <1>1, <1>3, <2>5
  <2>8. c.cardinality # "SetValued" \/ d.cardinality # "SetValued"
    BY <2>7
  <2>. QED
    BY <1>3, <2>5, <2>6, <2>8 DEF HasConflict
<1>4. Cardinality(S) = 1 <=> S # {} /\ ~Many(S)
  BY <1>2, ManyIs
<1>. HIDE DEF S, L
<1>5. StatusOf(L, S) =
        IF S = {} THEN "NoBelief" ELSE IF HasConflict(S) THEN "Contested"
        ELSE IF Cardinality(S) = 1 /\ \A c \in S : c.start = NoStart /\ c.end = Never THEN "TimingUncertain"
        ELSE "Resolved"
  BY <1>3 DEF StatusOf
<1>. QED
  BY <1>4, <1>5 DEF S, L

\* Whatever is told, to any lines, in any order: lines that were told the same believe the same, of
\* facts told when they had begun and as long as set-valued ones are of one value (I8).
THEOREM OrderDoesNotMatter == TimelineSpec => []ArrivalIndependent
<1>1. ASSUME MemoryInv, OrderInv, NEW p \in Predicate, NEW q \in Predicate,
             NEW v \in Moment, ~SomeEnded(p), ~SomeEnded(q),
             {c.offer : c \in {d \in claims : d.predicate = p}}
               = {c.offer : c \in {d \in claims : d.predicate = q}},
             \A o \in {c.offer : c \in {d \in claims : d.predicate = p}} :
               Cardinality({c \in claims : c.predicate = p /\ c.offer = o})
                 = Cardinality({c \in claims : c.predicate = q /\ c.offer = o}),
             \A c \in claims : c.start <= Epoch,
             \A c, d \in Line(p).claims :
               {c.cardinality, d.cardinality} = {"SetValued"} => c.value = d.value
      PROVE  /\ SubjectFact(p, v).status = SubjectFact(q, v).status
             /\ {c.offer : c \in Believed(p, v)} = {c.offer : c \in Believed(q, v)}
  <2> DEFINE S == Given(p, v)
             T == Given(q, v)
  <2>1. Embeds(Line(p).claims, Line(q).claims) /\ Embeds(Line(q).claims, Line(p).claims)
    BY <1>1, ToldAlike
  <2>2. Embeds(S, T) /\ Embeds(T, S)
    BY <1>1, <2>1, GivenAlike
  <2>3. S \subseteq claims /\ T \subseteq claims
    BY DEF Given, Sound
  <2>4. ASSUME NEW c \in Line(q).claims, NEW d \in Line(q).claims,
               {c.cardinality, d.cardinality} = {"SetValued"}
        PROVE  c.value = d.value
    <3>1. PICK x \in Line(p).claims, y \in Line(p).claims : x.offer = c.offer /\ y.offer = d.offer
      BY <2>1 DEF Embeds
    <3>2. x \in claims /\ y \in claims /\ c \in claims /\ d \in claims
      BY <3>1 DEF Line
    <3>3. /\ x.cardinality = c.cardinality /\ x.value = c.value
          /\ y.cardinality = d.cardinality /\ y.value = d.value
      BY <1>1, <3>1, <3>2, AsOffered
    <3>. QED
      BY <1>1, <2>4, <3>3
  <2>5. /\ StatusOf(Line(p), S) =
             IF S = {} THEN "NoBelief" ELSE IF HasConflict(S) THEN "Contested"
             ELSE IF ~Many(S) /\ \A c \in S : c.start = NoStart /\ c.end = Never THEN "TimingUncertain"
             ELSE "Resolved"
        /\ StatusOf(Line(q), T) =
             IF T = {} THEN "NoBelief" ELSE IF HasConflict(T) THEN "Contested"
             ELSE IF ~Many(T) /\ \A c \in T : c.start = NoStart /\ c.end = Never THEN "TimingUncertain"
             ELSE "Resolved"
    BY <1>1, <2>4, StatusTells
  <2>6. Believed(p, v) = S /\ Believed(q, v) = T
    BY <1>1, BelievedIsGiven
  <2>7. /\ SubjectFact(p, v).status = StatusOf(Line(p), Believed(p, v))
        /\ SubjectFact(q, v).status = StatusOf(Line(q), Believed(q, v))
    BY DEF SubjectFact
  <2>. HIDE DEF S, T
  <2>8. /\ {c.offer : c \in S} = {c.offer : c \in T} /\ (S = {} <=> T = {})
        /\ (Many(S) <=> Many(T)) /\ (HasConflict(S) <=> HasConflict(T))
        /\ (\A c \in S : c.start = NoStart /\ c.end = Never)
             <=> \A c \in T : c.start = NoStart /\ c.end = Never
    BY <1>1, <2>2, <2>3, EmbedsTells
  <2>. QED
    BY <2>5, <2>6, <2>7, <2>8
<1>2. MemoryInv /\ OrderInv => ArrivalIndependent
  BY <1>1, Zenon DEF ArrivalIndependent
<1>. QED
  BY <1>2, MemoryInvariant, OrderInvariant, PTL
=============================================================================
