---------------------------- MODULE StorageProofs ----------------------------
(***************************************************************************)
(* Any number of processes that open one file: its schema is always whole, *)
(* because a migration reads the version it starts from when nobody else   *)
(* can migrate; and whatever they store is read back as it was given.      *)
(***************************************************************************)
EXTENDS Storage, SequenceTheorems, TLAPS

\* A migration under way has the write lock, and starts from the version of the file.
Migrating(p) ==
  /\ writer = p /\ proc[p].version \in 0..Current
  /\ \E v \in 0..proc[p].version : schema = SchemaAt(v)

ProcType == [pc : {"closed", "pragmas", "begin", "migrate", "serving", "failed"},
             attempts : Nat, version : Nat]
Whole(p) == /\ proc[p].pc = "migrate" => Migrating(p)
            /\ proc[p].pc = "serving" => schema = SchemaAt(Current)

SchemaInv ==
  /\ proc \in [Process -> ProcType]
  /\ adapter \in {"sqlite", "postgres"}
  /\ \E v \in 0..Current : schema = SchemaAt(v)
  /\ adapter = "postgres" => schema = SchemaAt(Current)
  /\ \A p \in Process : Whole(p)

\* The columns a version adds are in no older one (apply_v1 to apply_v4).
LEMMA ColumnsAreNew ==
  ASSUME NEW w \in 0..Current, NEW v \in Step, w < v
  PROVE  AddedBy(v) \cap SchemaAt(w).added = {}
<1>1. SchemaAt(w).added = UNION {AddedBy(u) : u \in 1..w}
  BY DEF SchemaAt
<1>2. ASSUME NEW u \in 1..w
      PROVE  AddedBy(v) \cap AddedBy(u) = {}
  <2>1. u \in Int /\ v \in 1..4 /\ u < v
    BY DEF Current, Step
  <2>. QED
    BY <2>1 DEF AddedBy
<1>. QED
  BY <1>1, <1>2

\* What Open leaves of a process.
LEMMA OpenedRecord ==
  ASSUME NEW s \in ProcType, NEW n \in Nat,
         NEW l \in {"closed", "pragmas", "begin", "migrate", "serving", "failed"}
  PROVE  [s EXCEPT !.attempts = n, !.pc = l] = [pc |-> l, attempts |-> n, version |-> s.version]
<1>1. [s EXCEPT !.attempts = n] = [pc |-> s.pc, attempts |-> n, version |-> s.version]
  BY DEF ProcType
<1>2. [s EXCEPT !.attempts = n, !.pc = l] = [[s EXCEPT !.attempts = n] EXCEPT !.pc = l]
  OBVIOUS
<1>3. [[pc |-> s.pc, attempts |-> n, version |-> s.version] EXCEPT !.pc = l] = [pc |-> l, attempts |-> n, version |-> s.version]
  OBVIOUS
<1>. QED
  BY <1>1, <1>2, <1>3, Zenon

\* What Begin leaves of a process.
LEMMA BegunRecord ==
  ASSUME NEW s \in ProcType, NEW n \in Nat,
         NEW l \in {"closed", "pragmas", "begin", "migrate", "serving", "failed"}
  PROVE  [s EXCEPT !.pc = l, !.version = n] = [pc |-> l, attempts |-> s.attempts, version |-> n]
<1>1. [s EXCEPT !.pc = l] = [pc |-> l, attempts |-> s.attempts, version |-> s.version]
  BY DEF ProcType
<1>2. [s EXCEPT !.pc = l, !.version = n] = [[s EXCEPT !.pc = l] EXCEPT !.version = n]
  OBVIOUS
<1>3. [[pc |-> l, attempts |-> s.attempts, version |-> s.version] EXCEPT !.version = n] = [pc |-> l, attempts |-> s.attempts, version |-> n]
  OBVIOUS
<1>. QED
  BY <1>1, <1>2, <1>3, Zenon

\* At first nobody has the file open.
LEMMA SchemaInit ==
  ASSUME Init
  PROVE  SchemaInv
<1>1. proc \in [Process -> ProcType] /\ \A p \in Process : proc[p].pc = "closed"
  BY DEF Init, Closed, ProcType
<1>2. adapter \in {"sqlite", "postgres"}
  BY DEF Init
<1>3. \E v \in 0..Current : schema = SchemaAt(v)
  BY DEF Init, Current
<1>4. adapter = "postgres" => schema = SchemaAt(Current)
  BY DEF Init
<1>. QED
  BY <1>1, <1>2, <1>3, <1>4 DEF SchemaInv, Whole

\* A step of one process that leaves the schema and the lock alone, and does not begin a
\* migration, or serve an older schema, keeps the invariant.
LEMMA QuietStep ==
  ASSUME SchemaInv, NEW p \in Process, NEW r \in ProcType,
         proc' = [proc EXCEPT ![p] = r], UNCHANGED <<adapter, schema>>,
         writer' = writer \/ writer = p \/ writer = Nobody,
         r.pc = "migrate" => /\ writer' = p /\ r.version \in 0..Current
                             /\ \E v \in 0..r.version : schema = SchemaAt(v)
                             /\ writer \in {p, Nobody},
         r.pc = "serving" => schema = SchemaAt(Current)
  PROVE  SchemaInv'
<1>. USE StorageAssumption
<1>1. proc' \in [Process -> ProcType] /\ proc'[p] = r
  BY DEF SchemaInv
<1>2. Whole(p)'
  BY <1>1 DEF Whole, Migrating
<1>3. ASSUME NEW q \in Process, q # p
      PROVE  Whole(q)'
  <2>1. proc'[q] = proc[q] /\ Whole(q)
    BY <1>3 DEF SchemaInv
  <2>2. proc[q].pc = "migrate" => writer = q /\ writer' = q
    BY <1>3, <2>1 DEF Whole, Migrating
  <2>. QED
    BY <2>1, <2>2 DEF Whole, Migrating
<1>. QED
  BY <1>1, <1>2, <1>3 DEF SchemaInv

\* No step of a process leaves the schema between two versions.
LEMMA SchemaKept ==
  ASSUME SchemaInv, [Next]_vars
  PROVE  SchemaInv'
<1>. USE StorageAssumption
<1>1. CASE UNCHANGED vars
  BY <1>1 DEF SchemaInv, Whole, Migrating, vars
<1>2. ASSUME NEW p \in Process, Open(p) \/ Pragmas(p) \/ Busy(p) \/ Fail(p) \/ Crash(p)
      PROVE  SchemaInv'
  <2>1. proc[p] \in ProcType /\ proc \in [Process -> ProcType]
    BY DEF SchemaInv
  <2>2. PICK r : /\ proc' = [proc EXCEPT ![p] = r]
                 /\ r \in ProcType /\ r.pc # "migrate"
                 /\ r.pc = "serving" => adapter # "sqlite"
    <3>1. CASE Open(p)
      <4>. DEFINE r == [proc[p] EXCEPT !.attempts = proc[p].attempts + 1,
                          !.pc = IF adapter = "sqlite" THEN "pragmas" ELSE "serving"]
      <4>1. proc' = [proc EXCEPT ![p] = r]
        BY <2>1, <3>1 DEF Open
      <4>2. proc[p].attempts + 1 \in Nat /\ proc[p].version \in Nat
        BY <2>1 DEF ProcType
      <4>3. r = [pc |-> IF adapter = "sqlite" THEN "pragmas" ELSE "serving",
                 attempts |-> proc[p].attempts + 1, version |-> proc[p].version]
        BY <2>1, <4>2, OpenedRecord
      <4>4. r \in ProcType /\ r.pc # "migrate" /\ (r.pc = "serving" => adapter # "sqlite")
        <5>. HIDE DEF r
        <5>. QED
          BY <4>2, <4>3 DEF ProcType
      <4>. QED
        BY <4>1, <4>4
    <3>2. CASE Pragmas(p) \/ Busy(p) \/ Fail(p)
      <4>1. PICK l \in {"begin", "closed", "failed"} : proc' = [proc EXCEPT ![p].pc = l]
        BY <3>2 DEF Pragmas, Busy, Fail, Goto
      <4>. DEFINE r == [proc[p] EXCEPT !.pc = l]
      <4>2. proc' = [proc EXCEPT ![p] = r]
        BY <2>1, <4>1
      <4>3. r \in ProcType /\ r.pc = l
        BY <2>1 DEF ProcType
      <4>. QED
        BY <4>1, <4>2, <4>3
    <3>3. CASE Crash(p)
      <4>1. Closed \in ProcType /\ Closed.pc = "closed"
        BY DEF Closed, ProcType
      <4>. QED
        BY <3>3, <4>1 DEF Crash
    <3>. QED
      BY <1>2, <3>1, <3>2, <3>3
  <2>3. UNCHANGED <<adapter, schema>> /\ (writer' = writer \/ writer = p)
    BY <1>2 DEF Open, Pragmas, Busy, Fail, Crash
  <2>4. r.pc = "serving" => schema = SchemaAt(Current)
    BY <2>2 DEF SchemaInv
  <2>. QED
    BY <2>2, <2>3, <2>4, QuietStep
<1>3. ASSUME NEW p \in Process, Begin(p)
      PROVE  SchemaInv'
  <2>1. proc[p] \in ProcType
    BY DEF SchemaInv
  <2>2. PICK v \in 0..Current : schema = SchemaAt(v)
    BY DEF SchemaInv
  <2>3. schema.version = v
    BY <2>2 DEF SchemaAt
  <2>. DEFINE r == [proc[p] EXCEPT !.pc = "migrate", !.version = schema.version]
  <2>4. proc' = [proc EXCEPT ![p] = r]
    BY <1>3 DEF Begin
  <2>5. r \in ProcType /\ r.pc = "migrate" /\ r.version = v
    <3>1. proc[p].attempts \in Nat /\ v \in Nat /\ schema.version \in Nat
      BY <2>1, <2>3 DEF ProcType, Current
    <3>2. r = [pc |-> "migrate", attempts |-> proc[p].attempts, version |-> schema.version]
      BY <2>1, <3>1, BegunRecord
    <3>3. r = [pc |-> "migrate", attempts |-> proc[p].attempts, version |-> v]
      <4>. HIDE DEF r
      <4>. QED
        BY <2>3, <3>2
    <3>. HIDE DEF r
    <3>. QED
      BY <3>1, <3>3 DEF ProcType
  <2>6. \E w \in 0..r.version : schema = SchemaAt(w)
    BY <2>2, <2>5 DEF Current
  <2>7. UNCHANGED <<adapter, schema>> /\ writer = Nobody /\ writer' = p
    BY <1>3 DEF Begin
  <2>. HIDE DEF r
  <2>. QED
    BY <2>2, <2>4, <2>5, <2>6, <2>7, QuietStep
<1>4. ASSUME NEW p \in Process, Migrate(p)
      PROVE  SchemaInv'
  <2>. DEFINE v == proc[p].version + 1
  <2>1. proc[p] \in ProcType /\ Migrating(p) /\ v \in Step
    BY <1>4 DEF Migrate, SchemaInv, Whole
  <2>2. PICK w \in 0..proc[p].version : schema = SchemaAt(w)
    BY <2>1 DEF Migrating
  <2>3. w \in 0..Current /\ w < v /\ v \in 0..Current
    BY <2>1, <2>2 DEF Step, Current, Migrating
  <2>4. AddedBy(v) \cap schema.added = {}
    BY <2>1, <2>2, <2>3, ColumnsAreNew
  <2>5. proc' = [proc EXCEPT ![p].version = v] /\ UNCHANGED <<adapter, schema, writer>>
    BY <1>4, <2>4 DEF Migrate
  <2>. DEFINE r == [proc[p] EXCEPT !.version = v]
  <2>6. proc' = [proc EXCEPT ![p] = r]
    BY <2>1, <2>5
  <2>7. r \in ProcType /\ r.pc = "migrate" /\ r.version = v
    BY <1>4, <2>1, <2>3 DEF ProcType, Migrate
  <2>8. \E u \in 0..r.version : schema = SchemaAt(u)
    BY <2>2, <2>3, <2>7 DEF Current
  <2>9. writer = p
    BY <2>1 DEF Migrating
  <2>. HIDE DEF r, v
  <2>. QED
    BY <2>3, <2>5, <2>6, <2>7, <2>8, <2>9, QuietStep
<1>5. ASSUME NEW p \in Process, Commit(p)
      PROVE  SchemaInv'
  <2>1. /\ proc \in [Process -> ProcType] /\ writer = p
        /\ proc' = [proc EXCEPT ![p].pc = "serving"]
        /\ schema' = SchemaAt(Current) /\ adapter' = adapter
    BY <1>5 DEF Commit, Goto, SchemaInv, Whole, Migrating
  <2>2. proc' \in [Process -> ProcType] /\ proc'[p].pc = "serving"
    BY <2>1 DEF ProcType
  <2>3. ASSUME NEW q \in Process, q # p
        PROVE  proc'[q].pc # "migrate"
    BY <2>1, <2>3 DEF SchemaInv, Whole, Migrating
  <2>4. \A q \in Process : Whole(q)'
    BY <2>1, <2>2, <2>3 DEF Whole
  <2>5. \E v \in 0..Current : schema' = SchemaAt(v)
    BY <2>1 DEF Current
  <2>. QED
    BY <2>1, <2>2, <2>4, <2>5 DEF SchemaInv
<1>6. ASSUME NEW p \in Process, Store(p)
      PROVE  SchemaInv'
  <2>1. UNCHANGED <<proc, adapter, schema, writer>>
    BY <1>6 DEF Store, SchemaInv, Whole
  <2>. QED
    BY <2>1 DEF SchemaInv, Whole, Migrating
<1>. QED
  BY <1>1, <1>2, <1>3, <1>4, <1>5, <1>6 DEF Next

\* Whoever got the file open finds every column its statements name, and nobody is refused by a
\* column that is there already, however many processes open the file at once and wherever they
\* fail or die (open_and_migrate, run_migrations).
THEOREM OpenedFilesAreCurrent == Spec => []OpenedIsCurrent
<1>1. SchemaInv => OpenedIsCurrent
  BY DEF SchemaInv, Whole, ProcType, OpenedIsCurrent
<1>. QED
  BY <1>1, SchemaInit, SchemaKept, PTL DEF Spec

\* An instant is its second and its two groups of digits.
-----------------------------------------------------------------------------
(* The order of the texts of instants.                                     *)

\* The text of the instant 4 * s + 2 * m + u.
Form(s, m, u) == IF u = 1 THEN <<s, 1, 2 + m, 3, 0>>
                 ELSE IF m = 1 THEN <<s, 1, 3, 0>> ELSE <<s, 0>>

\* An instant is its second and its two groups of digits.
LEMMA Digits ==
  ASSUME NEW n \in Nat
  PROVE  /\ n \div 4 \in Nat /\ (n \div 2) % 2 \in {0, 1} /\ n % 2 \in {0, 1}
         /\ n = 4 * (n \div 4) + 2 * ((n \div 2) % 2) + (n % 2)
  OBVIOUS

\* A text is put together from its groups of digits.
LEMMA Joined ==
  ASSUME NEW a \in Nat, NEW b \in Nat, NEW c \in Nat
  PROVE  <<a, b>> \o <<c>> = <<a, b, c>> /\ <<a, b>> \o <<>> = <<a, b>>
<1>1. <<a, b>> \o <<c>> = <<a, b, c>>
  <2>1. <<a, b>> \in Seq(Nat) /\ <<c>> \in Seq(Nat) /\ <<a, b, c>> \in Seq(Nat)
    OBVIOUS
  <2>2. Len(<<a, b>>) = 2 /\ Len(<<c>>) = 1 /\ Len(<<a, b, c>>) = 3
    OBVIOUS
  <2>3. PICK s \in Seq(Nat) : s = <<a, b>> \o <<c>>
    BY <2>1, ConcatProperties
  <2>4. Len(s) = 3
    BY <2>1, <2>2, <2>3, ConcatProperties
  <2>5. s[1] = <<a, b>>[1] /\ s[2] = <<a, b>>[2] /\ s[3] = <<c>>[1]
    BY <2>1, <2>2, <2>3, ConcatProperties
  <2>6. s[1] = a /\ s[2] = b /\ s[3] = c
    BY <2>5
  <2>7. s = <<a, b, c>>
    BY <2>4, <2>6
  <2>. QED
    BY <2>3, <2>7
<1>2. <<a, b>> \in Seq(Nat)
  OBVIOUS
<1>. QED
  BY <1>1, <1>2, ConcatEmptySeq

\* The text of an instant shows a group of digits only if it is needed.
LEMMA TextOf ==
  ASSUME NEW n \in Nat
  PROVE  \E s \in Nat, m, u \in {0, 1} :
           n = 4 * s + 2 * m + u /\ Text(n) = Form(s, m, u)
<1>1. PICK s, m, u : /\ s = n \div 4 /\ m = (n \div 2) % 2 /\ u = n % 2
                     /\ s \in Nat /\ m \in {0, 1} /\ u \in {0, 1} /\ n = 4 * s + 2 * m + u
  BY Digits
<1>. DEFINE fraction == IF m = 0 /\ u = 0 THEN <<>>
                        ELSE <<Dot, Digit(m)>> \o IF u = 0 THEN <<>> ELSE <<Digit(u)>>
<1>2. Text(n) = <<s>> \o fraction \o <<Plus>>
  BY <1>1, Zenon DEF Text
<1>3. CASE u = 1
  <2>1. fraction = <<Dot, Digit(m)>> \o <<Digit(u)>>
    BY <1>3
  <2>2. fraction = <<1, 2 + m, 3>>
    BY <1>1, <1>3, <2>1, Joined DEF Dot, Digit
  <2>. HIDE DEF fraction
  <2>3. Text(n) = <<s, 1, 2 + m, 3, 0>>
    BY <1>1, <1>2, <2>2 DEF Plus
  <2>. QED
    BY <1>1, <1>3, <2>3 DEF Form
<1>4. CASE u = 0 /\ m = 1
  <2>1. fraction = <<Dot, Digit(m)>> \o <<>>
    BY <1>4
  <2>2. fraction = <<1, 3>>
    BY <1>4, <2>1, Joined DEF Dot, Digit
  <2>. HIDE DEF fraction
  <2>3. Text(n) = <<s, 1, 3, 0>>
    BY <1>1, <1>2, <2>2 DEF Plus
  <2>. QED
    BY <1>1, <1>4, <2>3 DEF Form
<1>5. CASE u = 0 /\ m = 0
  <2>1. Text(n) = <<s, 0>>
    BY <1>1, <1>2, <1>5 DEF Plus
  <2>. QED
    BY <1>1, <1>5, <2>1 DEF Form
<1>. QED
  BY <1>1, <1>3, <1>4, <1>5

\* to_rfc3339, then parse_from_rfc3339.
LEMMA TextReadBack ==
  ASSUME NEW n \in Nat
  PROVE  InstantOf(Text(n)) = n
<1>1. PICK s \in Nat, m \in {0, 1}, u \in {0, 1} :
           n = 4 * s + 2 * m + u /\ Text(n) = Form(s, m, u)
  BY TextOf
<1>2. CASE u = 1
  <2>1. InstantOf(<<s, 1, 2 + m, 3, 0>>) = 4 * s + 2 * m + 1
    BY DEF InstantOf, Digit
  <2>. QED
    BY <1>1, <1>2, <2>1 DEF Form
<1>3. CASE u = 0 /\ m = 1
  <2>1. InstantOf(<<s, 1, 3, 0>>) = 4 * s + 2
    BY DEF InstantOf, Digit
  <2>. QED
    BY <1>1, <1>3, <2>1 DEF Form
<1>4. CASE u = 0 /\ m = 0
  <2>1. InstantOf(<<s, 0>>) = 4 * s
    BY DEF InstantOf, Digit
  <2>. QED
    BY <1>1, <1>4, <2>1 DEF Form
<1>. QED
  BY <1>1, <1>2, <1>3, <1>4

\* Texts compare as they do where they first differ.
LEMMA Differ ==
  ASSUME NEW x \in Seq(Nat), NEW y \in Seq(Nat), NEW i \in 1..Len(x), i <= Len(y), x[i] < y[i],
         \A j \in 1..i - 1 : x[j] = y[j]
  PROVE  UpTo(x, y) /\ ~UpTo(y, x)
<1>1. UpTo(x, y)
  BY DEF UpTo
<1>2. i \in 1..Len(y) /\ Len(x) \in Nat /\ Len(y) \in Nat /\ x[i] \in Nat /\ y[i] \in Nat
  OBVIOUS
<1>3. y # x
  BY <1>2
<1>4. ASSUME NEW j \in 1..Len(y), j <= Len(x), y[j] < x[j], \A k \in 1..j - 1 : y[k] = x[k]
      PROVE  FALSE
  <2>1. x[j] \in Nat /\ y[j] \in Nat
    BY <1>2, <1>4
  <2>2. j = i \/ j \in 1..i - 1 \/ i \in 1..j - 1
    BY <1>2
  <2>. QED
    BY <1>2, <1>4, <2>1, <2>2
<1>5. ASSUME IsStrictPrefix(y, x)
      PROVE  FALSE
  <2>1. Len(y) <= Len(x) /\ SubSeq(y, 1, Len(y)) = SubSeq(x, 1, Len(y))
    BY <1>5 DEF IsStrictPrefix, IsPrefix
  <2>2. SubSeq(y, 1, Len(y))[i] = y[i] /\ SubSeq(x, 1, Len(y))[i] = x[i]
    BY <1>2, <2>1
  <2>. QED
    BY <1>2, <2>1, <2>2
<1>. QED
  BY <1>1, <1>3, <1>4, <1>5 DEF UpTo

\* What is known of it, position by position.
Shape(x, s, m, u) ==
  /\ x \in Seq(Nat)
  /\ Len(x) = IF u = 1 THEN 5 ELSE IF m = 1 THEN 4 ELSE 2
  /\ x[1] = s
  /\ x[2] = IF u = 1 \/ m = 1 THEN 1 ELSE 0
  /\ u = 1 \/ m = 1 => x[3] = 2 + m /\ x[4] = 3 * u

\* What stands where in the text of an instant.
LEMMA FormShape ==
  ASSUME NEW s \in Nat, NEW m \in {0, 1}, NEW u \in {0, 1}
  PROVE  Shape(Form(s, m, u), s, m, u)
<1>1. CASE u = 1
  <2>1. PICK x : x = <<s, 1, 2 + m, 3, 0>>
    OBVIOUS
  <2>2. 2 + m \in Nat
    OBVIOUS
  <2>3. x \in Seq(Nat)
    BY <2>1, <2>2
  <2>4. Len(x) = 5 /\ x[1] = s /\ x[2] = 1 /\ x[3] = 2 + m /\ x[4] = 3
    BY <2>1
  <2>5. x = Form(s, m, u)
    BY <1>1, <2>1 DEF Form
  <2>. QED
    BY <1>1, <2>3, <2>4, <2>5 DEF Shape
<1>2. CASE u = 0 /\ m = 1
  <2>1. PICK x : x = <<s, 1, 3, 0>>
    OBVIOUS
  <2>2. x \in Seq(Nat)
    BY <2>1
  <2>3. Len(x) = 4 /\ x[1] = s /\ x[2] = 1 /\ x[3] = 3 /\ x[4] = 0
    BY <2>1
  <2>4. x = Form(s, m, u)
    BY <1>2, <2>1 DEF Form
  <2>. QED
    BY <1>2, <2>2, <2>3, <2>4 DEF Shape
<1>3. CASE u = 0 /\ m = 0
  <2>1. PICK x : x = <<s, 0>>
    OBVIOUS
  <2>2. x \in Seq(Nat) /\ Len(x) = 2 /\ x[1] = s /\ x[2] = 0
    BY <2>1
  <2>3. x = Form(s, m, u)
    BY <1>3, <2>1 DEF Form
  <2>. QED
    BY <1>3, <2>2, <2>3 DEF Shape
<1>. QED
  BY <1>1, <1>2, <1>3

\* The text of an instant is one.
LEMMA TextIsText ==
  ASSUME NEW n \in Nat
  PROVE  Text(n) \in Seq(Nat)
<1>1. PICK s \in Nat, m \in {0, 1}, u \in {0, 1} : Text(n) = Form(s, m, u)
  BY TextOf
<1>2. Form(s, m, u) \in Seq(Nat)
  BY <1>1, FormShape DEF Shape
<1>. QED
  BY <1>1, <1>2

\* The later of two instants has the later text: a point is later than the plus before an
\* offset, and so is a digit.
LEMMA TextDiffers ==
  ASSUME NEW a \in Nat, NEW b \in Nat, a < b
  PROVE  UpTo(Text(a), Text(b)) /\ ~UpTo(Text(b), Text(a))
<1>1. PICK s \in Nat, m \in {0, 1}, u \in {0, 1} :
        a = 4 * s + 2 * m + u /\ Text(a) = Form(s, m, u)
  BY TextOf
<1>2. PICK t \in Nat, n \in {0, 1}, v \in {0, 1} :
        b = 4 * t + 2 * n + v /\ Text(b) = Form(t, n, v)
  BY TextOf
<1>3. s < t \/ (s = t /\ 2 * m + u < 2 * n + v)
  <2>1. (m = 0 \/ m = 1) /\ (u = 0 \/ u = 1) /\ (n = 0 \/ n = 1) /\ (v = 0 \/ v = 1)
    OBVIOUS
  <2>2. 4 * s + 2 * m + u < 4 * t + 2 * n + v
    BY <1>1, <1>2
  <2>3. s \in Nat /\ t \in Nat
    BY <1>1, <1>2
  <2>. QED
    BY <2>1, <2>2, <2>3
<1>4. PICK x : x = Form(s, m, u)
  OBVIOUS
<1>5. PICK y : y = Form(t, n, v)
  OBVIOUS
<1>6. Shape(x, s, m, u)
  BY <1>4, FormShape
<1>7. Shape(y, t, n, v)
  BY <1>5, FormShape
<1>8. \E i \in 1..Len(x) : i <= Len(y) /\ x[i] < y[i] /\ \A j \in 1..i - 1 : x[j] = y[j]
  <2>1. CASE s < t
    <3>1. 1 \in 1..Len(x) /\ 1 <= Len(y) /\ x[1] < y[1] /\ \A j \in 1..1 - 1 : x[j] = y[j]
      BY <1>6, <1>7, <2>1 DEF Shape
    <3>. QED
      BY <3>1
  <2>2. CASE s = t /\ m = 0 /\ u = 0
    <3>1. v = 1 \/ n = 1
      BY <1>3, <2>2
    <3>2. 2 \in 1..Len(x) /\ 2 <= Len(y) /\ x[2] < y[2] /\ x[1] = y[1]
      BY <1>6, <1>7, <2>2, <3>1 DEF Shape
    <3>3. \A j \in 1..2 - 1 : x[j] = y[j]
      BY <3>2
    <3>. QED
      BY <3>2, <3>3
  <2>3. CASE s = t /\ m = 0 /\ u = 1
    <3>1. n = 1
      BY <1>3, <2>3
    <3>2. 3 \in 1..Len(x) /\ 3 <= Len(y) /\ x[3] < y[3] /\ x[1] = y[1] /\ x[2] = y[2]
      BY <1>6, <1>7, <2>3, <3>1 DEF Shape
    <3>3. \A j \in 1..3 - 1 : j = 1 \/ j = 2
      OBVIOUS
    <3>. QED
      BY <3>2, <3>3
  <2>4. CASE s = t /\ m = 1
    <3>1. u = 0 /\ n = 1 /\ v = 1
      BY <1>3, <2>4
    <3>2. /\ 4 \in 1..Len(x) /\ 4 <= Len(y) /\ x[4] < y[4]
          /\ x[1] = y[1] /\ x[2] = y[2] /\ x[3] = y[3]
      BY <1>6, <1>7, <2>4, <3>1 DEF Shape
    <3>3. \A j \in 1..4 - 1 : j = 1 \/ j = 2 \/ j = 3
      OBVIOUS
    <3>. QED
      BY <3>2, <3>3
  <2>. QED
    BY <1>3, <2>1, <2>2, <2>3, <2>4
<1>. QED
  BY <1>1, <1>2, <1>4, <1>5, <1>6, <1>7, <1>8, Differ DEF Shape

\* Cutoffs on TEXT columns select by instant (load_subject_line, load_ledger_for_claims).
LEMMA TextOrder ==
  ASSUME NEW a \in Nat, NEW b \in Nat
  PROVE  UpTo(Text(a), Text(b)) <=> a <= b
<1>1. CASE a = b
  BY <1>1 DEF UpTo
<1>2. CASE a < b
  BY <1>2, TextDiffers
<1>3. CASE b < a
  BY <1>3, TextDiffers
<1>. QED
  BY <1>1, <1>2, <1>3

-----------------------------------------------------------------------------
(* Cells.                                                                  *)

\* No two variants have one text.
Apart(texts) == \A v, w \in DOMAIN texts : texts[v] = texts[w] => v = w

\* Variants that are written as they are named.
LEMMA NamedApart ==
  ASSUME NEW S
  PROVE  Apart(Named(S))
  BY DEF Named, Apart

\* Each variant of a column can be told from the others by its text.
LEMMA SpelledApart ==
  ASSUME NEW c \in Spelled
  PROVE  Apart(Spelling(c))
<1>1. CASE c \in Granularities
  <2>1. Spelling(c) = GranularityText
    BY <1>1 DEF Spelling, Granularities
  <2>2. /\ DOMAIN GranularityText = {"Year", "Month", "Day", "Instant"}
        /\ GranularityText["Year"] = "year" /\ GranularityText["Month"] = "month"
        /\ GranularityText["Day"] = "day" /\ GranularityText["Instant"] = "instant"
    BY DEF GranularityText
  <2>3. PICK texts : texts = GranularityText
    OBVIOUS
  <2>4. ASSUME NEW v \in DOMAIN texts, NEW w \in DOMAIN texts
        PROVE  texts[v] = texts[w] => v = w
    BY <2>2, <2>3
  <2>. QED
    BY <2>1, <2>3, <2>4 DEF Apart
<1>2. CASE c = "provenance_label"
  <2>1. Spelling(c) = ProvenanceText
    BY <1>2 DEF Spelling, Granularities
  <2>2. /\ DOMAIN ProvenanceText = {"ModelDerived", "RecallReEntry", "UserAsserted", "ExternalFirstHand"}
        /\ ProvenanceText["ModelDerived"] = "ModelDerived"
        /\ ProvenanceText["RecallReEntry"] = "RecallReEntry"
        /\ ProvenanceText["UserAsserted"] = "External_UserAsserted"
        /\ ProvenanceText["ExternalFirstHand"] = "External_ExternalFirstHand"
    BY DEF ProvenanceText
  <2>3. PICK texts : texts = ProvenanceText
    OBVIOUS
  <2>4. ASSUME NEW v \in DOMAIN texts, NEW w \in DOMAIN texts
        PROVE  texts[v] = texts[w] => v = w
    BY <2>2, <2>3
  <2>. QED
    BY <2>1, <2>3, <2>4 DEF Apart
<1>3. CASE c = "cardinality"
  <2>1. Spelling(c) = CardinalityText
    BY <1>3 DEF Spelling, Granularities
  <2>2. Apart(CardinalityText)
    BY NamedApart DEF CardinalityText
  <2>. QED
    BY <2>1, <2>2
<1>4. CASE c = "criticality"
  <2>1. Spelling(c) = CriticalityText
    BY <1>4 DEF Spelling, Granularities
  <2>2. Apart(CriticalityText)
    BY NamedApart DEF CriticalityText
  <2>. QED
    BY <2>1, <2>2
<1>5. CASE c = "edge_kind"
  <2>1. Spelling(c) = EdgeKindText
    BY <1>5 DEF Spelling, Granularities
  <2>2. Apart(EdgeKindText)
    BY NamedApart DEF EdgeKindText
  <2>. QED
    BY <2>1, <2>2
<1>6. CASE c = "event_kind"
  <2>1. Spelling(c) = EventKindText
    BY <1>6 DEF Spelling, Granularities
  <2>2. Apart(EventKindText)
    BY NamedApart DEF EventKindText
  <2>. QED
    BY <2>1, <2>2
<1>7. CASE c = "disposition"
  <2>1. Spelling(c) = DispositionText
    BY <1>7 DEF Spelling, Granularities
  <2>2. Apart(DispositionText)
    BY NamedApart DEF DispositionText
  <2>. QED
    BY <2>1, <2>2
<1>8. CASE c = "assertion_kind"
  <2>1. Spelling(c) = AssertionKindText
    BY <1>8 DEF Spelling, Granularities
  <2>2. Apart(AssertionKindText)
    BY NamedApart DEF AssertionKindText
  <2>. QED
    BY <2>1, <2>2
<1>. QED
  BY <1>1, <1>2, <1>3, <1>4, <1>5, <1>6, <1>7, <1>8 DEF Spelled

\* All columns of all tables.
Columns == {"key"} \cup Instants \cup Spelled

\* A value at the precision its column keeps.
Keeps(c, v) == IF Stamped(adapter, c) /\ v # Null THEN Micro(v) ELSE v

\* A cell is read as the value it was written for, at the precision of its column.
LEMMA DecodesBack ==
  ASSUME NEW c \in Columns, NEW v, Plain(c) \/ v = Null \/ v \in Values(c)
  PROVE  Decode(adapter, c, Encode(adapter, c, v)) = {Keeps(c, v)}
<1>1. CASE v = Null \/ Plain(c)
  BY <1>1 DEF Decode, Encode, Keeps, Plain, Stamped
<1>2. CASE ~Plain(c) /\ v # Null /\ Stamped(adapter, c)
  BY <1>2 DEF Decode, Encode, Keeps
<1>3. CASE ~Plain(c) /\ v # Null /\ ~Stamped(adapter, c) /\ c \in Instants
  <2>1. v \in Nat /\ Encode(adapter, c, v) = Text(v)
    BY <1>3 DEF Values, Encode
  <2>2. Text(v) \in Seq(Nat) /\ InstantOf(Text(v)) = v
    BY <2>1, TextIsText, TextReadBack
  <2>3. Text(v) # Null
    BY <2>2, NullAssumption
  <2>. QED
    BY <1>3, <2>1, <2>2, <2>3 DEF Decode, Keeps
<1>4. CASE ~Plain(c) /\ v # Null /\ ~Stamped(adapter, c) /\ c \notin Instants
  <2>1. c \in Spelled /\ v \in DOMAIN Spelling(c)
    BY <1>4 DEF Columns, Plain, Values
  <2>2. PICK text : text = Spelling(c)[v]
    OBVIOUS
  <2>3. Encode(adapter, c, v) = text
    BY <1>4, <2>2 DEF Encode
  <2>4. text # Null
    BY <2>1, <2>2, NullAssumption
  <2>5. {w \in DOMAIN Spelling(c) : Spelling(c)[w] = text} = {v}
    BY <2>1, <2>2, SpelledApart DEF Apart
  <2>. QED
    BY <1>4, <2>3, <2>4, <2>5 DEF Decode, Keeps
<1>. QED
  BY <1>1, <1>2, <1>3, <1>4

\* What a statement inserts, its SELECT list has, and the mapper takes it from there.
LEMMA ColumnsOf ==
  ASSUME NEW t \in Tables
  PROVE  /\ ToSet(Inserted(t)) = ToSet(Taken(t)) /\ Selected(t) = Taken(t)
         /\ ToSet(Taken(t)) \subseteq Columns
         /\ HasCutoff(t) => CutBy(t) \in ToSet(Taken(t)) \cap Instants
<1>1. CASE t = "claims"
  <2>1. Inserted(t) = ClaimTaken /\ Taken(t) = ClaimTaken /\ Selected(t) = ClaimTaken /\ CutBy(t) = "tx_time"
    BY <1>1 DEF Inserted, Taken, Selected, CutBy, ClaimTaken, ClaimInserted
  <2>2. ToSet(ClaimTaken) = {"key", "cardinality", "provenance_label", "tx_time", "valid_time_start",
          "valid_time_end", "criticality", "valid_time_start_granularity", "valid_time_end_granularity"}
    BY DEF ToSet, ClaimTaken
  <2>. QED
    BY <2>1, <2>2 DEF Columns, Spelled, Instants, Granularities
<1>2. CASE t = "assertions"
  <2>1. Inserted(t) = AssertionInserted /\ Taken(t) = AssertionTaken /\ Selected(t) = AssertionTaken
    BY <1>2 DEF Inserted, Taken, Selected, AssertionTaken
  <2>2. ToSet(AssertionTaken) = {"key", "assertion_kind", "bound_at", "bound_at_granularity",
          "reopen_at", "provenance_label", "asserted_at"}
    BY DEF ToSet, AssertionTaken
  <2>3. ToSet(AssertionInserted) = ToSet(AssertionTaken)
    BY <2>2 DEF ToSet, AssertionInserted
  <2>. QED
    BY <1>2, <2>1, <2>2, <2>3 DEF Columns, Spelled, Instants, Granularities, HasCutoff
<1>3. CASE t = "ledger"
  <2>1. Inserted(t) = EntryTaken /\ Taken(t) = EntryTaken /\ Selected(t) = EntryTaken /\ CutBy(t) = "recorded_at"
    BY <1>3 DEF Inserted, Taken, Selected, CutBy, EntryTaken, EntryInserted
  <2>2. ToSet(EntryTaken) = {"key", "event_kind", "disposition", "recorded_at"}
    BY DEF ToSet, EntryTaken
  <2>. QED
    BY <2>1, <2>2 DEF Columns, Spelled, Instants
<1>4. CASE t = "edges"
  <2>1. Inserted(t) = EdgeTaken /\ Taken(t) = EdgeTaken /\ Selected(t) = EdgeTaken
    BY <1>4 DEF Inserted, Taken, Selected, EdgeTaken, EdgeInserted
  <2>2. ToSet(EdgeTaken) = {"key", "edge_kind", "created_at"}
    BY DEF ToSet, EdgeTaken
  <2>. QED
    BY <1>4, <2>1, <2>2 DEF Columns, Spelled, Instants, HasCutoff
<1>5. CASE t = "pending"
  <2>1. Inserted(t) = PendingTaken /\ Taken(t) = PendingTaken /\ Selected(t) = PendingTaken /\ CutBy(t) = "expires_at"
    BY <1>5 DEF Inserted, Taken, Selected, CutBy, PendingTaken, PendingInserted
  <2>2. ToSet(PendingTaken) = {"key", "queued_at", "expires_at"}
    BY DEF ToSet, PendingTaken
  <2>. QED
    BY <2>1, <2>2 DEF Columns, Spelled, Instants
<1>. QED
  BY <1>1, <1>2, <1>3, <1>4, <1>5 DEF Tables

-----------------------------------------------------------------------------
(* Rows.                                                                   *)

\* Each field of the record is taken from a cell that was written for it.
Reads(row, record) ==
  /\ row.table = record.table
  /\ \A c \in ToSet(Taken(record.table)) : Cell(row, c) = Encode(adapter, c, record.cells[c])

\* A name that is in a list stands at its position.
LEMMA PositionOf ==
  ASSUME NEW names, NEW name \in ToSet(names)
  PROVE  names[Position(names, name)] = name
  BY DEF ToSet, Position

\* A row of the current release.
LEMMA RowReads ==
  ASSUME NEW record, Fits(record)
  PROVE  Reads(Row(adapter, record), record)
<1>1. record.table \in Tables
  BY DEF Fits
<1>2. PICK row : row = Row(adapter, record)
  OBVIOUS
<1>3. /\ row.table = record.table
      /\ row.cells = [c \in ToSet(Inserted(record.table)) |-> Encode(adapter, c, record.cells[c])]
  BY <1>2 DEF Row
<1>. QED
  BY <1>1, <1>2, <1>3, ColumnsOf DEF Reads, Cell

\* ALTER TABLE adds columns of date granularity only.
LEMMA AddedColumns == SchemaAt(Current).added \subseteq Granularities
<1>1. SchemaAt(Current).added = UNION {AddedBy(u) : u \in 1..Current}
  BY DEF SchemaAt
<1>. QED
  BY <1>1 DEF AddedBy, Granularities

\* A row of an older release.
LEMMA OlderReads ==
  ASSUME adapter = "sqlite", NEW record \in Legacy, NEW v \in 0..Current
  PROVE  Reads(Older(record, v), record)
<1>1. Fits(record)
  BY OfferAssumption
<1>2. record.table \in Tables
  BY <1>1 DEF Fits
<1>3. DOMAIN record.cells = ToSet(Inserted(record.table))
  BY <1>1 DEF Fits
<1>4. PICK columns : columns = ToSet(Taken(record.table)) /\ columns = ToSet(Inserted(record.table))
  BY <1>2, ColumnsOf
<1>5. PICK later : later = SchemaAt(Current).added \ SchemaAt(v).added
  OBVIOUS
<1>6. PICK row : row = Row("sqlite", record)
  OBVIOUS
<1>7. PICK older : older = Older(record, v)
  OBVIOUS
<1>8. row = [table |-> record.table, cells |-> [c \in columns |-> Encode("sqlite", c, record.cells[c])]]
  BY <1>4, <1>6 DEF Row
<1>9. older = [row EXCEPT !.cells = [c \in columns \ later |-> row.cells[c]]]
  BY <1>5, <1>6, <1>7, <1>8 DEF Older
<1>10. older.table = record.table /\ older.cells = [c \in columns \ later |-> row.cells[c]]
  BY <1>8, <1>9
<1>11. ASSUME NEW c \in columns
       PROVE  Cell(older, c) = Encode(adapter, c, record.cells[c])
  <2>1. CASE c \notin later
    BY <1>8, <1>10, <2>1 DEF Cell
  <2>2. CASE c \in later
    <3>1. record.cells[c] = Null
      BY <1>3, <1>4, <1>5, <2>2, AddedColumns, OfferAssumption
    <3>. QED
      BY <1>10, <2>2, <3>1 DEF Cell, Encode
  <2>. QED
    BY <2>1, <2>2
<1>. QED
  BY <1>4, <1>7, <1>10, <1>11 DEF Reads

\* A row is read back, field for field.
LEMMA ReadsRecord ==
  ASSUME NEW record, Fits(record), NEW row, Reads(row, record)
  PROVE  Readable(adapter, row) /\ RecordOf(adapter, row) = Kept(record)
<1>1. record.table \in Tables
  BY DEF Fits
<1>2. PICK columns : columns = ToSet(Taken(record.table))
  OBVIOUS
<1>3. columns = ToSet(Inserted(record.table)) /\ columns \subseteq Columns /\ Selected(row.table) = Taken(row.table)
  BY <1>1, <1>2, ColumnsOf DEF Reads
<1>4. record = [table |-> record.table, cells |-> [c \in columns |-> record.cells[c]]]
  BY <1>3 DEF Fits
<1>5. ASSUME NEW c \in columns
      PROVE  ValuesOf(adapter, row, c) = {Keeps(c, record.cells[c])}
  <2>1. Selected(row.table)[Position(Taken(row.table), c)] = c
    BY <1>2, <1>3, PositionOf DEF Reads
  <2>2. ValuesOf(adapter, row, c) = Decode(adapter, c, Encode(adapter, c, record.cells[c]))
    BY <1>2, <2>1 DEF ValuesOf, Reads
  <2>3. Plain(c) \/ record.cells[c] = Null \/ record.cells[c] \in Values(c)
    BY <1>3 DEF Fits
  <2>. QED
    BY <1>3, <2>2, <2>3, DecodesBack
<1>6. Readable(adapter, row)
  BY <1>2, <1>5 DEF Readable, Reads
<1>7. \A c \in columns : (CHOOSE v \in ValuesOf(adapter, row, c) : TRUE) = Keeps(c, record.cells[c])
  BY <1>5
<1>8. RecordOf(adapter, row) = [table |-> record.table, cells |-> [c \in columns |-> Keeps(c, record.cells[c])]]
  BY <1>2, <1>7 DEF RecordOf, Reads
<1>9. Kept(record) = [table |-> record.table, cells |-> [c \in columns |-> Keeps(c, record.cells[c])]]
  <2>1. PICK cells : cells = record.cells
    OBVIOUS
  <2>2. record = [table |-> record.table, cells |-> cells] /\ DOMAIN cells = columns
    BY <1>4, <2>1
  <2>3. Kept(record) = [record EXCEPT !.cells = [c \in columns |-> Keeps(c, cells[c])]]
    BY <2>1, <2>2 DEF Kept, Keeps
  <2>. QED
    BY <2>1, <2>2, <2>3
<1>. QED
  BY <1>6, <1>8, <1>9

\* Microseconds are cut off on both sides of a comparison, or on the left only.
LEMMA MicroOrder ==
  ASSUME NEW a \in Nat, NEW b \in Nat
  PROVE  Micro(a) <= Micro(b) <=> Micro(a) <= b
  BY DEF Micro

\* A row is selected by the instant it was given.
LEMMA ReadsCutoff ==
  ASSUME NEW record, Fits(record), NEW row, Reads(row, record), HasCutoff(record.table), NEW t \in Nat
  PROVE  LET due == Kept(record).cells[CutBy(record.table)]
         IN  Selects(row, t) <=> due # Null /\ due <= t
<1>1. record.table \in Tables
  BY DEF Fits
<1>2. PICK c : c = CutBy(record.table)
  OBVIOUS
<1>3. PICK v : v = record.cells[c]
  OBVIOUS
<1>4. c \in ToSet(Taken(record.table)) /\ c \in Instants /\ c \in ToSet(Inserted(record.table))
  BY <1>1, <1>2, ColumnsOf
<1>5. ~Plain(c) /\ Values(c) = Nat
  BY <1>4 DEF Plain, Values, Instants
<1>6. v = Null \/ v \in Nat
  BY <1>3, <1>4, <1>5 DEF Fits
<1>7. Kept(record).cells[c] = Keeps(c, v)
  BY <1>3, <1>4 DEF Fits, Kept, Keeps
<1>8. Cell(row, c) = Encode(adapter, c, v) /\ row.table = record.table
  BY <1>3, <1>4 DEF Reads
<1>9. CASE v = Null
  BY <1>2, <1>7, <1>8, <1>9 DEF Selects, Keeps, Encode
<1>10. CASE v # Null /\ Stamped(adapter, c)
  <2>1. Micro(v) \in Nat /\ Micro(v) # Null
    BY <1>6, <1>10, NullAssumption DEF Micro
  <2>2. Cell(row, c) = Micro(v) /\ Keeps(c, v) = Micro(v)
    BY <1>5, <1>8, <1>10 DEF Encode, Keeps
  <2>. QED
    BY <1>2, <1>6, <1>7, <1>8, <1>10, <2>1, <2>2, MicroOrder DEF Selects
<1>11. CASE v # Null /\ ~Stamped(adapter, c)
  <2>1. Cell(row, c) = Text(v) /\ Keeps(c, v) = v
    BY <1>4, <1>5, <1>8, <1>11 DEF Encode, Keeps
  <2>2. Text(v) # Null
    BY <1>6, <1>11, TextIsText, NullAssumption
  <2>. QED
    BY <1>2, <1>6, <1>7, <1>8, <1>11, <2>1, <2>2, TextOrder DEF Selects
<1>. QED
  BY <1>9, <1>10, <1>11

-----------------------------------------------------------------------------
(* The tables.                                                             *)

\* Every row holds a record that was given, and the other way round.
Holds(r, g) == r.i = g.i /\ Reads(r.row, g.record)
StoredInv ==
  /\ \A g \in given : Fits(g.record) /\ \E r \in rows : Holds(r, g)
  /\ \A r \in rows : \E g \in given : Holds(r, g)

\* A database of an older release holds rows of its own.
LEMMA StoredInit ==
  ASSUME Init
  PROVE  StoredInv
<1>1. CASE given = {} /\ rows = {}
  BY <1>1 DEF StoredInv
<1>2. CASE \E version \in 0..Current : \E l \in Legacy :
             /\ adapter = "sqlite" /\ given = {[i |-> 1, record |-> l]}
             /\ rows = {[i |-> g.i, row |-> Older(g.record, version)] : g \in given}
  <2>1. PICK version \in 0..Current, l \in Legacy :
             /\ adapter = "sqlite" /\ given = {[i |-> 1, record |-> l]}
             /\ rows = {[i |-> g.i, row |-> Older(g.record, version)] : g \in given}
    BY <1>2
  <2>2. PICK g : g = [i |-> 1, record |-> l]
    OBVIOUS
  <2>3. PICK r : r = [i |-> 1, row |-> Older(l, version)]
    OBVIOUS
  <2>4. given = {g} /\ rows = {r}
    BY <2>1, <2>2, <2>3
  <2>5. Fits(l) /\ Reads(Older(l, version), l)
    BY <2>1, OlderReads, OfferAssumption
  <2>6. Fits(g.record) /\ Holds(r, g)
    BY <2>2, <2>3, <2>5 DEF Holds
  <2>. QED
    BY <2>4, <2>6 DEF StoredInv
<1>3. CASE adapter = "sqlite"
  <2>1. PICK version \in 0..Current :
             /\ given \in IF version = 0 THEN {{}} ELSE {{[i |-> 1, record |-> l]} : l \in Legacy}
             /\ rows = {[i |-> g.i, row |-> Older(g.record, version)] : g \in given}
    BY <1>3 DEF Init
  <2>2. CASE version = 0
    <3>1. given = {}
      BY <2>1, <2>2
    <3>2. rows = {}
      BY <2>1, <3>1
    <3>. QED
      BY <1>1, <3>1, <3>2
  <2>3. CASE version # 0
    <3>1. PICK l \in Legacy : given = {[i |-> 1, record |-> l]}
      BY <2>1, <2>3
    <3>. QED
      BY <1>2, <1>3, <2>1, <3>1
  <2>. QED
    BY <2>2, <2>3
<1>4. CASE adapter # "sqlite"
  BY <1>1, <1>4 DEF Init
<1>. QED
  BY <1>3, <1>4

\* Rows are appended, and never changed.
LEMMA StoredKept ==
  ASSUME StoredInv, [Next]_vars
  PROVE  StoredInv'
<1>1. CASE UNCHANGED <<adapter, rows, given>>
  <2>1. \A record, row : Reads(row, record)' <=> Reads(row, record)
    BY <1>1 DEF Reads
  <2>. QED
    BY <1>1 DEF StoredInv, Holds, Reads
<1>2. ASSUME NEW p \in Process, Store(p)
      PROVE  StoredInv'
  <2>1. CASE UNCHANGED <<rows, given>>
    BY <1>1, <1>2, <2>1 DEF Store
  <2>2. CASE ~UNCHANGED <<rows, given>>
    <3>. DEFINE i == Cardinality(given) + 1
    <3>1. PICK record \in Offer :
            /\ given' = given \cup {[i |-> i, record |-> record]}
            /\ rows' = rows \cup {[i |-> i, row |-> Row(adapter, record)]}
      BY <1>2, <2>2 DEF Store
    <3>. HIDE DEF i
    <3>2. adapter' = adapter
      BY <1>2 DEF Store
    <3>3. PICK g : g = [i |-> i, record |-> record]
      OBVIOUS
    <3>4. PICK r : r = [i |-> i, row |-> Row(adapter, record)]
      OBVIOUS
    <3>5. Fits(g.record) /\ Holds(r, g)
      BY <3>3, <3>4, RowReads, OfferAssumption DEF Holds
    <3>6. StoredInv => (\A h \in given \cup {g} : Fits(h.record) /\ \E q \in rows \cup {r} : Holds(q, h))
                       /\ (\A q \in rows \cup {r} : \E h \in given \cup {g} : Holds(q, h))
      BY <3>5 DEF StoredInv
    <3>7. \A q, h : Holds(q, h)' <=> q.i = h.i /\ q.row.table = h.record.table
                 /\ \A c \in ToSet(Taken(h.record.table)) : Cell(q.row, c) = Encode(adapter, c, h.record.cells[c])
      BY <3>2 DEF Holds, Reads
    <3>8. \A q, h : Holds(q, h)' <=> Holds(q, h)
      BY <3>7 DEF Holds, Reads
    <3>. QED
      BY <3>1, <3>3, <3>4, <3>6, <3>8 DEF StoredInv
  <2>. QED
    BY <2>1, <2>2
<1>. QED
  BY <1>1, <1>2 DEF Next, vars, Open, Pragmas, Begin, Migrate, Commit, Busy, Fail, Crash

\* Hence a query answers with what was given.
LEMMA StoredReadsBack ==
  ASSUME StoredInv
  PROVE  ReadsBack
<1>. SUFFICES ASSUME NEW table \in Tables, NEW t \in Cutoff
              PROVE  Query(table, t) =
                {[i |-> g.i, record |-> Kept(g.record)] : g \in
                  {h \in given : /\ h.record.table = table
                                 /\ HasCutoff(table) =>
                                      LET due == Kept(h.record).cells[CutBy(table)]
                                      IN  due # Null /\ due <= t}}
  BY DEF ReadsBack
<1>. DEFINE Due(record) == HasCutoff(table) => LET due == Kept(record).cells[CutBy(table)]
                                               IN  due # Null /\ due <= t
            found == {r \in rows : r.row.table = table /\ (HasCutoff(table) => Selects(r.row, t))}
            asked == {h \in given : h.record.table = table /\ Due(h.record)}
<1>1. t \in Nat
  BY StorageAssumption
<1>2. ASSUME NEW r \in rows, NEW g \in given, Holds(r, g)
      PROVE  /\ r.i = g.i /\ Readable(adapter, r.row) /\ RecordOf(adapter, r.row) = Kept(g.record)
             /\ r \in found <=> g \in asked
  <2>1. Fits(g.record) /\ Reads(r.row, g.record) /\ r.i = g.i
    BY <1>2 DEF StoredInv, Holds
  <2>2. r.row.table = g.record.table
    BY <2>1 DEF Reads
  <2>3. r.row.table = table => ((HasCutoff(table) => Selects(r.row, t)) <=> Due(g.record))
    BY <1>1, <2>1, <2>2, ReadsCutoff
  <2>4. r \in found <=> g \in asked
    BY <2>2, <2>3
  <2>. QED
    BY <2>1, <2>4, ReadsRecord
<1>3. \A r \in found : r \in rows /\ \E g \in asked : Holds(r, g)
  BY <1>2 DEF StoredInv
<1>4. \A g \in asked : g \in given /\ \E r \in found : Holds(r, g)
  BY <1>2 DEF StoredInv
<1>5. \A r \in found : Readable(adapter, r.row)
  BY <1>2, <1>3
<1>6. Query(table, t) = {[i |-> r.i, record |-> RecordOf(adapter, r.row)] : r \in found}
  BY <1>5 DEF Query
<1>7. \A g \in asked : g \in given
  OBVIOUS
<1>. HIDE DEF found, asked
<1>8. {[i |-> r.i, record |-> RecordOf(adapter, r.row)] : r \in found} =
        {[i |-> g.i, record |-> Kept(g.record)] : g \in asked}
  BY <1>2, <1>3, <1>4, <1>7
<1>. QED
  BY <1>6, <1>8 DEF asked

\* Whatever any number of processes stored, or an older release did, is read back as it was given,
\* and a query with a cutoff finds what is no later than it, in both adapters and for all records
\* that fit their tables (append_claim to insert_pending, row_to_claim to row_to_pending).
THEOREM RowsReadBack == Spec => []ReadsBack
<1>. QED
  BY StoredInit, StoredKept, StoredReadsBack, PTL DEF Spec
=============================================================================
