------------------------- MODULE ProjectLedger_proofs -------------------------
(***************************************************************************)
(* Proofs about ProjectLedger, for any number of concurrent transactions,  *)
(* any budget, any limit of attempts and any bounds.                       *)
(***************************************************************************)
EXTENDS ProjectLedger, FiniteSetTheorems, SequenceTheorems, TLAPS

USE LedgerAssumption

Kind == {"project", "shot", "attempt", "attempts", "shots"}

-----------------------------------------------------------------------------
(* What a transaction reads *)

(* The operations, and how many rows each reads.                            *)
LEMMA Operations ==
  /\ Op = {"run", "invalid", "managed", "template", "accept", "reject", "pin",
           "unpin", "start", "passed", "failed", "fail"}
  /\ OnAttempt = {"accept", "reject", "pin", "unpin", "start", "passed", "failed", "fail"}
  /\ "none" \notin Op
BY DEF Op, ReadOrder, OnAttempt, OnNothing, OnShot

LEMMA Orders ==
  /\ Len(ReadOrder["run"]) = 2
     /\ ReadOrder["run"][1] = "shots" /\ ReadOrder["run"][2] = "project"
  /\ Len(ReadOrder["invalid"]) = 2
     /\ ReadOrder["invalid"][1] = "project" /\ ReadOrder["invalid"][2] = "shots"
  /\ Len(ReadOrder["managed"]) = 3
     /\ ReadOrder["managed"][1] = "project" /\ ReadOrder["managed"][2] = "shot"
     /\ ReadOrder["managed"][3] = "attempts"
  /\ Len(ReadOrder["template"]) = 3
     /\ ReadOrder["template"][1] = "shot" /\ ReadOrder["template"][2] = "project"
     /\ ReadOrder["template"][3] = "attempts"
  /\ Len(ReadOrder["accept"]) = 4
     /\ ReadOrder["accept"][1] = "attempt" /\ ReadOrder["accept"][2] = "shot"
     /\ ReadOrder["accept"][3] = "project" /\ ReadOrder["accept"][4] = "shots"
  /\ Len(ReadOrder["reject"]) = 2
     /\ ReadOrder["reject"][1] = "attempt" /\ ReadOrder["reject"][2] = "shot"
  /\ Len(ReadOrder["pin"]) = 1
     /\ ReadOrder["pin"][1] = "shot"
  /\ Len(ReadOrder["unpin"]) = 1
     /\ ReadOrder["unpin"][1] = "shot"
  /\ Len(ReadOrder["start"]) = 2
     /\ ReadOrder["start"][1] = "attempt" /\ ReadOrder["start"][2] = "shot"
  /\ Len(ReadOrder["passed"]) = 3
     /\ ReadOrder["passed"][1] = "attempt" /\ ReadOrder["passed"][2] = "shot"
     /\ ReadOrder["passed"][3] = "project"
  /\ Len(ReadOrder["failed"]) = 3
     /\ ReadOrder["failed"][1] = "attempt" /\ ReadOrder["failed"][2] = "shot"
     /\ ReadOrder["failed"][3] = "project"
  /\ Len(ReadOrder["fail"]) = 3
     /\ ReadOrder["fail"][1] = "attempt" /\ ReadOrder["fail"][2] = "shot"
     /\ ReadOrder["fail"][3] = "project"
BY DEF ReadOrder

(* Whatever is true of the orders of the twelve operations is true of all.  *)
LEMMA Lengths ==
  ASSUME NEW op \in Op
  PROVE  Len(ReadOrder[op]) \in 1..4
BY Operations, Orders DEF WorkerEnd

(* The kinds of row an operation reads.                                     *)
LEMMA OrderKinds ==
  ASSUME NEW op \in Op, NEW i \in 1..Len(ReadOrder[op])
  PROVE  /\ op \in OnNothing => ReadOrder[op][i] \in {"project", "shots"}
         /\ op \in OnShot => ReadOrder[op][i] \in {"project", "shot", "attempts"}
         /\ op = "accept" => ReadOrder[op][i] \in {"attempt", "shot", "project", "shots"}
         /\ op \in OnAttempt \ {"accept"} =>
              ReadOrder[op][i] \in {"attempt", "shot", "project"}
         /\ ReadOrder[op][i] \in Kind
<1>1. i \in {1, 2, 3, 4} /\ i \in 1..Len(ReadOrder[op])
  <2> DEFINE n == Len(ReadOrder[op])
  <2>1. n \in 1..4 /\ i \in 1..n
    BY Lengths
  <2> HIDE DEF n
  <2> QED  BY <2>1
<1>2. op = "run" => ReadOrder[op][i] \in {"project", "shots"}
  BY <1>1, Orders
<1>3. op = "invalid" => ReadOrder[op][i] \in {"project", "shots"}
  BY <1>1, Orders
<1>4. op = "managed" => ReadOrder[op][i] \in {"project", "shot", "attempts"}
  BY <1>1, Orders
<1>5. op = "template" => ReadOrder[op][i] \in {"project", "shot", "attempts"}
  BY <1>1, Orders
<1>6. op = "accept" => ReadOrder[op][i] \in {"attempt", "shot", "project", "shots"}
  BY <1>1, Orders
<1>7. op = "reject" \/ op = "start" => ReadOrder[op][i] \in {"attempt", "shot"}
  BY <1>1, Orders
<1>8. op = "pin" \/ op = "unpin" => ReadOrder[op][i] \in {"attempt", "shot"}
  BY <1>1, Orders
<1>9. op = "passed" => ReadOrder[op][i] \in {"attempt", "shot", "project"}
  BY <1>1, Orders
<1>10. op = "failed" => ReadOrder[op][i] \in {"attempt", "shot", "project"}
  BY <1>1, Orders
<1>11. op = "fail" => ReadOrder[op][i] \in {"attempt", "shot", "project"}
  BY <1>1, Orders
<1> QED
  BY <1>2, <1>3, <1>4, <1>5, <1>6, <1>7, <1>8, <1>9, <1>10, <1>11, Operations
     DEF Kind, OnShot, OnNothing

LEMMA SeenKinds ==
  ASSUME NEW t, t.op \in Op, t.reads \in 0..Len(ReadOrder[t.op])
  PROVE  Seen(t) \subseteq Kind
<1> DEFINE n == Len(ReadOrder[t.op])
           r == t.reads
<1>1. \A i \in 1..r : i \in 1..n
  <2>1. n \in 1..4 /\ r \in 0..n
    BY Lengths
  <2> HIDE DEF n, r
  <2> QED  BY <2>1
<1> QED
  BY <1>1, OrderKinds DEF Seen

(* One more read is one more kind seen.                                     *)
LEMMA SeenGrows ==
  ASSUME NEW t, t.reads \in Nat, NEW u, u.op = t.op, u.reads = t.reads + 1
  PROVE  Seen(u) = Seen(t) \cup {Upcoming(t)}
BY DEF Seen, Upcoming

(* What has been read when everything has been read.                        *)
LEMMA SeenInTheEnd ==
  ASSUME NEW t, t.op \in Op, AllRead(t)
  PROVE  /\ t.op \in OnShot => {"project", "shot", "attempts"} \subseteq Seen(t)
         /\ t.op \in OnNothing => "project" \in Seen(t)
         /\ t.op = "accept" => {"attempt", "shot", "project", "shots"} \subseteq Seen(t)
         /\ t.op \in {"reject", "start"} => {"attempt", "shot"} \subseteq Seen(t)
         /\ t.op \in Annotating => "shot" \in Seen(t)
         /\ t.op \in WorkerEnd => {"attempt", "shot", "project"} \subseteq Seen(t)
<1>1. \A i \in 1..Len(ReadOrder[t.op]) : ReadOrder[t.op][i] \in Seen(t)
  BY DEF Seen, AllRead
<1> USE DEF OnShot, OnNothing, Annotating, WorkerEnd
<1>2. /\ 1 \in 1..1 /\ 1 \in 1..2 /\ 2 \in 1..2 /\ 1 \in 1..3 /\ 2 \in 1..3 /\ 3 \in 1..3
      /\ 1 \in 1..4 /\ 2 \in 1..4 /\ 3 \in 1..4 /\ 4 \in 1..4
  OBVIOUS
<1>3. t.op \in OnShot => {"project", "shot", "attempts"} \subseteq Seen(t)
  BY <1>1, <1>2, Orders
<1>4. t.op \in OnNothing => "project" \in Seen(t)
  BY <1>1, <1>2, Orders
<1>5. t.op = "accept" => {"attempt", "shot", "project", "shots"} \subseteq Seen(t)
  BY <1>1, <1>2, Orders
<1>6. t.op \in {"reject", "start"} => {"attempt", "shot"} \subseteq Seen(t)
  BY <1>1, <1>2, Orders
<1>7. t.op \in Annotating => "shot" \in Seen(t)
  BY <1>1, <1>2, Orders
<1>8. t.op \in WorkerEnd => {"attempt", "shot", "project"} \subseteq Seen(t)
  BY <1>1, <1>2, Orders
<1> QED
  BY <1>3, <1>4, <1>5, <1>6, <1>7, <1>8

(* The attempts of a shot, and the other shots of an acceptance, are read   *)
(* last; the attempts only by the operations that create one.               *)
LEMMA ReadLast ==
  ASSUME NEW t, t.op \in Op, t.reads \in 0..Len(ReadOrder[t.op])
  PROVE  /\ "attempts" \in Seen(t) => t.op \in OnShot /\ AllRead(t)
         /\ t.op = "accept" /\ "shots" \in Seen(t) => AllRead(t)
         /\ t.op \in OnNothing => Seen(t) \subseteq {"project", "shots"}
         /\ "attempt" \in Seen(t) => t.op \in OnAttempt
<1> DEFINE n == Len(ReadOrder[t.op])
           r == t.reads
<1>1. n \in 1..4 /\ r \in 0..n
  BY Lengths
<1>2. \A i \in 1..r : i \in 1..n /\ i \in {1, 2, 3, 4}
  <2> HIDE DEF n, r
  <2> QED  BY <1>1
<1>3. ASSUME "attempts" \in Seen(t)  PROVE t.op \in OnShot /\ AllRead(t)
  <2>1. PICK i \in 1..r : ReadOrder[t.op][i] = "attempts"
    BY <1>3 DEF Seen
  <2>2. i \in 1..n /\ i \in {1, 2, 3, 4}
    BY <1>2
  <2>3. t.op \in {"managed", "template"} /\ n = 3 /\ i = 3
    BY <2>1, <2>2, Operations, Orders
  <2>4. r = 3
    <3> HIDE DEF n, r
    <3> QED  BY <1>1, <2>3
  <2> QED
    BY <2>3, <2>4 DEF AllRead, OnShot
<1>4. ASSUME t.op = "accept", "shots" \in Seen(t)  PROVE AllRead(t)
  <2>1. PICK i \in 1..t.reads : ReadOrder[t.op][i] = "shots"
    BY <1>4 DEF Seen
  <2> QED
    BY <1>4, <2>1, Orders DEF AllRead
<1>5. ASSUME t.op \in OnNothing, NEW kind \in Seen(t)  PROVE kind \in {"project", "shots"}
  <2>1. PICK i \in 1..r : ReadOrder[t.op][i] = kind
    BY DEF Seen
  <2> QED
    BY <1>2, <1>5, <2>1, Orders DEF OnNothing
<1>6. ASSUME "attempt" \in Seen(t)  PROVE t.op \in OnAttempt
  <2>1. PICK i \in 1..r : ReadOrder[t.op][i] = "attempt"
    BY <1>6 DEF Seen
  <2>2. i \in 1..n
    BY <1>2
  <2>3. t.op \notin OnNothing /\ t.op \notin OnShot
    BY <2>1, <2>2, OrderKinds
  <2> QED
    BY <2>3, Operations DEF OnNothing, OnShot
<1> QED
  BY <1>3, <1>4, <1>5, <1>6

(* Which operations a kind of row comes up for.                             *)
LEMMA UpcomingKinds ==
  ASSUME NEW t, t.op \in Op, t.reads \in 0..Len(ReadOrder[t.op]), ~AllRead(t)
  PROVE  /\ Upcoming(t) \in Kind
         /\ Upcoming(t) = "attempt" => t.op \in OnAttempt
         /\ Upcoming(t) = "shot" => t.op \in OnShot \cup OnAttempt
         /\ Upcoming(t) = "attempts" => t.op \in OnShot
         /\ Upcoming(t) = "shots" => t.op \in OnNothing \cup {"accept"}
<1> DEFINE n == Len(ReadOrder[t.op])
           i == t.reads + 1
<1>1. i \in 1..n
  <2>1. n \in 1..4 /\ t.reads \in 0..n /\ t.reads # n
    BY Lengths DEF AllRead
  <2> HIDE DEF n
  <2> QED  BY <2>1
<1>2. Upcoming(t) = ReadOrder[t.op][i]
  BY DEF Upcoming
<1> HIDE DEF i
<1> QED
  <2>1. t.op \in OnNothing \cup OnShot \cup OnAttempt /\ "accept" \in OnAttempt
    BY Operations DEF OnNothing, OnShot
  <2>2. CASE t.op \in OnNothing
    BY <1>1, <1>2, <2>2, OrderKinds
  <2>3. CASE t.op \in OnShot
    BY <1>1, <1>2, <2>3, OrderKinds
  <2>4. CASE t.op = "accept"
    BY <1>1, <1>2, <2>1, <2>4, OrderKinds
  <2>5. CASE t.op \in OnAttempt \ {"accept"}
    BY <1>1, <1>2, <2>5, OrderKinds
  <2> QED
    BY <2>1, <2>2, <2>3, <2>4, <2>5

-----------------------------------------------------------------------------
(* Reading *)

(* The rows of a table, one by one.                                         *)
LEMMA Rows ==
  ASSUME TypeOK
  PROVE  /\ Len(shots) \in Nat /\ DOMAIN shots = 1..Len(shots)
         /\ \A s \in DOMAIN shots : shots[s] \in ShotRow
         /\ Len(attempts) \in Nat /\ DOMAIN attempts = 1..Len(attempts)
         /\ \A a \in DOMAIN attempts : attempts[a] \in AttemptRow
BY DEF TypeOK

LEMMA AttemptsAreCounted ==
  ASSUME TypeOK, NEW s
  PROVE  IsFiniteSet(AttemptsOf(s)) /\ Cardinality(AttemptsOf(s)) \in Nat
<1>1. IsFiniteSet(DOMAIN attempts)
  BY Rows, FS_Interval
<1>2. AttemptsOf(s) \subseteq DOMAIN attempts
  BY DEF AttemptsOf
<1> QED
  BY <1>1, <1>2, FS_Subset, FS_CardinalityType

(* What a read changes of a transaction: the row that was next.             *)
LEMMA GotFields ==
  ASSUME NEW t \in Transaction, Upcoming(t) \in Kind
  PROVE  /\ Got(t).op = t.op /\ Got(t).of = t.of /\ Got(t).code = t.code
         /\ Got(t).reads = t.reads + 1
         /\ Got(t).project = IF Upcoming(t) = "project" THEN project ELSE t.project
         /\ Got(t).row = IF Upcoming(t) = "shot" THEN shots[t.shot] ELSE t.row
         /\ Got(t).attempt = IF Upcoming(t) = "attempt" THEN attempts[t.of] ELSE t.attempt
         /\ Got(t).count = IF Upcoming(t) = "attempts"
                           THEN Cardinality(AttemptsOf(t.shot)) ELSE t.count
         /\ Got(t).shot = IF Upcoming(t) = "shots" /\ t.shot = None
                          THEN Len(shots) + 1 ELSE t.shot
         /\ Got(t).others = IF Upcoming(t) = "shots"
                            THEN \A s \in DOMAIN shots \ {t.shot} : shots[s].accepted # None
                            ELSE t.others
BY DEF Got, Transaction, Kind

(* What a transaction knows survives its next read, and what it reads it    *)
(* knows.  The first read is the one of Begin.                              *)
SoundSoFar(t) ==
  /\ t.op \in Op
  /\ t.reads \in 0..Len(ReadOrder[t.op])
  /\ t.op \in OnShot \cup OnAttempt => t.shot \in DOMAIN shots
  /\ t.op \in OnAttempt => t.of \in DOMAIN attempts /\ attempts[t.of].shot = t.shot
  /\ \A kind \in Seen(t) : Known(t, kind) /\ Admits(t, kind)

LEMMA GotType ==
  ASSUME TypeOK, NEW t \in Transaction, SoundSoFar(t), ~AllRead(t)
  PROVE  Got(t) \in Transaction
<1>1. Upcoming(t) \in Kind
  BY UpcomingKinds DEF SoundSoFar
<1>2. t.reads + 1 \in 0..4
  <2> DEFINE n == Len(ReadOrder[t.op])
  <2>1. n \in 1..4 /\ t.reads \in 0..n /\ t.reads # n
    BY Lengths DEF SoundSoFar, AllRead
  <2> HIDE DEF n
  <2> QED  BY <2>1
<1>3. CASE Upcoming(t) = "project"
  BY <1>2, <1>3 DEF Got, Transaction, TypeOK
<1>4. CASE Upcoming(t) = "shot"
  <2>1. shots[t.shot] \in ShotRow
    BY <1>4, UpcomingKinds, Rows DEF SoundSoFar
  <2> QED
    BY <1>2, <1>4, <2>1 DEF Got, Transaction
<1>5. CASE Upcoming(t) = "attempt"
  <2>1. attempts[t.of] \in AttemptRow
    BY <1>5, UpcomingKinds, Rows DEF SoundSoFar
  <2> QED
    BY <1>2, <1>5, <2>1 DEF Got, Transaction
<1>6. CASE Upcoming(t) = "attempts"
  BY <1>2, <1>6, AttemptsAreCounted DEF Got, Transaction
<1>7. CASE Upcoming(t) = "shots"
  <2>1. Len(shots) + 1 \in Nat
    BY Rows
  <2> QED
    BY <1>2, <1>7, <2>1 DEF Got, Transaction
<1> QED
  BY <1>1, <1>3, <1>4, <1>5, <1>6, <1>7 DEF Kind

LEMMA ReadKeeps ==
  ASSUME TypeOK, NEW t \in Transaction, SoundSoFar(t), ~AllRead(t),
         Admits(Got(t), Upcoming(t))
  PROVE  Sound(Got(t))
<1> DEFINE u == Got(t)
           kind == Upcoming(t)
<1> USE DEF None
<1>1. kind \in Kind /\ t.reads \in Nat
  <2>1. t.reads \in Nat
    BY DEF Transaction
  <2> QED
    BY <2>1, UpcomingKinds DEF SoundSoFar
<1>2. u.op = t.op /\ u.of = t.of /\ u.reads = t.reads + 1
  BY <1>1, GotFields
<1>3. Seen(u) = Seen(t) \cup {kind}
  BY <1>1, <1>2, SeenGrows
<1>4. t.op \in OnShot \cup OnAttempt => u.shot = t.shot /\ t.shot \in DOMAIN shots
  <2>1. t.op \in OnShot \cup OnAttempt => t.shot # None
    BY Rows DEF SoundSoFar
  <2> QED
    BY <1>1, <2>1, GotFields DEF SoundSoFar
<1>5. u.reads \in 1..Len(ReadOrder[u.op])
  <2> DEFINE n == Len(ReadOrder[t.op])
  <2>1. n \in 1..4 /\ t.reads \in 0..n /\ t.reads # n
    BY Lengths DEF SoundSoFar, AllRead
  <2>2. u.op = t.op
    BY <1>2
  <2> HIDE DEF n, u
  <2>3. u.reads \in 1..n
    BY <1>2, <2>1
  <2> QED  BY <2>2, <2>3 DEF n
<1>6. ASSUME NEW k \in Seen(u)  PROVE Known(u, k) /\ Admits(u, k)
  <2>1. CASE k = kind
    <3>1. Admits(u, kind)
      OBVIOUS
    <3>2. Known(u, kind)
      <4>1. CASE kind = "project"
        <5>1. u.project = project /\ project \in ProjectRow
          BY <1>1, <4>1, GotFields DEF TypeOK
        <5> QED
          BY <4>1, <5>1 DEF Known, ProjectRow
      <4>2. CASE kind = "shot"
        <5>1. u.row = shots[u.shot] /\ shots[u.shot] \in ShotRow
          BY <1>1, <1>4, <4>2, GotFields, Rows, UpcomingKinds DEF SoundSoFar
        <5> QED
          BY <4>2, <5>1 DEF Known, ShotRow
      <4>3. CASE kind = "attempt"
        <5>1. u.attempt = attempts[u.of] /\ attempts[u.of] \in AttemptRow
          BY <1>1, <1>2, <4>3, GotFields, Rows, UpcomingKinds DEF SoundSoFar
        <5> QED
          BY <4>3, <5>1 DEF Known, AttemptRow
      <4>4. CASE kind = "attempts"
        <5>1. u.shot = t.shot
          BY <1>1, <4>4, GotFields
        <5> QED
          BY <1>1, <4>4, <5>1, GotFields DEF Known
      <4>5. CASE kind = "shots"
        <5>1. u.op = "accept" /\ u.others =>
                 \A s \in DOMAIN shots \ {u.shot} : shots[s].accepted # None
          BY <1>1, <1>2, <1>4, <4>5, GotFields, Operations
        <5>2. \A a \in DOMAIN attempts : attempts[a].shot \in DOMAIN shots
          BY DEF TypeOK
        <5> QED
          BY <4>5, <5>1, <5>2 DEF Known
      <4> QED
        BY <1>1, <4>1, <4>2, <4>3, <4>4, <4>5 DEF Kind
    <3> QED
      BY <2>1, <3>1, <3>2
  <2>2. CASE k # kind
    <3>1. /\ k \in Seen(t) /\ Known(t, k) /\ Admits(t, k)
          /\ k \in Kind
      <4>1. k \in Seen(t) /\ Known(t, k) /\ Admits(t, k)
        BY <1>3, <2>2 DEF SoundSoFar
      <4> QED
        BY <4>1, SeenKinds DEF SoundSoFar
    <3>2. k # "attempts" /\ (t.op = "accept" => k # "shots")
      BY <3>1, ReadLast DEF SoundSoFar
    <3>3. /\ k = "project" => u.project = t.project
          /\ k = "shot" => u.row = t.row
          /\ k = "attempt" => u.attempt = t.attempt
      <4>1. k = "project" => u.project = t.project
        BY <1>1, <2>2, GotFields
      <4>2. k = "shot" => u.row = t.row
        BY <1>1, <2>2, GotFields
      <4>3. k = "attempt" => u.attempt = t.attempt
        BY <1>1, <2>2, GotFields
      <4> QED
        BY <4>1, <4>2, <4>3
    <3>4. k \in {"shot", "attempt"} => u.shot = t.shot
      <4>1. k \in {"shot", "attempt"} => t.op \notin OnNothing
        BY <3>1, ReadLast DEF SoundSoFar
      <4> QED
        BY <1>4, <4>1, Operations DEF SoundSoFar, OnNothing, OnShot
    <3>5. Known(u, k)
      BY <1>2, <3>1, <3>2, <3>3, <3>4
         DEF Known, Kind, SameProject, SameShot, SameAttempt
    <3>6. Admits(u, k)
      BY <1>2, <3>1, <3>2, <3>3 DEF Admits, Kind
    <3> QED
      BY <3>5, <3>6
  <2> QED
    BY <2>1, <2>2
<1> HIDE DEF u, kind
<1> QED
  BY <1>2, <1>4, <1>5, <1>6 DEF Sound, SoundSoFar, u

(* The rows of the tables are as they were: so is what is said of them.     *)
LEMMA SameRows ==
  ASSUME UNCHANGED <<project, shots, attempts>>
  PROVE  /\ RowsAgree => RowsAgree'
         /\ \A t : Sound(t) => Sound(t)'
<1>1. \A s : AttemptsOf(s)' = AttemptsOf(s)
  BY DEF AttemptsOf
<1>2. RowsAgree => RowsAgree'
  BY <1>1 DEF RowsAgree, OnePendingPerShot, PendingHoldsShot, AttemptLimit,
     AcceptedIsUnique, AcceptedIsOwn, CompletedIsAccepted
<1>3. ASSUME NEW t, Sound(t)  PROVE Sound(t)'
  <2>1. \A kind : Known(t, kind) => Known(t, kind)'
    BY <1>1 DEF Known, SameProject, SameShot, SameAttempt
  <2> QED
    BY <1>3, <2>1 DEF Sound, Seen, Admits
<1> QED
  BY <1>2, <1>3

LEMMA ReadInv ==
  ASSUME IInv, NEW c \in Client, NEW t \in Transaction, SoundSoFar(t), ~AllRead(t),
         ReadNext(c, t)
  PROVE  IInv'
<1>1. /\ UNCHANGED <<project, shots, attempts>>
      /\ tx' = [tx EXCEPT ![c] = Got(t)]
      /\ Got(t) \in Transaction /\ Sound(Got(t))
  BY GotType, ReadKeeps DEF ReadNext, IInv
<1>2. TypeOK'
  BY <1>1 DEF IInv, TypeOK
<1>3. RowsAgree'
  BY <1>1, SameRows DEF IInv
<1>4. ASSUME NEW d \in Client  PROVE Sound(tx[d])'
  <2>1. PICK u : u = tx'[d]
    OBVIOUS
  <2>2. Sound(u)
    BY <1>1, <2>1 DEF IInv, TypeOK
  <2>3. Sound(u)'
    BY <1>1, <2>2, SameRows
  <2> QED
    BY <2>1, <2>3
<1> QED
  BY <1>2, <1>3, <1>4 DEF IInv

LEMMA ReadActionInv ==
  ASSUME IInv, NEW c \in Client, Read(c)
  PROVE  IInv'
<1>1. /\ tx[c] \in Transaction /\ tx[c].op # "none" /\ ~AllRead(tx[c])
      /\ ReadNext(c, tx[c]) /\ Sound(tx[c])
  BY DEF IInv, TypeOK, Read
<1>2. tx[c].op \in Op
  BY <1>1 DEF Transaction
<1>3. tx[c].reads \in 0..Len(ReadOrder[tx[c].op])
  <2> DEFINE n == Len(ReadOrder[tx[c].op])
  <2>1. n \in 1..4 /\ tx[c].reads \in 1..n
    BY <1>1, <1>2, Lengths DEF Sound
  <2> HIDE DEF n
  <2>2. tx[c].reads \in 0..n
    BY <2>1
  <2> QED  BY <2>2 DEF n
<1>4. SoundSoFar(tx[c])
  BY <1>1, <1>2, <1>3 DEF Sound, SoundSoFar
<1> QED
  BY <1>1, <1>4, ReadInv

LEMMA IdleType == Idle \in Transaction
BY DEF Idle, Transaction, ProjectRow, ShotRow, AttemptRow, None, ProjectStatus,
       ProjectMoves, ShotStatus, ShotMoves, AttemptStatus, AttemptMoves

LEMMA OpenInv ==
  ASSUME IInv, NEW c \in Client, NEW op \in Op, NEW a \in Nat, NEW s \in Nat,
         NEW code \in FailureCode \cup {"none"},
         op \in OnShot \cup OnAttempt => s \in DOMAIN shots,
         op \in OnAttempt => a \in DOMAIN attempts /\ attempts[a].shot = s,
         Open(c, op, a, s, code)
  PROVE  IInv'
<1> DEFINE t == [Idle EXCEPT !.op = op, !.of = a, !.shot = s, !.code = code]
<1>1. /\ t \in Transaction
      /\ t.op = op /\ t.of = a /\ t.shot = s /\ t.reads = 0
  <2>1. t \in Transaction /\ t.op = op /\ t.of = a /\ t.shot = s
    BY IdleType DEF Transaction
  <2>2. t.reads = 0
    BY DEF Idle
  <2> QED
    BY <2>1, <2>2
<1>2. ReadNext(c, t)
  BY DEF Open
<1> HIDE DEF t
<1>3. Seen(t) = {}
  BY <1>1 DEF Seen
<1>4. 0 \in 0..Len(ReadOrder[op]) /\ 0 # Len(ReadOrder[op])
  <2> DEFINE n == Len(ReadOrder[op])
  <2>1. n \in 1..4
    BY Lengths
  <2> HIDE DEF n
  <2>2. 0 \in 0..n /\ 0 # n
    BY <2>1
  <2> QED  BY <2>2 DEF n
<1>5. SoundSoFar(t) /\ ~AllRead(t)
  BY <1>1, <1>3, <1>4 DEF SoundSoFar, AllRead
<1> QED
  BY <1>1, <1>2, <1>5, ReadInv

LEMMA BeginInv ==
  ASSUME IInv, NEW c \in Client, Begin(c)
  PROVE  IInv'
<1>1. /\ None \in Nat /\ "none" \in FailureCode \cup {"none"}
      /\ \A op : Codes(op) \subseteq FailureCode \cup {"none"}
  BY DEF None, Codes, FailureCode
<1>2. /\ OnNothing \subseteq Op /\ OnShot \subseteq Op /\ OnAttempt \subseteq Op
      /\ \A op \in OnNothing : op \notin OnShot \cup OnAttempt
      /\ \A op \in OnShot : op \notin OnAttempt
  BY Operations DEF OnNothing, OnShot
<1>3. CASE \E op \in OnNothing : Open(c, op, None, None, "none")
  BY <1>1, <1>2, <1>3, OpenInv
<1>4. CASE \E op \in OnShot, s \in DOMAIN shots : Open(c, op, None, s, "none")
  <2>1. DOMAIN shots \subseteq Nat
    BY Rows DEF IInv
  <2> QED
    BY <1>1, <1>2, <1>4, <2>1, OpenInv
<1>5. CASE \E op \in OnAttempt, a \in DOMAIN attempts : \E code \in Codes(op) :
             Open(c, op, a, attempts[a].shot, code)
  <2>1. PICK op \in OnAttempt, a \in DOMAIN attempts : \E code \in Codes(op) :
             Open(c, op, a, attempts[a].shot, code)
    BY <1>5
  <2>2. PICK code \in Codes(op) : Open(c, op, a, attempts[a].shot, code)
    BY <2>1
  <2>3. a \in Nat /\ attempts[a].shot \in Nat /\ attempts[a].shot \in DOMAIN shots
    BY Rows DEF IInv, TypeOK
  <2>4. code \in FailureCode \cup {"none"}
    BY <1>1
  <2> QED
    BY <1>2, <2>2, <2>3, <2>4, OpenInv
<1> QED
  BY <1>3, <1>4, <1>5 DEF Begin

LEMMA AbortInv ==
  ASSUME IInv, NEW c \in Client, Abort(c)
  PROVE  IInv'
<1>1. TypeOK'
  BY IdleType DEF Abort, IInv, TypeOK
<1>2. RowsAgree'
  BY SameRows DEF Abort, IInv
<1>3. ASSUME NEW d \in Client  PROVE Sound(tx[d])'
  <2>1. PICK u : u = tx'[d]
    OBVIOUS
  <2>2. u = IF d = c THEN Idle ELSE tx[d]
    BY <2>1 DEF Abort, IInv, TypeOK
  <2>3. Sound(Idle)
    BY DEF Sound, Idle
  <2>4. Sound(u)
    BY <2>2, <2>3 DEF IInv
  <2>5. Sound(u)'
    BY <2>4, SameRows DEF Abort
  <2> QED
    BY <2>1, <2>5
<1> QED
  BY <1>1, <1>2, <1>3 DEF IInv

-----------------------------------------------------------------------------
(* What a commit may do to the rows another transaction has read *)

(* Rows only move on: a version that is the same is the same row (for the   *)
(* project, the same status), an acceptance stays, a new attempt moves the  *)
(* shot it is for and a project in final review, a closed project stays.    *)
Forward ==
  /\ project'.version >= project.version
  /\ project'.version = project.version => project'.status = project.status
  /\ DOMAIN shots \subseteq DOMAIN shots'
  /\ \A s \in DOMAIN shots :
       /\ shots'[s].version >= shots[s].version
       /\ shots'[s].version = shots[s].version =>
            shots'[s] = shots[s] /\ AttemptsOf(s)' = AttemptsOf(s)
       /\ shots[s].accepted # None => shots'[s].accepted # None
  /\ DOMAIN attempts \subseteq DOMAIN attempts'
  /\ \A a \in DOMAIN attempts :
       /\ attempts'[a].shot = attempts[a].shot
       /\ attempts'[a].version >= attempts[a].version
       /\ attempts'[a].version = attempts[a].version => attempts'[a] = attempts[a]
  /\ project'.version = project.version /\ project.status = "awaiting_final_review" =>
       DOMAIN attempts' = DOMAIN attempts
  /\ project.status \in {"completed", "failed", "cancelled"} =>
       project' = project /\ Len(attempts') = Len(attempts)

LEMMA RowsAfter ==
  ASSUME TypeOK'
  PROVE  /\ Len(shots') \in Nat /\ DOMAIN shots' = 1..Len(shots')
         /\ \A s \in DOMAIN shots' : shots'[s] \in ShotRow
         /\ Len(attempts') \in Nat /\ DOMAIN attempts' = 1..Len(attempts')
         /\ \A a \in DOMAIN attempts' : attempts'[a] \in AttemptRow
BY DEF TypeOK

LEMMA StaysSound ==
  ASSUME TypeOK, TypeOK', Forward, NEW t \in Transaction, Sound(t)
  PROVE  Sound(t)'
<1> SUFFICES ASSUME t.op # "none"  PROVE Sound(t)'
  BY DEF Sound
<1>1. t.op \in Op /\ t.reads \in 1..Len(ReadOrder[t.op])
  BY DEF Sound, Transaction
<1>2. t.reads \in 0..Len(ReadOrder[t.op])
  <2> DEFINE n == Len(ReadOrder[t.op])
  <2>1. n \in 1..4 /\ t.reads \in 1..n
    BY <1>1, Lengths
  <2> HIDE DEF n
  <2>2. t.reads \in 0..n
    BY <2>1
  <2> QED  BY <2>2 DEF n
<1>3. /\ t.project.version \in Nat /\ t.row.version \in Nat /\ t.attempt.version \in Nat
      /\ project.version \in Nat /\ project'.version \in Nat
      /\ \A s \in DOMAIN shots : shots[s].version \in Nat /\ shots'[s].version \in Nat
      /\ \A a \in DOMAIN attempts : attempts[a].version \in Nat /\ attempts'[a].version \in Nat
  <2>1. /\ t.project.version \in Nat /\ t.row.version \in Nat /\ t.attempt.version \in Nat
    BY DEF Transaction, ProjectRow, ShotRow, AttemptRow
  <2>2. project.version \in Nat /\ project'.version \in Nat
    BY DEF TypeOK, ProjectRow
  <2>3. \A s \in DOMAIN shots : shots[s].version \in Nat /\ shots'[s].version \in Nat
    BY Rows, RowsAfter DEF Forward, ShotRow
  <2>4. \A a \in DOMAIN attempts : attempts[a].version \in Nat /\ attempts'[a].version \in Nat
    BY Rows, RowsAfter DEF Forward, AttemptRow
  <2> QED
    BY <2>1, <2>2, <2>3, <2>4
<1>4. /\ t.op \in OnShot \cup OnAttempt => t.shot \in DOMAIN shots
      /\ t.op \in OnAttempt => t.of \in DOMAIN attempts /\ attempts[t.of].shot = t.shot
  BY DEF Sound
<1>5. ASSUME "shot" \in Seen(t)
      PROVE  /\ t.shot \in DOMAIN shots
             /\ Known(t, "shot")' /\ (SameShot(t)' => SameShot(t))
  <2>1. t.shot \in DOMAIN shots
    BY <1>1, <1>2, <1>4, <1>5, ReadLast, Operations DEF OnNothing, OnShot
  <2>2. Known(t, "shot")
    BY <1>5 DEF Sound
  <2> QED
    <3>1. /\ t.row.version <= shots[t.shot].version
          /\ shots[t.shot].version = t.row.version => t.row = shots[t.shot]
      BY <2>2 DEF Known, SameShot
    <3>2. /\ shots'[t.shot].version >= shots[t.shot].version
          /\ shots'[t.shot].version = shots[t.shot].version => shots'[t.shot] = shots[t.shot]
      BY <2>1 DEF Forward
    <3>3. /\ t.row.version <= shots'[t.shot].version
          /\ shots'[t.shot].version = t.row.version =>
               t.row = shots'[t.shot] /\ shots[t.shot].version = t.row.version
      BY <1>3, <2>1, <3>1, <3>2
    <3> QED
      BY <2>1, <3>3 DEF Known, SameShot
<1>6. ASSUME "project" \in Seen(t)
      PROVE  Known(t, "project")' /\ (SameProject(t)' => SameProject(t))
  <2>1. Known(t, "project")
    BY <1>6 DEF Sound
  <2> QED
    BY <1>3, <2>1 DEF Known, SameProject, Forward
<1>7. ASSUME NEW kind \in Seen(t)  PROVE Known(t, kind)'
  <2>1. kind \in Kind /\ Known(t, kind)
    BY <1>1, <1>2, SeenKinds DEF Sound
  <2>2. CASE kind = "project"
    BY <1>6, <2>2
  <2>3. CASE kind = "shot"
    BY <1>5, <2>3
  <2>4. CASE kind = "attempt"
    <3>1. t.of \in DOMAIN attempts
      BY <1>1, <1>2, <1>4, <2>4, ReadLast
    <3> QED
      <4>1. /\ t.attempt.version <= attempts[t.of].version
            /\ attempts[t.of].version = t.attempt.version => t.attempt = attempts[t.of]
        BY <2>1, <2>4 DEF Known, SameAttempt
      <4>2. /\ attempts'[t.of].version >= attempts[t.of].version
            /\ attempts'[t.of].version = attempts[t.of].version =>
                 attempts'[t.of] = attempts[t.of]
        BY <3>1 DEF Forward
      <4>3. /\ t.attempt.version <= attempts'[t.of].version
            /\ attempts'[t.of].version = t.attempt.version => t.attempt = attempts'[t.of]
        BY <1>3, <3>1, <4>1, <4>2
      <4> QED
        BY <2>4, <4>3 DEF Known, SameAttempt
  <2>5. CASE kind = "attempts"
    <3>1. "shot" \in Seen(t)
      BY <1>1, <1>2, <2>5, ReadLast, SeenInTheEnd
    <3> QED
      BY <1>5, <2>1, <2>5, <3>1 DEF Known, SameShot, Forward
  <2>6. CASE kind = "shots"
    <3> SUFFICES ASSUME t.op = "accept", t.others, SameProject(t)',
                        project'.status = "awaiting_final_review",
                        NEW a \in DOMAIN attempts', attempts'[a].shot # t.shot
                 PROVE  shots'[attempts'[a].shot].accepted # None
      BY <2>6 DEF Known
    <3>1. "project" \in Seen(t)
      BY <1>1, <1>2, <2>6, ReadLast, SeenInTheEnd
    <3>2. /\ SameProject(t) /\ project'.version = project.version
          /\ project.status = "awaiting_final_review"
      BY <1>6, <3>1 DEF SameProject, Forward
    <3>3. a \in DOMAIN attempts /\ attempts[a].shot = attempts'[a].shot
      BY <3>2 DEF Forward
    <3>4. shots[attempts[a].shot].accepted # None
      BY <2>1, <2>6, <3>2, <3>3 DEF Known
    <3>5. attempts[a].shot \in DOMAIN shots
      BY <3>3 DEF TypeOK
    <3> QED
      BY <3>3, <3>4, <3>5 DEF Forward
  <2> QED
    BY <2>1, <2>2, <2>3, <2>4, <2>5, <2>6 DEF Kind
<1>8. \A kind : Admits(t, kind)' = Admits(t, kind)
  OBVIOUS
<1> QED
  BY <1>1, <1>4, <1>7, <1>8 DEF Sound, Seen, Forward

LEMMA CommitKeepsSound ==
  ASSUME IInv, TypeOK', Forward, NEW c \in Client, Done(c), NEW d \in Client
  PROVE  Sound(tx[d])'
<1>1. PICK u : u = tx'[d]
  OBVIOUS
<1>2. u = IF d = c THEN Idle ELSE tx[d]
  BY <1>1 DEF Done, IInv, TypeOK
<1>3. u \in Transaction /\ Sound(u)
  BY <1>2, IdleType DEF IInv, TypeOK, Sound, Idle
<1>4. Sound(u)'
  BY <1>3, StaysSound DEF IInv
<1> QED
  BY <1>1, <1>4

-----------------------------------------------------------------------------
(* What a transaction that has read everything goes by *)

LEMMA Statuses ==
  /\ \A s \in ShotStatus : CanMove(ShotMoves, s, "accepted") => s = "awaiting_review"
  /\ \A s \in ShotStatus : CanMove(ShotMoves, s, "rejected") => s = "awaiting_review"
  /\ \A s \in ProjectStatus : CanMove(ProjectMoves, s, "completed") =>
       s = "awaiting_final_review"
  /\ \A s \in {"completed", "failed", "cancelled"} : \A x : ~CanMove(ProjectMoves, s, x)
<1>1. \A s \in ShotStatus : CanMove(ShotMoves, s, "accepted") => s = "awaiting_review"
  BY DEF CanMove, ShotMoves, ShotStatus
<1>2. \A s \in ShotStatus : CanMove(ShotMoves, s, "rejected") => s = "awaiting_review"
  BY DEF CanMove, ShotMoves, ShotStatus
<1>3. \A s \in ProjectStatus : CanMove(ProjectMoves, s, "completed") =>
        s = "awaiting_final_review"
  BY DEF CanMove, ProjectMoves, ProjectStatus
<1>4. \A s \in {"completed", "failed", "cancelled"} : \A x : ~CanMove(ProjectMoves, s, x)
  BY DEF CanMove, ProjectMoves
<1> QED
  BY <1>1, <1>2, <1>3, <1>4

(* The rows it read, at commit, when the versions are still the same.       *)
LEMMA FreshRows ==
  ASSUME IInv, NEW c \in Client, NEW ops \in SUBSET Op, Ready(c, ops)
  PROVE  LET t == tx[c] IN
         /\ t \in Transaction /\ t.op \in ops
         /\ t.op \in OnShot \cup OnAttempt =>
              t.shot \in DOMAIN shots /\ (SameShot(t) => t.row = shots[t.shot])
         /\ t.op \in OnAttempt => t.of \in DOMAIN attempts /\ attempts[t.of].shot = t.shot
         /\ t.op \in OnAttempt \ Annotating => (SameAttempt(t) => t.attempt = attempts[t.of])
         /\ t.op \in OnNothing \cup OnShot \cup WorkerEnd \cup {"accept"} =>
              (SameProject(t) => t.project.status = project.status)
<1> DEFINE t == tx[c]
<1>1. t \in Transaction /\ t.op \in ops /\ t.op \in Op /\ AllRead(t) /\ Sound(t)
      /\ t.op # "none"
  BY Operations DEF IInv, TypeOK, Ready
<1>2. /\ t.op \in OnShot \cup OnAttempt => t.shot \in DOMAIN shots
      /\ t.op \in OnAttempt => t.of \in DOMAIN attempts /\ attempts[t.of].shot = t.shot
      /\ \A kind \in Seen(t) : Known(t, kind)
  BY <1>1 DEF Sound
<1>3. t.op \in OnShot \cup OnAttempt => "shot" \in Seen(t)
  BY <1>1, SeenInTheEnd, Operations DEF OnShot, Annotating, WorkerEnd
<1>4. t.op \in OnAttempt \ Annotating => "attempt" \in Seen(t)
  BY <1>1, SeenInTheEnd, Operations DEF OnShot, Annotating, WorkerEnd
<1>5. t.op \in OnNothing \cup OnShot \cup WorkerEnd \cup {"accept"} => "project" \in Seen(t)
  BY <1>1, SeenInTheEnd
<1> QED
  BY <1>1, <1>2, <1>3, <1>4, <1>5 DEF Known

(* The guards of its reads.                                                 *)
LEMMA Guards ==
  ASSUME IInv, NEW c \in Client, tx[c].op \in Op, AllRead(tx[c])
  PROVE  LET t == tx[c] IN
         /\ t.op \in OnShot =>
              /\ t.row.status \in ReadyShot
              /\ BelowLimit(t.count)
              /\ SameShot(t) => t.count = Cardinality(AttemptsOf(t.shot))
         /\ t.op \in OnShot \cup {"run"} => CanCharge(Prepared(t.project))
         /\ t.op = "accept" =>
              /\ t.attempt.status = "awaiting_review" /\ t.row.status = "awaiting_review"
              /\ (t.others /\ SameProject(t) /\ project.status = "awaiting_final_review") =>
                   \A a \in DOMAIN attempts : attempts[a].shot # t.shot =>
                     shots[attempts[a].shot].accepted # None
         /\ t.op = "reject" =>
              t.attempt.status = "awaiting_review" /\ t.row.status = "awaiting_review"
         /\ t.op = "start" => t.attempt.status = "queued"
         /\ t.op \in WorkerEnd => t.attempt.status \in {"queued", "running"}
<1> DEFINE t == tx[c]
<1>1. /\ t.op \in Op /\ AllRead(t) /\ t.op # "none"
      /\ t.row.status \in ShotStatus
      /\ \A kind \in Seen(t) : Known(t, kind) /\ Admits(t, kind)
  BY Operations DEF IInv, TypeOK, Sound, Transaction, ShotRow
<1>2. CASE t.op \in OnShot
  <2>1. /\ Known(t, "attempts") /\ Admits(t, "attempts") /\ Admits(t, "shot")
        /\ Admits(t, "project")
    BY <1>1, <1>2, SeenInTheEnd
  <2>2. SameShot(t) => t.count = Cardinality(AttemptsOf(t.shot))
    BY <2>1 DEF Known
  <2>3. t.row.status \in ReadyShot
    BY <1>2, <2>1 DEF Admits, OnShot, WorkerEnd
  <2>4. BelowLimit(t.count)
    BY <1>2, <2>1 DEF Admits, OnShot, WorkerEnd
  <2>5. CanCharge(Prepared(t.project))
    BY <1>2, <2>1 DEF Admits, OnShot, WorkerEnd
  <2> QED
    BY <1>2, <2>2, <2>3, <2>4, <2>5 DEF OnShot, WorkerEnd
<1>3. CASE t.op = "run"
  <2>1. Admits(t, "project")
    BY <1>1, <1>3, SeenInTheEnd DEF OnNothing
  <2> QED
    BY <1>3, <2>1 DEF Admits, OnShot, WorkerEnd
<1>4. CASE t.op = "accept"
  <2>1. Known(t, "shots") /\ Admits(t, "attempt") /\ Admits(t, "shot")
    BY <1>1, <1>4, SeenInTheEnd
  <2> QED
    <3>1. t.attempt.status = "awaiting_review"
      BY <1>4, <2>1 DEF Admits
    <3>2. CanMove(ShotMoves, t.row.status, "accepted")
      BY <1>4, <2>1 DEF Admits, OnShot, WorkerEnd
    <3>3. t.row.status = "awaiting_review"
      BY <1>1, <3>2, Statuses
    <3> QED
      BY <1>4, <2>1, <3>1, <3>3 DEF Known, OnShot, WorkerEnd
<1>5. CASE t.op = "reject"
  <2>1. Admits(t, "attempt") /\ Admits(t, "shot")
    BY <1>1, <1>5, SeenInTheEnd
  <2> QED
    <3>1. t.attempt.status = "awaiting_review"
      BY <1>5, <2>1 DEF Admits
    <3>2. CanMove(ShotMoves, t.row.status, "rejected")
      BY <1>5, <2>1 DEF Admits, OnShot, WorkerEnd
    <3>3. t.row.status = "awaiting_review"
      BY <1>1, <3>2, Statuses
    <3> QED
      BY <1>5, <3>1, <3>3 DEF OnShot, WorkerEnd
<1>6. CASE t.op = "start"
  <2>1. Admits(t, "attempt")
    BY <1>1, <1>6, SeenInTheEnd
  <2> QED
    BY <1>6, <2>1 DEF Admits, OnShot, WorkerEnd
<1>7. CASE t.op \in WorkerEnd
  <2>1. Admits(t, "attempt")
    BY <1>1, <1>7, SeenInTheEnd
  <2> QED
    BY <1>7, <2>1 DEF Admits, OnShot, WorkerEnd
<1>8. CASE t.op \in {"invalid", "pin", "unpin"}
  BY <1>8 DEF OnShot, WorkerEnd
<1> QED
  BY <1>1, <1>2, <1>3, <1>4, <1>5, <1>6, <1>7, <1>8, Operations DEF OnShot, WorkerEnd

-----------------------------------------------------------------------------
(* What the writes of a commit do to the rows *)

(* The project after a commit that rewrites it, if it does, with the        *)
(* version it read: a closed project is not rewritten.                      *)
ProjectKept ==
  /\ project' \in ProjectRow
  /\ project'.version >= project.version
  /\ project'.version = project.version => project'.status = project.status
  /\ project.status \in {"completed", "failed", "cancelled"} => project' = project

LEMMA MovedAttempt ==
  ASSUME NEW row \in AttemptRow, NEW x \in AttemptStatus
  PROVE  /\ Moved(row, x) \in AttemptRow
         /\ Moved(row, x).shot = row.shot
         /\ Moved(row, x).status = x
         /\ Moved(row, x).version = row.version + 1
<1>1. row.version + 1 \in Nat
  BY DEF AttemptRow
<1> QED
  BY <1>1 DEF Moved, AttemptRow

LEMMA MovedShot ==
  ASSUME NEW row \in ShotRow, NEW x \in ShotStatus
  PROVE  /\ Moved(row, x) \in ShotRow
         /\ Moved(row, x).status = x
         /\ Moved(row, x).accepted = row.accepted
         /\ Moved(row, x).pinned = row.pinned
         /\ Moved(row, x).version = row.version + 1
<1>1. row.version + 1 \in Nat
  BY DEF ShotRow
<1> QED
  BY <1>1 DEF Moved, ShotRow

LEMMA MovedProject ==
  ASSUME NEW row \in ProjectRow, NEW x \in ProjectStatus
  PROVE  /\ Moved(row, x) \in ProjectRow
         /\ Moved(row, x).status = x
         /\ Moved(row, x).version = row.version + 1
<1>1. row.version + 1 \in Nat
  BY DEF ProjectRow
<1> QED
  BY <1>1 DEF Moved, ProjectRow

(* An attempt in progress moves to another status and its shot's row is     *)
(* rewritten, or not, to fit.                                               *)
LEMMA AttemptStep ==
  ASSUME IInv, NEW a \in DOMAIN attempts, attempts[a].status \in Pending,
         NEW x \in AttemptStatus, NEW r \in ShotRow,
         attempts' = [attempts EXCEPT ![a] = Moved(@, x)],
         shots' = [shots EXCEPT ![attempts[a].shot] = r],
         r.version >= shots[attempts[a].shot].version,
         r.version = shots[attempts[a].shot].version => r = shots[attempts[a].shot],
         x \in Pending => r.status \in {"queued", "generating", "awaiting_review"},
         r.status = "accepted" <=> r.accepted # None,
         x = "accepted" <=> r.accepted = a,
         r.accepted \in {None, a},
         ProjectKept, tx' \in [Client -> Transaction],
         project.status # "completed" /\ project'.status = "completed" =>
           /\ r.accepted # None
           /\ \A b \in DOMAIN attempts : attempts[b].shot # attempts[a].shot =>
                shots[attempts[b].shot].accepted # None
  PROVE  TypeOK' /\ RowsAgree' /\ Forward
<1> DEFINE s == attempts[a].shot
<1>1. /\ s \in DOMAIN shots /\ shots[s].status \in {"queued", "generating", "awaiting_review"}
      /\ shots[s].accepted = None
      /\ attempts[a] \in AttemptRow /\ shots[s] \in ShotRow /\ a # None
  <2>1. s \in DOMAIN shots /\ attempts[a] \in AttemptRow /\ shots[s] \in ShotRow /\ a # None
    BY Rows DEF IInv, TypeOK, None
  <2>2. shots[s].status \in {"queued", "generating", "awaiting_review"}
    BY DEF IInv, RowsAgree, PendingHoldsShot
  <2> QED
    BY <2>1, <2>2 DEF IInv, RowsAgree, AcceptedIsUnique
<1>2. /\ DOMAIN attempts' = DOMAIN attempts
      /\ attempts'[a] = Moved(attempts[a], x)
      /\ \A b \in DOMAIN attempts : b # a => attempts'[b] = attempts[b]
  BY Rows DEF IInv
<1>3. Moved(attempts[a], x) \in AttemptRow
      /\ Moved(attempts[a], x).shot = s /\ Moved(attempts[a], x).status = x
      /\ Moved(attempts[a], x).version = attempts[a].version + 1
  BY <1>1, MovedAttempt
<1>4. /\ DOMAIN shots' = DOMAIN shots
      /\ shots'[s] = r
      /\ \A q \in DOMAIN shots : q # s => shots'[q] = shots[q]
  BY <1>1, Rows DEF IInv
<1>5. \A b \in DOMAIN attempts : attempts'[b].shot = attempts[b].shot
  BY <1>2, <1>3
<1>6. \A q : AttemptsOf(q)' = AttemptsOf(q)
  BY <1>2, <1>5 DEF AttemptsOf
<1>7. \A b \in DOMAIN attempts : b # a /\ attempts[b].shot = s => attempts[b].status \notin Pending
  BY DEF IInv, RowsAgree, OnePendingPerShot
<1> HIDE DEF s
<1>8. TypeOK'
  <2>1. shots' \in Seq(ShotRow) /\ Len(shots') = Len(shots)
    BY <1>1, ExceptSeq DEF IInv, TypeOK, s
  <2>2. attempts' \in Seq(AttemptRow) /\ Len(attempts') = Len(attempts)
    BY <1>1, <1>3, ExceptSeq DEF IInv, TypeOK
  <2>3. \A b \in DOMAIN attempts' : attempts'[b].shot \in DOMAIN shots'
    BY <1>2, <1>4, <1>5 DEF IInv, TypeOK
  <2> QED
    BY <2>1, <2>2, <2>3 DEF IInv, TypeOK, ProjectKept
<1>9. OnePendingPerShot'
  BY <1>2, <1>3, <1>5, <1>7 DEF IInv, RowsAgree, OnePendingPerShot
<1>10. PendingHoldsShot'
  <2> SUFFICES ASSUME NEW b \in DOMAIN attempts, attempts'[b].status \in Pending
               PROVE  shots'[attempts'[b].shot].status
                        \in {"queued", "generating", "awaiting_review"}
    BY <1>2 DEF PendingHoldsShot
  <2>1. CASE b = a
    BY <1>2, <1>3, <1>4, <2>1
  <2>2. CASE b # a
    <3>1. attempts'[b] = attempts[b] /\ attempts[b].shot # s
      BY <1>2, <1>7, <2>2
    <3>2. attempts[b].shot \in DOMAIN shots
      BY DEF IInv, TypeOK
    <3> QED
      BY <1>4, <3>1, <3>2 DEF IInv, RowsAgree, PendingHoldsShot
  <2> QED
    BY <2>1, <2>2
<1>11. AttemptLimit'
  BY <1>4, <1>6 DEF IInv, RowsAgree, AttemptLimit
<1>12. AcceptedIsUnique'
  <2> SUFFICES ASSUME NEW q \in DOMAIN shots
               PROVE  /\ shots'[q].status = "accepted" <=> shots'[q].accepted # None
                      /\ \A b \in AttemptsOf(q) :
                           attempts'[b].status = "accepted" <=> shots'[q].accepted = b
    BY <1>4, <1>6 DEF AcceptedIsUnique
  <2>1. /\ shots[q].status = "accepted" <=> shots[q].accepted # None
        /\ \A b \in AttemptsOf(q) : attempts[b].status = "accepted" <=> shots[q].accepted = b
    BY DEF IInv, RowsAgree, AcceptedIsUnique
  <2>2. CASE q = s
    <3>1. \A b \in AttemptsOf(q) : b # a => attempts[b].status # "accepted"
      BY <1>1, <2>1, <2>2, Rows DEF AttemptsOf, None, IInv
    <3>2. \A b \in AttemptsOf(q) : b # a => attempts'[b].status # "accepted" /\ r.accepted # b
      BY <1>2, <3>1, Rows DEF AttemptsOf, None, IInv
    <3> QED
      BY <1>2, <1>3, <1>4, <2>2, <3>2
  <2>3. CASE q # s
    <3>1. \A b \in AttemptsOf(q) : attempts'[b] = attempts[b]
      BY <1>2, <2>3 DEF AttemptsOf, s
    <3> QED
      BY <1>4, <2>1, <2>3, <3>1
  <2> QED
    BY <2>2, <2>3
<1>13. AcceptedIsOwn'
  <2>1. a \in AttemptsOf(s)
    BY DEF AttemptsOf, s
  <2> QED
    BY <1>4, <1>6, <2>1 DEF IInv, RowsAgree, AcceptedIsOwn
<1>14. CompletedIsAccepted'
  <2> SUFFICES ASSUME project'.status = "completed", NEW b \in DOMAIN attempts
               PROVE  shots'[attempts[b].shot].accepted # None
    BY <1>2, <1>5 DEF CompletedIsAccepted
  <2>1. attempts[b].shot \in DOMAIN shots
    BY DEF IInv, TypeOK
  <2>2. CASE project.status = "completed"
    BY <1>1, <2>2 DEF IInv, RowsAgree, CompletedIsAccepted, s
  <2>3. CASE project.status # "completed"
    BY <1>4, <2>1, <2>3 DEF s
  <2> QED
    BY <2>2, <2>3
<1>15. Forward
  <2>1. \A b \in DOMAIN attempts :
          /\ attempts'[b].version >= attempts[b].version
          /\ attempts'[b].version = attempts[b].version => attempts'[b] = attempts[b]
    <3>1. \A b \in DOMAIN attempts : attempts[b].version \in Nat
      BY Rows DEF IInv, AttemptRow
    <3> QED
      BY <1>2, <1>3, <3>1
  <2>2. \A q \in DOMAIN shots :
          /\ shots'[q].version >= shots[q].version
          /\ shots'[q].version = shots[q].version => shots'[q] = shots[q]
          /\ shots[q].accepted # None => shots'[q].accepted # None
    <3>1. \A q \in DOMAIN shots : shots[q].version \in Nat
      BY Rows DEF IInv, ShotRow
    <3> QED
      BY <1>1, <1>4, <3>1 DEF s
  <2>3. Len(attempts') = Len(attempts)
    BY <1>1, <1>3, ExceptSeq DEF IInv, TypeOK
  <2> QED
    BY <1>2, <1>4, <1>5, <1>6, <2>1, <2>2, <2>3 DEF Forward, ProjectKept
<1> QED
  BY <1>8, <1>9, <1>10, <1>11, <1>12, <1>13, <1>14, <1>15 DEF RowsAgree

(* The same for a step that accepts nothing and completes no project.       *)
LEMMA UnacceptedStep ==
  ASSUME IInv, NEW a \in DOMAIN attempts, attempts[a].status \in Pending,
         NEW x \in AttemptStatus, x # "accepted", NEW r \in ShotRow,
         attempts' = [attempts EXCEPT ![a] = Moved(@, x)],
         shots' = [shots EXCEPT ![attempts[a].shot] = r],
         r.version >= shots[attempts[a].shot].version,
         r.version = shots[attempts[a].shot].version => r = shots[attempts[a].shot],
         x \in Pending => r.status \in {"queued", "generating", "awaiting_review"},
         r.status # "accepted", r.accepted = None,
         ProjectKept, tx' \in [Client -> Transaction],
         project'.status = "completed" => project.status = "completed"
  PROVE  TypeOK' /\ RowsAgree' /\ Forward
<1>1. a # None
  BY Rows DEF IInv, None
<1> QED
  BY <1>1, AttemptStep

LEMMA DoneType ==
  ASSUME IInv, NEW c \in Client, Done(c)
  PROVE  tx' \in [Client -> Transaction]
BY IdleType DEF IInv, TypeOK, Done

LEMMA SameProjectKept ==
  ASSUME IInv, UNCHANGED project
  PROVE  ProjectKept
BY DEF ProjectKept, IInv, TypeOK, ProjectRow

(* A status change of the project from the row it read.                     *)
LEMMA MovedProjectKept ==
  ASSUME IInv, NEW t, t.project \in ProjectRow, NEW x \in ProjectStatus,
         SameProject(t), t.project.status = project.status,
         project.status \notin {"completed", "failed", "cancelled"},
         project' = Moved(t.project, x)
  PROVE  ProjectKept /\ project'.status = x
<1>1. project.version \in Nat /\ t.project.version = project.version
  BY DEF IInv, TypeOK, ProjectRow, SameProject
<1>2. project' \in ProjectRow /\ project'.status = x /\ project'.version = project.version + 1
  BY <1>1, MovedProject
<1> QED
  BY <1>1, <1>2 DEF ProjectKept

LEMMA CommitInv ==
  ASSUME IInv, NEW c \in Client, Done(c), TypeOK', RowsAgree', Forward
  PROVE  IInv' /\ Forward
BY CommitKeepsSound DEF IInv

-----------------------------------------------------------------------------
(* One lemma per commit *)

LEMMA CommitRejectInv ==
  ASSUME IInv, NEW c \in Client, CommitReject(c)
  PROVE  IInv' /\ Forward
<1> DEFINE t == tx[c]
           r == Moved(t.row, "rejected")
<1>1. /\ Ready(c, {"reject"}) /\ WriteAttempt(t, "rejected") /\ WriteShot(t, r)
      /\ UNCHANGED project /\ Done(c)
  BY DEF CommitReject
<1>2. /\ t.op = "reject" /\ t.shot \in DOMAIN shots /\ t.row = shots[t.shot]
      /\ t.of \in DOMAIN attempts /\ attempts[t.of].shot = t.shot
      /\ t.attempt = attempts[t.of]
  BY <1>1, FreshRows, Operations DEF WriteAttempt, WriteShot, Annotating
<1>3. t.attempt.status = "awaiting_review" /\ t.row.status = "awaiting_review"
  BY <1>1, <1>2, Guards, Operations DEF Ready
<1>4. /\ r \in ShotRow /\ r.status = "rejected" /\ r.accepted = shots[t.shot].accepted
      /\ r.version = shots[t.shot].version + 1 /\ shots[t.shot].version \in Nat
  <2>1. t.row \in ShotRow /\ "rejected" \in ShotStatus
    BY <1>2, Rows DEF IInv, ShotStatus, ShotMoves
  <2> QED
    BY <1>2, <2>1, MovedShot DEF ShotRow
<1>5. r.accepted = None
  BY <1>2, <1>3, <1>4 DEF IInv, RowsAgree, AcceptedIsUnique
<1>6. /\ attempts' = [attempts EXCEPT ![t.of] = Moved(@, "rejected")]
      /\ shots' = [shots EXCEPT ![attempts[t.of].shot] = r]
  BY <1>1, <1>2 DEF WriteAttempt, WriteShot
<1>7. /\ attempts[t.of].status \in Pending /\ "rejected" \in AttemptStatus
      /\ "rejected" \notin Pending /\ t.of # None
  BY <1>2, <1>3, Rows DEF Pending, AttemptStatus, AttemptMoves, None, IInv
<1> HIDE DEF t, r
<1>8. TypeOK' /\ RowsAgree' /\ Forward
  <2>1. ProjectKept /\ tx' \in [Client -> Transaction] /\ project' = project
    BY <1>1, SameProjectKept, DoneType
  <2>2. r.version >= shots[t.shot].version /\ r.version # shots[t.shot].version
    BY <1>4
  <2> QED
    BY <1>2, <1>4, <1>5, <1>6, <1>7, <2>1, <2>2, UnacceptedStep
<1> QED
  BY <1>1, <1>8, CommitInv

LEMMA CommitStartInv ==
  ASSUME IInv, NEW c \in Client, CommitStart(c)
  PROVE  IInv' /\ Forward
<1> DEFINE t == tx[c]
           r == IF t.row.status = "queued" THEN Moved(t.row, "generating")
                ELSE shots[t.shot]
<1>1. /\ Ready(c, {"start"}) /\ WriteAttempt(t, "running")
      /\ \/ t.row.status = "queued" /\ WriteShot(t, r)
         \/ t.row.status # "queued" /\ UNCHANGED shots
      /\ UNCHANGED project /\ Done(c)
  BY DEF CommitStart
<1>2. /\ t.op = "start" /\ t.shot \in DOMAIN shots
      /\ t.row.status = "queued" => t.row = shots[t.shot]
      /\ t.of \in DOMAIN attempts /\ attempts[t.of].shot = t.shot
      /\ t.attempt = attempts[t.of]
  BY <1>1, FreshRows, Operations DEF WriteAttempt, WriteShot, Annotating
<1>3. t.attempt.status = "queued"
  BY <1>1, <1>2, Guards, Operations DEF Ready
<1>4. /\ attempts[t.of].status \in Pending /\ "running" \in AttemptStatus
      /\ "running" \in Pending /\ t.of # None
  BY <1>2, <1>3, Rows DEF Pending, AttemptStatus, AttemptMoves, None, IInv
<1>5. /\ shots[t.shot].status \in {"queued", "generating", "awaiting_review"}
      /\ shots[t.shot].accepted = None
  BY <1>2, <1>4 DEF IInv, RowsAgree, PendingHoldsShot, AcceptedIsUnique
<1>6. /\ r \in ShotRow /\ r.status \in {"queued", "generating", "awaiting_review"}
      /\ r.accepted = None
      /\ r.version >= shots[t.shot].version
      /\ r.version = shots[t.shot].version => r = shots[t.shot]
  <2>1. shots[t.shot] \in ShotRow /\ "generating" \in ShotStatus
        /\ shots[t.shot].version \in Nat
    BY <1>2, Rows DEF IInv, ShotStatus, ShotMoves, ShotRow
  <2>2. CASE t.row.status = "queued"
    BY <1>2, <1>5, <2>1, <2>2, MovedShot
  <2>3. CASE t.row.status # "queued"
    BY <1>5, <2>1, <2>3
  <2> QED
    BY <2>2, <2>3
<1>7. /\ attempts' = [attempts EXCEPT ![t.of] = Moved(@, "running")]
      /\ shots' = [shots EXCEPT ![attempts[t.of].shot] = r]
  <2>1. t.row.status # "queued" => shots' = [shots EXCEPT ![t.shot] = r]
    BY <1>1, <1>2, Rows DEF IInv, TypeOK
  <2> QED
    BY <1>1, <1>2, <2>1 DEF WriteAttempt, WriteShot
<1> HIDE DEF t, r
<1>8. TypeOK' /\ RowsAgree' /\ Forward
  <2>1. ProjectKept /\ tx' \in [Client -> Transaction] /\ project' = project
    BY <1>1, SameProjectKept, DoneType
  <2> QED
    BY <1>2, <1>4, <1>6, <1>7, <2>1, UnacceptedStep
<1> QED
  BY <1>1, <1>8, CommitInv

LEMMA CommitOutcomeInv ==
  ASSUME IInv, NEW c \in Client, Ready(c, WorkerEnd), Done(c),
         NEW x \in AttemptStatus, x # "accepted",
         NEW y, y # tx[c].row.status => y \in ShotStatus /\ y # "accepted",
         x \in Pending /\ y # tx[c].row.status => y = "awaiting_review",
         NEW z \in ProjectStatus, z # "completed",
         CommitOutcome(tx[c], x, y, z)
  PROVE  IInv' /\ Forward
<1> DEFINE t == tx[c]
           r == IF y # t.row.status THEN Moved(t.row, y) ELSE shots[t.shot]
<1>1. /\ WriteAttempt(t, x)
      /\ \/ y # t.row.status /\ WriteShot(t, r)
         \/ y = t.row.status /\ UNCHANGED shots
      /\ \/ t.project.status = "generating" /\ WriteProject(t, Moved(t.project, z))
         \/ t.project.status # "generating" /\ UNCHANGED project
  BY DEF CommitOutcome
<1>2. /\ t.op \in WorkerEnd /\ t.shot \in DOMAIN shots /\ t \in Transaction
      /\ y # t.row.status => t.row = shots[t.shot]
      /\ t.of \in DOMAIN attempts /\ attempts[t.of].shot = t.shot
      /\ t.attempt = attempts[t.of]
      /\ SameProject(t) => t.project.status = project.status
  <2>1. WorkerEnd \in SUBSET Op /\ WorkerEnd \subseteq OnAttempt \ Annotating
    BY Operations DEF WorkerEnd, Annotating
  <2> QED
    BY <1>1, <2>1, FreshRows DEF WriteAttempt, WriteShot
<1>3. t.attempt.status \in {"queued", "running"}
  BY <1>2, Guards, Operations DEF Ready, WorkerEnd
<1>4. attempts[t.of].status \in Pending
  BY <1>2, <1>3 DEF Pending
<1>5. /\ shots[t.shot].status \in {"queued", "generating", "awaiting_review"}
      /\ shots[t.shot].accepted = None
  BY <1>2, <1>4 DEF IInv, RowsAgree, PendingHoldsShot, AcceptedIsUnique
<1>6. /\ r \in ShotRow /\ r.status # "accepted" /\ r.accepted = None
      /\ x \in Pending => r.status \in {"queued", "generating", "awaiting_review"}
      /\ r.version >= shots[t.shot].version
      /\ r.version = shots[t.shot].version => r = shots[t.shot]
  <2>1. shots[t.shot] \in ShotRow /\ shots[t.shot].version \in Nat
    BY <1>2, Rows DEF IInv, ShotRow
  <2>2. CASE y # t.row.status
    BY <1>2, <1>5, <2>1, <2>2, MovedShot
  <2>3. CASE y = t.row.status
    BY <1>5, <2>1, <2>3
  <2> QED
    BY <2>2, <2>3
<1>7. /\ attempts' = [attempts EXCEPT ![t.of] = Moved(@, x)]
      /\ shots' = [shots EXCEPT ![attempts[t.of].shot] = r]
  <2>1. y = t.row.status => shots' = [shots EXCEPT ![t.shot] = r]
    BY <1>1, <1>2, Rows DEF IInv, TypeOK
  <2> QED
    BY <1>1, <1>2, <2>1 DEF WriteAttempt, WriteShot
<1>8. ProjectKept /\ (project'.status = "completed" => project.status = "completed")
  <2>1. CASE t.project.status = "generating" /\ WriteProject(t, Moved(t.project, z))
    BY <1>2, <2>1, MovedProjectKept DEF WriteProject, Transaction
  <2>2. CASE UNCHANGED project
    BY <2>2, SameProjectKept
  <2> QED
    BY <1>1, <2>1, <2>2
<1> HIDE DEF t, r
<1>9. TypeOK' /\ RowsAgree' /\ Forward
  <2>1. tx' \in [Client -> Transaction]
    BY DoneType
  <2> QED
    BY <1>2, <1>4, <1>6, <1>7, <1>8, <2>1, UnacceptedStep
<1> QED
  BY <1>9, CommitInv

LEMMA CommitVerdictInv ==
  ASSUME IInv, NEW c \in Client, CommitVerdict(c)
  PROVE  IInv' /\ Forward
<1> DEFINE t == tx[c]
           x == IF t.op = "passed" THEN "awaiting_review" ELSE "failed"
           y == ShotAfterVerdict(t.row.status, t.op)
           z == ProjectAfterVerdict(t.op)
<1>1. /\ t.op \in {"passed", "failed"} /\ Ready(c, WorkerEnd) /\ Done(c)
      /\ CommitOutcome(t, x, y, z)
  BY DEF CommitVerdict, Ready, WorkerEnd
<1>2. x \in AttemptStatus /\ x # "accepted"
  BY DEF AttemptStatus, AttemptMoves
<1>3. z \in ProjectStatus /\ z # "completed"
  BY DEF ProjectAfterVerdict, ProjectStatus, ProjectMoves
<1>4. y # t.row.status => y \in ShotStatus /\ y # "accepted"
  BY <1>1 DEF ShotAfterVerdict, ShotStatus, ShotMoves
<1>5. x \in Pending /\ y # t.row.status => y = "awaiting_review"
  BY <1>1 DEF ShotAfterVerdict, Pending
<1> HIDE DEF x, y, z
<1> QED
  BY <1>1, <1>2, <1>3, <1>4, <1>5, CommitOutcomeInv

LEMMA CommitFailureInv ==
  ASSUME IInv, NEW c \in Client, CommitFailure(c)
  PROVE  IInv' /\ Forward
<1> DEFINE t == tx[c]
           x == FailureStatus(t.code)
           y == IF t.row.status \in {"queued", "generating"}
                THEN ShotAfterFailure(t.code) ELSE t.row.status
           z == ProjectAfterFailure(t.code)
<1>1. Ready(c, WorkerEnd) /\ Done(c) /\ CommitOutcome(t, x, y, z)
  BY DEF CommitFailure, Ready, WorkerEnd
<1>2. x \in AttemptStatus /\ x # "accepted" /\ x \notin Pending
  BY DEF FailureStatus, AttemptStatus, AttemptMoves, Pending
<1>3. z \in ProjectStatus /\ z # "completed"
  BY DEF ProjectAfterFailure, ProjectStatus, ProjectMoves
<1>4. y # t.row.status => y \in ShotStatus /\ y # "accepted"
  BY DEF ShotAfterFailure, ShotStatus, ShotMoves
<1> HIDE DEF x, y, z
<1> QED
  BY <1>1, <1>2, <1>3, <1>4, CommitOutcomeInv

LEMMA CommitAcceptInv ==
  ASSUME IInv, NEW c \in Client, CommitAccept(c)
  PROVE  IInv' /\ Forward
<1> DEFINE t == tx[c]
           p == ProjectAfterAccept(t)
           m == Moved(t.row, "accepted")
           r == [m EXCEPT !.accepted = t.of, !.pinned = t.of]
<1>1. /\ Ready(c, {"accept"}) /\ WriteAttempt(t, "accepted") /\ WriteShot(t, r)
      /\ p # t.project => CanMove(ProjectMoves, t.project.status, p.status)
      /\ \/ p # t.project /\ WriteProject(t, p)
         \/ p = t.project /\ UNCHANGED project
      /\ Done(c)
  BY DEF CommitAccept
<1>2. /\ t.op = "accept" /\ t.shot \in DOMAIN shots /\ t.row = shots[t.shot]
      /\ t.of \in DOMAIN attempts /\ attempts[t.of].shot = t.shot
      /\ t.attempt = attempts[t.of] /\ t \in Transaction
      /\ SameProject(t) => t.project.status = project.status
  BY <1>1, FreshRows, Operations DEF WriteAttempt, WriteShot, Annotating
<1>3. /\ t.attempt.status = "awaiting_review" /\ t.row.status = "awaiting_review"
      /\ (t.others /\ SameProject(t) /\ project.status = "awaiting_final_review") =>
           \A a \in DOMAIN attempts : attempts[a].shot # t.shot =>
             shots[attempts[a].shot].accepted # None
  BY <1>1, <1>2, Guards, Operations DEF Ready
<1>4. /\ attempts[t.of].status \in Pending /\ "accepted" \in AttemptStatus
      /\ "accepted" \notin Pending /\ t.of \in Nat /\ t.of # None
  BY <1>2, <1>3, Rows DEF Pending, AttemptStatus, AttemptMoves, None, IInv
<1>5. /\ r \in ShotRow /\ r.status = "accepted" /\ r.accepted = t.of
      /\ r.version = shots[t.shot].version + 1 /\ shots[t.shot].version \in Nat
  <2>1. t.row \in ShotRow /\ "accepted" \in ShotStatus
    BY <1>2, Rows DEF IInv, ShotStatus, ShotMoves
  <2>2. m \in ShotRow /\ m.status = "accepted" /\ m.version = t.row.version + 1
        /\ t.row.version \in Nat
    BY <2>1, MovedShot DEF ShotRow
  <2> HIDE DEF m
  <2> QED
    BY <1>2, <1>4, <2>2 DEF ShotRow
<1>6. /\ attempts' = [attempts EXCEPT ![t.of] = Moved(@, "accepted")]
      /\ shots' = [shots EXCEPT ![attempts[t.of].shot] = r]
  BY <1>1, <1>2 DEF WriteAttempt, WriteShot
<1>7. /\ ProjectKept
      /\ project.status # "completed" /\ project'.status = "completed" =>
           \A a \in DOMAIN attempts : attempts[a].shot # t.shot =>
             shots[attempts[a].shot].accepted # None
  <2>1. CASE p # t.project /\ WriteProject(t, p)
    <3>1. /\ SameProject(t) /\ project' = p /\ t.project.status = project.status
          /\ t.project \in ProjectRow /\ t.project.status \in ProjectStatus
          /\ CanMove(ProjectMoves, t.project.status, p.status)
      BY <1>1, <1>2, <2>1 DEF WriteProject, Transaction, ProjectRow
    <3>2. project.status \notin {"completed", "failed", "cancelled"}
      BY <3>1, Statuses
    <3>3. \/ t.others /\ p = Moved(t.project, "completed")
          \/ ~t.others /\ p = Moved(t.project, "awaiting_final_review")
      <4>1. CASE t.others
        BY <4>1 DEF ProjectAfterAccept
      <4>2. CASE ~t.others /\ t.project.status = "generating"
        BY <4>2 DEF ProjectAfterAccept
      <4>3. CASE ~t.others /\ t.project.status # "generating"
        BY <2>1, <4>3 DEF ProjectAfterAccept
      <4> QED
        BY <4>1, <4>2, <4>3
    <3>4. "completed" \in ProjectStatus /\ "awaiting_final_review" \in ProjectStatus
      BY DEF ProjectStatus, ProjectMoves
    <3>5. CASE t.others /\ p = Moved(t.project, "completed")
      <4>1. ProjectKept /\ project'.status = "completed"
        BY <3>1, <3>2, <3>4, <3>5, MovedProjectKept
      <4>2. project.status = "awaiting_final_review"
        BY <3>1, <4>1, Statuses
      <4> QED
        BY <1>3, <3>1, <3>5, <4>1, <4>2
    <3>6. CASE ~t.others /\ p = Moved(t.project, "awaiting_final_review")
      BY <3>1, <3>2, <3>4, <3>6, MovedProjectKept
    <3> QED
      BY <3>3, <3>5, <3>6
  <2>2. CASE UNCHANGED project
    BY <2>2, SameProjectKept
  <2> QED
    BY <1>1, <2>1, <2>2
<1>8. TypeOK' /\ RowsAgree' /\ Forward
  <2>1. tx' \in [Client -> Transaction]
    BY <1>1, DoneType
  <2>2. /\ r.version >= shots[t.shot].version /\ r.version # shots[t.shot].version
        /\ r.accepted # None /\ r.accepted \in {None, t.of}
    BY <1>4, <1>5
  <2>3. project.status # "completed" /\ project'.status = "completed" =>
          /\ r.accepted # None
          /\ \A b \in DOMAIN attempts : attempts[b].shot # attempts[t.of].shot =>
               shots[attempts[b].shot].accepted # None
    BY <1>2, <1>7, <2>2
  <2>4. r.version = shots[attempts[t.of].shot].version => r = shots[attempts[t.of].shot]
    BY <1>2, <2>2
  <2>5. r.version >= shots[attempts[t.of].shot].version
    BY <1>2, <2>2
  <2>6. ProjectKept
    BY <1>7
  <2> HIDE DEF t, r, p
  <2> QED
    BY <1>2, <1>4, <1>5, <1>6, <2>6, <2>1, <2>2, <2>3, <2>4, <2>5, AttemptStep
<1> QED
  BY <1>1, <1>8, CommitInv

(* A pin changes nothing that the invariant is about.                       *)
LEMMA AnnotatedInv ==
  ASSUME IInv, NEW c \in Client, NEW ops \in SUBSET Annotating, Ready(c, ops), Done(c),
         NEW pinned \in Nat, WriteShot(tx[c], Annotated(tx[c].row, pinned)),
         UNCHANGED <<project, attempts>>
  PROVE  IInv' /\ Forward
<1> DEFINE t == tx[c]
           s == t.shot
           r == Annotated(t.row, pinned)
<1>1. /\ s \in DOMAIN shots /\ t.row = shots[s] /\ shots[s] \in ShotRow
      /\ shots' = [shots EXCEPT ![s] = r]
  <2>1. /\ ops \in SUBSET Op
        /\ \A op \in ops : op \in OnShot \cup OnAttempt
    BY Operations DEF Annotating
  <2>2. t.op \in ops /\ s \in DOMAIN shots /\ t.row = shots[s]
    BY <2>1, FreshRows DEF WriteShot
  <2> QED
    BY <2>2, Rows DEF IInv, WriteShot
<1>2. /\ r \in ShotRow /\ r.status = shots[s].status /\ r.accepted = shots[s].accepted
      /\ r.version = shots[s].version + 1
  <2>1. shots[s].version + 1 \in Nat
    BY <1>1 DEF ShotRow
  <2> QED
    BY <1>1, <2>1 DEF Annotated, ShotRow
<1> HIDE DEF t, s, r
<1>3. /\ DOMAIN shots' = DOMAIN shots /\ shots'[s] = r
      /\ \A q \in DOMAIN shots : q # s => shots'[q] = shots[q]
      /\ shots' \in Seq(ShotRow) /\ Len(shots') = Len(shots)
  BY <1>1, <1>2, ExceptSeq, Rows DEF IInv, TypeOK
<1>4. \A q \in DOMAIN shots : /\ shots'[q].status = shots[q].status
                             /\ shots'[q].accepted = shots[q].accepted
  BY <1>2, <1>3
<1>5. \A q : AttemptsOf(q)' = AttemptsOf(q)
  BY DEF AttemptsOf
<1>6. TypeOK'
  BY <1>3, DoneType DEF IInv, TypeOK
<1>7. RowsAgree'
  <2>1. OnePendingPerShot'
    BY DEF IInv, RowsAgree, OnePendingPerShot
  <2>2. PendingHoldsShot'
    BY <1>4 DEF IInv, TypeOK, RowsAgree, PendingHoldsShot
  <2>3. AttemptLimit'
    BY <1>3, <1>5 DEF IInv, RowsAgree, AttemptLimit
  <2>4. AcceptedIsUnique' /\ AcceptedIsOwn'
    BY <1>3, <1>4, <1>5 DEF IInv, RowsAgree, AcceptedIsUnique, AcceptedIsOwn
  <2>5. CompletedIsAccepted'
    BY <1>4 DEF IInv, TypeOK, RowsAgree, CompletedIsAccepted
  <2> QED
    BY <2>1, <2>2, <2>3, <2>4, <2>5 DEF RowsAgree
<1>8. Forward
  <2>1. \A q \in DOMAIN shots : shots[q].version \in Nat
    BY Rows DEF IInv, ShotRow
  <2>2. \A a \in DOMAIN attempts : attempts[a].version \in Nat
    BY Rows DEF IInv, AttemptRow
  <2>3. project.version \in Nat /\ project' = project /\ attempts' = attempts
    BY DEF IInv, TypeOK, ProjectRow
  <2>4. \A q \in DOMAIN shots : /\ shots'[q].version >= shots[q].version
                               /\ (shots'[q].version = shots[q].version => shots'[q] = shots[q])
    BY <1>1, <1>2, <1>3, <2>1
  <2> QED
    BY <1>1, <1>2, <1>3, <1>4, <1>5, <2>1, <2>2, <2>3, <2>4 DEF Forward
<1> QED
  BY <1>6, <1>7, <1>8, CommitInv

LEMMA CommitPinInv ==
  ASSUME IInv, NEW c \in Client, CommitPin(c)
  PROVE  IInv' /\ Forward
<1>1. tx[c].of \in Nat /\ {"pin"} \in SUBSET Annotating
  BY DEF IInv, TypeOK, Transaction, Annotating
<1> QED
  BY <1>1, AnnotatedInv DEF CommitPin

LEMMA CommitUnpinInv ==
  ASSUME IInv, NEW c \in Client, CommitUnpin(c)
  PROVE  IInv' /\ Forward
<1>1. None \in Nat /\ {"unpin"} \in SUBSET Annotating
  BY DEF None, Annotating
<1> QED
  BY <1>1, AnnotatedInv DEF CommitUnpin

-----------------------------------------------------------------------------
(* New attempts and new shots *)

NewAttempt(s) == [shot |-> s, status |-> "queued", version |-> 1]

(* The attempts once one has been added to shot s.                          *)
LEMMA Enqueued ==
  ASSUME TypeOK, NEW s \in Nat, Enqueue(s)
  PROVE  LET n == Len(attempts) + 1 IN
         /\ attempts' \in Seq(AttemptRow) /\ Len(attempts') = n
         /\ DOMAIN attempts' = DOMAIN attempts \cup {n}
         /\ n \notin DOMAIN attempts /\ n # None
         /\ attempts'[n] = NewAttempt(s)
         /\ \A a \in DOMAIN attempts : attempts'[a] = attempts[a]
         /\ AttemptsOf(s)' = AttemptsOf(s) \cup {n} /\ n \notin AttemptsOf(s)
         /\ \A q : q # s => AttemptsOf(q)' = AttemptsOf(q)
<1> DEFINE n == Len(attempts) + 1
<1>1. NewAttempt(s) \in AttemptRow
  BY DEF NewAttempt, AttemptRow, AttemptStatus, AttemptMoves
<1>2. attempts' = Append(attempts, NewAttempt(s))
  BY DEF Enqueue, NewAttempt
<1>3. /\ attempts' \in Seq(AttemptRow) /\ Len(attempts') = n
      /\ \A a \in 1..Len(attempts) : attempts'[a] = attempts[a]
      /\ attempts'[n] = NewAttempt(s)
  BY <1>1, <1>2, AppendProperties DEF TypeOK
<1>4. /\ DOMAIN attempts = 1..Len(attempts) /\ Len(attempts) \in Nat
      /\ DOMAIN attempts' = 1..n
  BY <1>3, Rows
<1>5. /\ DOMAIN attempts' = DOMAIN attempts \cup {n}
      /\ n \notin DOMAIN attempts /\ n # None
  <2> DEFINE k == Len(attempts)
  <2>1. k \in Nat
    BY <1>4
  <2> HIDE DEF k
  <2>2. 1..(k + 1) = (1..k) \cup {k + 1} /\ k + 1 \notin 1..k /\ k + 1 # 0
    BY <2>1
  <2> QED
    BY <1>4, <2>2 DEF None, k
<1>6. \A a \in DOMAIN attempts : attempts'[a] = attempts[a]
  BY <1>3, <1>4
<1>7. NewAttempt(s).shot = s
  BY DEF NewAttempt
<1> HIDE DEF n
<1>8. AttemptsOf(s)' = AttemptsOf(s) \cup {n} /\ n \notin AttemptsOf(s)
  BY <1>3, <1>5, <1>6, <1>7 DEF AttemptsOf
<1>9. ASSUME NEW q, q # s  PROVE AttemptsOf(q)' = AttemptsOf(q)
  BY <1>3, <1>5, <1>6, <1>7, <1>9 DEF AttemptsOf
<1> QED
  BY <1>3, <1>5, <1>6, <1>8, <1>9 DEF n

(* The project as an attempt is created.                                    *)
LEMMA ChargedProject ==
  ASSUME IInv, NEW t \in Transaction, NEW row, row = t.project \/ row = Prepared(t.project),
         CanCharge(Prepared(t.project)), SameProject(t), t.project.status = project.status,
         project' = Charged(row)
  PROVE  /\ ProjectKept
         /\ project'.status = "generating"
         /\ project.status \notin {"completed", "failed", "cancelled"}
         /\ project'.version = project.version => project.status # "awaiting_final_review"
<1>1. /\ t.project \in ProjectRow /\ project \in ProjectRow
      /\ t.project.version = project.version
      /\ "ready_for_generation" \in ProjectStatus /\ "generating" \in ProjectStatus
  BY DEF IInv, TypeOK, Transaction, SameProject, ProjectStatus, ProjectMoves
<1>2. /\ Prepared(t.project) \in ProjectRow
      /\ Prepared(t.project).version >= project.version
      /\ Prepared(t.project).version = project.version =>
           Prepared(t.project).status = project.status
  BY <1>1, MovedProject DEF Prepared, ProjectRow
<1>3. /\ row \in ProjectRow /\ row.version \in Nat /\ project.version \in Nat
      /\ row.version >= project.version
      /\ row.version = project.version => row.status = project.status
  BY <1>1, <1>2 DEF ProjectRow
<1>4. project.status \notin {"completed", "failed", "cancelled"}
  BY DEF CanCharge, Prepared, Generable
<1>5. /\ Charged(row) \in ProjectRow /\ Charged(row).status = "generating"
      /\ Charged(row).version = IF row.status = "generating" THEN row.version
                                ELSE row.version + 1
  <2>1. row.spent + 1 \in Nat
    BY <1>3 DEF ProjectRow
  <2> DEFINE m == IF row.status = "generating" THEN row ELSE Moved(row, "generating")
  <2>2. /\ m \in ProjectRow /\ m.status = "generating"
        /\ m.version = IF row.status = "generating" THEN row.version ELSE row.version + 1
    BY <1>1, <1>3, MovedProject
  <2>3. Charged(row) = [m EXCEPT !.spent = row.spent + 1]
    BY DEF Charged
  <2> HIDE DEF m
  <2> QED
    BY <2>1, <2>2, <2>3 DEF ProjectRow
<1> QED
  BY <1>3, <1>4, <1>5 DEF ProjectKept

LEMMA CommitCreateInv ==
  ASSUME IInv, NEW c \in Client, CommitCreate(c)
  PROVE  IInv' /\ Forward
<1> DEFINE t == tx[c]
           r == Moved(t.row, "queued")
           n == Len(attempts) + 1
<1>0. PICK s : s = t.shot
  OBVIOUS
<1>1. /\ Ready(c, OnShot) /\ Len(attempts) < MaxAttempts
      /\ WriteShot(t, r) /\ WriteProject(t, Charged(t.project)) /\ Enqueue(s) /\ Done(c)
  BY <1>0 DEF CommitCreate
<1>2. /\ t \in Transaction /\ t.op \in OnShot
      /\ s \in DOMAIN shots /\ t.row = shots[s]
      /\ t.project.status = project.status /\ SameProject(t) /\ SameShot(t)
  <2>1. OnShot \in SUBSET Op
    BY Operations DEF OnShot
  <2> QED
    BY <1>0, <1>1, <2>1, FreshRows DEF WriteShot, WriteProject
<1>3. /\ t.row.status \in ReadyShot
      /\ CanCharge(Prepared(t.project))
      /\ Cardinality(AttemptsOf(s)) < MaxAttemptsPerShot
  <2>1. t.op \in Op /\ AllRead(t)
    BY <1>1, <1>2, Operations DEF OnShot, Ready
  <2> QED
    BY <1>0, <1>2, <2>1, Guards DEF BelowLimit
<1>4. /\ shots[s] \in ShotRow /\ shots[s].version \in Nat /\ s \in Nat
      /\ shots[s].accepted = None
      /\ \A a \in DOMAIN attempts : attempts[a].shot = s => attempts[a].status \notin Pending
  <2>1. shots[s] \in ShotRow /\ s \in Nat
    BY <1>2, Rows DEF IInv
  <2>2. shots[s].status # "accepted"
        /\ shots[s].status \notin {"queued", "generating", "awaiting_review"}
    BY <1>2, <1>3 DEF ReadyShot
  <2> QED
    BY <1>2, <2>1, <2>2
       DEF IInv, RowsAgree, AcceptedIsUnique, PendingHoldsShot, ShotRow
<1>5. /\ r \in ShotRow /\ r.status = "queued" /\ r.accepted = None
      /\ r.version = shots[s].version + 1
  <2>1. "queued" \in ShotStatus
    BY DEF ShotStatus, ShotMoves
  <2> QED
    BY <1>2, <1>4, <2>1, MovedShot
<1>6. /\ ProjectKept /\ project'.status = "generating"
      /\ project.status \notin {"completed", "failed", "cancelled"}
      /\ project'.version = project.version => project.status # "awaiting_final_review"
  BY <1>1, <1>2, <1>3, ChargedProject DEF WriteProject
<1>7. shots' = [shots EXCEPT ![s] = r]
  BY <1>0, <1>1 DEF WriteShot
<1>8. /\ attempts' \in Seq(AttemptRow) /\ Len(attempts') = n
      /\ DOMAIN attempts' = DOMAIN attempts \cup {n}
      /\ n \notin DOMAIN attempts /\ n # None
      /\ attempts'[n] = NewAttempt(s)
      /\ \A a \in DOMAIN attempts : attempts'[a] = attempts[a]
      /\ AttemptsOf(s)' = AttemptsOf(s) \cup {n} /\ n \notin AttemptsOf(s)
      /\ \A q : q # s => AttemptsOf(q)' = AttemptsOf(q)
  <2>1. TypeOK /\ s \in Nat /\ Enqueue(s)
    BY <1>1, <1>4 DEF IInv
  <2> QED
    BY <2>1, Enqueued
<1>9. Len(attempts') <= MaxAttempts
  <2>1. Len(attempts) \in Nat
    BY Rows DEF IInv
  <2> QED
    BY <1>1, <1>8, <2>1
<1> HIDE DEF t, r, n
<1>10. /\ DOMAIN shots' = DOMAIN shots /\ shots'[s] = r
       /\ \A q \in DOMAIN shots : q # s => shots'[q] = shots[q]
       /\ shots' \in Seq(ShotRow) /\ Len(shots') = Len(shots)
  BY <1>2, <1>5, <1>7, ExceptSeq, Rows DEF IInv, TypeOK
<1>11. NewAttempt(s).shot = s /\ NewAttempt(s).status = "queued"
  BY DEF NewAttempt
<1>12. \A a \in DOMAIN attempts : attempts[a].shot \in DOMAIN shots
  BY DEF IInv, TypeOK
<1>13. TypeOK'
  BY <1>1, <1>2, <1>6, <1>8, <1>9, <1>10, <1>11, <1>12, DoneType
     DEF IInv, TypeOK, ProjectKept
<1>14. OnePendingPerShot'
  BY <1>4, <1>8, <1>11 DEF IInv, RowsAgree, OnePendingPerShot
<1>15. PendingHoldsShot'
  BY <1>4, <1>5, <1>8, <1>10, <1>11, <1>12 DEF IInv, RowsAgree, PendingHoldsShot
<1>16. AttemptLimit'
  <2> SUFFICES ASSUME NEW q \in DOMAIN shots
               PROVE  Cardinality(AttemptsOf(q)') <= MaxAttemptsPerShot
    BY <1>10 DEF AttemptLimit
  <2>1. CASE q = s
    <3>1. Cardinality(AttemptsOf(s) \cup {n}) = Cardinality(AttemptsOf(s)) + 1
          /\ Cardinality(AttemptsOf(s)) \in Nat
      BY <1>8, AttemptsAreCounted, FS_AddElement DEF IInv
    <3>2. Cardinality(AttemptsOf(s)) + 1 <= MaxAttemptsPerShot
      BY <1>3, <3>1
    <3>3. AttemptsOf(q)' = AttemptsOf(s) \cup {n}
      BY <1>8, <2>1
    <3> QED
      BY <3>1, <3>2, <3>3
  <2>2. CASE q # s
    BY <1>8, <2>2 DEF IInv, RowsAgree, AttemptLimit
  <2> QED
    BY <2>1, <2>2
<1>17. AcceptedIsUnique'
  <2> SUFFICES ASSUME NEW q \in DOMAIN shots
               PROVE  /\ shots'[q].status = "accepted" <=> shots'[q].accepted # None
                      /\ \A b \in AttemptsOf(q)' :
                           attempts'[b].status = "accepted" <=> shots'[q].accepted = b
    BY <1>10 DEF AcceptedIsUnique
  <2>1. /\ shots[q].status = "accepted" <=> shots[q].accepted # None
        /\ \A b \in AttemptsOf(q) : attempts[b].status = "accepted" <=> shots[q].accepted = b
        /\ AttemptsOf(q) \subseteq DOMAIN attempts
    BY DEF IInv, RowsAgree, AcceptedIsUnique, AttemptsOf
  <2>2. CASE q = s
    <3>1. \A b \in AttemptsOf(s) : attempts'[b].status # "accepted" /\ b # None
      BY <1>4, <1>8, <2>1, <2>2, Rows DEF IInv, None
    <3>2. \A b \in AttemptsOf(s) \cup {n} : attempts'[b].status # "accepted" /\ b # None
      BY <1>8, <1>11, <3>1
    <3> QED
      BY <1>5, <1>8, <1>10, <2>2, <3>2
  <2>3. CASE q # s
    BY <1>8, <1>10, <2>1, <2>3
  <2> QED
    BY <2>2, <2>3
<1>18. AcceptedIsOwn'
  BY <1>5, <1>8, <1>10 DEF IInv, RowsAgree, AcceptedIsOwn
<1>19. CompletedIsAccepted'
  BY <1>6 DEF CompletedIsAccepted
<1>20. Forward
  <2>1. \A q \in DOMAIN shots : shots[q].version \in Nat
    BY Rows DEF IInv, ShotRow
  <2>2. \A a \in DOMAIN attempts : attempts[a].version \in Nat
    BY Rows DEF IInv, AttemptRow
  <2>3. \A q \in DOMAIN shots :
          /\ shots'[q].version >= shots[q].version
          /\ shots'[q].version = shots[q].version =>
               shots'[q] = shots[q] /\ AttemptsOf(q)' = AttemptsOf(q)
          /\ shots[q].accepted # None => shots'[q].accepted # None
    BY <1>4, <1>5, <1>8, <1>10, <2>1
  <2> QED
    BY <1>6, <1>8, <1>10, <2>2, <2>3 DEF Forward, ProjectKept
<1> QED
  BY <1>1, <1>13, <1>14, <1>15, <1>16, <1>17, <1>18, <1>19, <1>20, CommitInv DEF RowsAgree

(* The shots once one has been added.                                       *)
LEMMA ShotAdded ==
  ASSUME TypeOK, NEW r \in ShotRow, shots' = Append(shots, r)
  PROVE  LET n == Len(shots) + 1 IN
         /\ shots' \in Seq(ShotRow) /\ Len(shots') = n
         /\ DOMAIN shots' = DOMAIN shots \cup {n}
         /\ n \in Nat /\ n \notin DOMAIN shots
         /\ shots'[n] = r
         /\ \A s \in DOMAIN shots : shots'[s] = shots[s]
         /\ AttemptsOf(n) = {}
<1> DEFINE n == Len(shots) + 1
<1>1. /\ shots' \in Seq(ShotRow) /\ Len(shots') = n
      /\ \A s \in 1..Len(shots) : shots'[s] = shots[s]
      /\ shots'[n] = r
  BY AppendProperties DEF TypeOK
<1>2. /\ DOMAIN shots = 1..Len(shots) /\ Len(shots) \in Nat /\ DOMAIN shots' = 1..n
  BY <1>1, Rows
<1>3. DOMAIN shots' = DOMAIN shots \cup {n} /\ n \notin DOMAIN shots /\ n \in Nat
  <2> DEFINE k == Len(shots)
  <2>1. k \in Nat
    BY <1>2
  <2> HIDE DEF k
  <2>2. 1..(k + 1) = (1..k) \cup {k + 1} /\ k + 1 \notin 1..k /\ k + 1 \in Nat
    BY <2>1
  <2> QED
    BY <1>2, <2>2 DEF k
<1>4. AttemptsOf(n) = {}
  BY <1>3 DEF AttemptsOf, TypeOK
<1> QED
  BY <1>1, <1>2, <1>3, <1>4

LEMMA FreshShotRow ==
  /\ FreshShot \in ShotRow /\ FreshShot.status = "approved_for_generation"
  /\ FreshShot.accepted = None
  /\ Moved(FreshShot, "queued") \in ShotRow /\ Moved(FreshShot, "queued").status = "queued"
  /\ Moved(FreshShot, "queued").accepted = None
<1>1. /\ FreshShot \in ShotRow /\ FreshShot.status = "approved_for_generation"
      /\ FreshShot.accepted = None /\ "queued" \in ShotStatus
  BY DEF FreshShot, ShotRow, ShotStatus, ShotMoves, None
<1> QED
  BY <1>1, MovedShot

LEMMA CommitRunInv ==
  ASSUME IInv, NEW c \in Client, CommitRun(c)
  PROVE  IInv' /\ Forward
<1> DEFINE t == tx[c]
           r == Moved(FreshShot, "queued")
           n == Len(attempts) + 1
<1>0. PICK s : s = Len(shots) + 1
  OBVIOUS
<1>1. /\ Ready(c, {"run"}) /\ Len(attempts) < MaxAttempts
      /\ s = t.shot /\ s = Len(shots) + 1 /\ Len(shots) < MaxShots
      /\ WriteProject(t, Charged(Prepared(t.project)))
      /\ shots' = Append(shots, r) /\ Enqueue(s) /\ Done(c)
  BY <1>0 DEF CommitRun, OrdinalFree
<1>2. /\ t \in Transaction /\ t.op = "run"
      /\ t.project.status = project.status /\ SameProject(t)
  BY <1>1, FreshRows, Operations DEF WriteProject, OnNothing
<1>3. CanCharge(Prepared(t.project))
  BY <1>1, <1>2, Guards, Operations DEF Ready
<1>4. /\ r \in ShotRow /\ r.status = "queued" /\ r.accepted = None
  BY FreshShotRow
<1>5. /\ ProjectKept /\ project'.status = "generating"
      /\ project.status \notin {"completed", "failed", "cancelled"}
      /\ project'.version = project.version => project.status # "awaiting_final_review"
  BY <1>1, <1>2, <1>3, ChargedProject DEF WriteProject
<1> HIDE DEF r
<1>6. /\ shots' \in Seq(ShotRow) /\ Len(shots') = s
      /\ DOMAIN shots' = DOMAIN shots \cup {s}
      /\ s \in Nat /\ s \notin DOMAIN shots
      /\ shots'[s] = r
      /\ \A q \in DOMAIN shots : shots'[q] = shots[q]
      /\ AttemptsOf(s) = {}
  BY <1>1, <1>4, ShotAdded DEF IInv
<1>7. /\ attempts' \in Seq(AttemptRow) /\ Len(attempts') = n
      /\ DOMAIN attempts' = DOMAIN attempts \cup {n}
      /\ n \notin DOMAIN attempts /\ n # None
      /\ attempts'[n] = NewAttempt(s)
      /\ \A a \in DOMAIN attempts : attempts'[a] = attempts[a]
      /\ AttemptsOf(s)' = AttemptsOf(s) \cup {n}
      /\ \A q : q # s => AttemptsOf(q)' = AttemptsOf(q)
  BY <1>1, <1>6, Enqueued DEF IInv
<1>8. Len(attempts') <= MaxAttempts /\ Len(shots') <= MaxShots
  <2>1. Len(attempts) \in Nat /\ Len(shots) \in Nat
    BY Rows DEF IInv
  <2> QED
    BY <1>1, <1>6, <1>7, <2>1
<1> HIDE DEF t, n
<1>9. NewAttempt(s).shot = s /\ NewAttempt(s).status = "queued"
  BY DEF NewAttempt
<1>10. \A a \in DOMAIN attempts : attempts[a].shot \in DOMAIN shots
  BY DEF IInv, TypeOK
<1>11. TypeOK'
  BY <1>1, <1>5, <1>6, <1>7, <1>8, <1>9, <1>10, DoneType
     DEF IInv, TypeOK, ProjectKept
<1>12. OnePendingPerShot'
  BY <1>6, <1>7, <1>9, <1>10 DEF IInv, RowsAgree, OnePendingPerShot
<1>13. PendingHoldsShot'
  BY <1>4, <1>6, <1>7, <1>9, <1>10 DEF IInv, RowsAgree, PendingHoldsShot
<1>14. AttemptLimit'
  <2> SUFFICES ASSUME NEW q \in DOMAIN shots'
               PROVE  Cardinality(AttemptsOf(q)') <= MaxAttemptsPerShot
    BY DEF AttemptLimit
  <2>1. CASE q = s
    <3>1. AttemptsOf(q)' = {n}
      BY <1>6, <1>7, <2>1
    <3>2. Cardinality({n}) = 1 /\ 1 <= MaxAttemptsPerShot
      BY FS_Singleton
    <3> QED
      BY <3>1, <3>2
  <2>2. CASE q # s
    BY <1>6, <1>7, <2>2 DEF IInv, RowsAgree, AttemptLimit
  <2> QED
    BY <2>1, <2>2
<1>15. AcceptedIsUnique'
  <2> SUFFICES ASSUME NEW q \in DOMAIN shots'
               PROVE  /\ shots'[q].status = "accepted" <=> shots'[q].accepted # None
                      /\ \A b \in AttemptsOf(q)' :
                           attempts'[b].status = "accepted" <=> shots'[q].accepted = b
    BY DEF AcceptedIsUnique
  <2>1. CASE q = s
    BY <1>4, <1>6, <1>7, <1>9, <2>1
  <2>2. CASE q # s
    <3>1. /\ shots[q].status = "accepted" <=> shots[q].accepted # None
          /\ \A b \in AttemptsOf(q) : attempts[b].status = "accepted" <=> shots[q].accepted = b
          /\ AttemptsOf(q) \subseteq DOMAIN attempts
      BY <1>6, <2>2 DEF IInv, RowsAgree, AcceptedIsUnique, AttemptsOf
    <3> QED
      BY <1>6, <1>7, <2>2, <3>1
  <2> QED
    BY <2>1, <2>2
<1>16. AcceptedIsOwn'
  BY <1>4, <1>6, <1>7 DEF IInv, RowsAgree, AcceptedIsOwn
<1>17. CompletedIsAccepted'
  BY <1>5 DEF CompletedIsAccepted
<1>18. Forward
  <2>1. \A q \in DOMAIN shots : shots[q].version \in Nat
    BY Rows DEF IInv, ShotRow
  <2>2. \A a \in DOMAIN attempts : attempts[a].version \in Nat
    BY Rows DEF IInv, AttemptRow
  <2>3. \A q \in DOMAIN shots : AttemptsOf(q)' = AttemptsOf(q)
    BY <1>6, <1>7
  <2> QED
    BY <1>5, <1>6, <1>7, <2>1, <2>2, <2>3 DEF Forward, ProjectKept
<1> QED
  BY <1>1, <1>11, <1>12, <1>13, <1>14, <1>15, <1>16, <1>17, <1>18, CommitInv DEF RowsAgree

LEMMA CommitInvalidRunInv ==
  ASSUME IInv, NEW c \in Client, CommitInvalidRun(c)
  PROVE  IInv' /\ Forward
<1> DEFINE t == tx[c]
<1>0. PICK s : s = Len(shots) + 1
  OBVIOUS
<1>1. /\ Ready(c, {"invalid"}) /\ Len(shots) < MaxShots
      /\ shots' = Append(shots, FreshShot) /\ Done(c) /\ UNCHANGED attempts
      /\ \/ Prepared(t.project) # t.project /\ WriteProject(t, Prepared(t.project))
         \/ Prepared(t.project) = t.project /\ UNCHANGED project
  BY DEF CommitInvalidRun, OrdinalFree
<1>2. /\ t \in Transaction /\ t.op = "invalid"
      /\ SameProject(t) => t.project.status = project.status
  BY <1>1, FreshRows, Operations DEF OnNothing
<1>3. ProjectKept /\ (project'.status = "completed" => project.status = "completed")
  <2>1. CASE Prepared(t.project) # t.project /\ WriteProject(t, Prepared(t.project))
    <3>1. /\ t.project.status \in {"draft", "planning", "awaiting_storyboard_approval"}
          /\ project' = Moved(t.project, "ready_for_generation")
          /\ SameProject(t) /\ t.project \in ProjectRow
          /\ "ready_for_generation" \in ProjectStatus
      BY <1>2, <2>1 DEF Prepared, WriteProject, Transaction, ProjectStatus, ProjectMoves
    <3> QED
      BY <1>2, <3>1, MovedProjectKept
  <2>2. CASE UNCHANGED project
    BY <2>2, SameProjectKept
  <2> QED
    BY <1>1, <2>1, <2>2
<1> HIDE DEF t
<1>4. /\ shots' \in Seq(ShotRow) /\ Len(shots') = s
      /\ DOMAIN shots' = DOMAIN shots \cup {s}
      /\ s \in Nat /\ s \notin DOMAIN shots
      /\ shots'[s] = FreshShot
      /\ \A q \in DOMAIN shots : shots'[q] = shots[q]
      /\ AttemptsOf(s) = {}
  BY <1>0, <1>1, FreshShotRow, ShotAdded DEF IInv
<1>5. \A q : AttemptsOf(q)' = AttemptsOf(q)
  BY <1>1 DEF AttemptsOf
<1>6. \A a \in DOMAIN attempts : attempts[a].shot \in DOMAIN shots
  BY DEF IInv, TypeOK
<1>7. Len(shots') <= MaxShots
  <2>1. Len(shots) \in Nat
    BY Rows DEF IInv
  <2> QED
    BY <1>0, <1>1, <1>4, <2>1
<1>8. TypeOK'
  BY <1>1, <1>3, <1>4, <1>6, <1>7, DoneType DEF IInv, TypeOK, ProjectKept
<1>9. OnePendingPerShot' /\ PendingHoldsShot'
  BY <1>1, <1>4, <1>6 DEF IInv, RowsAgree, OnePendingPerShot, PendingHoldsShot
<1>10. AttemptLimit'
  <2>1. Cardinality(AttemptsOf(s)) <= MaxAttemptsPerShot
    BY <1>4, FS_EmptySet
  <2> QED
    BY <1>4, <1>5, <2>1 DEF IInv, RowsAgree, AttemptLimit
<1>11. AcceptedIsUnique' /\ AcceptedIsOwn'
  BY <1>1, <1>4, <1>5, FreshShotRow DEF IInv, RowsAgree, AcceptedIsUnique, AcceptedIsOwn
<1>12. CompletedIsAccepted'
  BY <1>1, <1>3, <1>4, <1>6 DEF IInv, RowsAgree, CompletedIsAccepted
<1>13. Forward
  <2>1. \A q \in DOMAIN shots : shots[q].version \in Nat
    BY Rows DEF IInv, ShotRow
  <2>2. \A a \in DOMAIN attempts : attempts[a].version \in Nat
    BY Rows DEF IInv, AttemptRow
  <2> QED
    BY <1>1, <1>3, <1>4, <1>5, <2>1, <2>2 DEF Forward, ProjectKept
<1> QED
  BY <1>1, <1>8, <1>9, <1>10, <1>11, <1>12, <1>13, CommitInv DEF RowsAgree

-----------------------------------------------------------------------------
(* The theorems *)

LEMMA InitIInv == Init => IInv
<1> SUFFICES ASSUME Init PROVE IInv
  OBVIOUS
<1>1. project \in ProjectRow /\ project.status # "completed"
  <2>1. /\ project \in [status : NewProject, spent : {0}, version : {1}]
        /\ NewProject \subseteq {"draft", "ready_for_generation"}
    BY DEF Init
  <2>2. {"draft", "ready_for_generation"} \subseteq ProjectStatus
    BY DEF ProjectStatus, ProjectMoves
  <2>3. /\ project = [status |-> project.status, spent |-> project.spent,
                      version |-> project.version]
        /\ project.status \in NewProject /\ project.spent = 0 /\ project.version = 1
    BY <2>1
  <2>4. project.status \in ProjectStatus /\ 0 \in Nat /\ 1 \in Nat
    BY <2>1, <2>2, <2>3
  <2>5. project.status # "completed"
    BY <2>1, <2>3
  <2>6. project \in ProjectRow
    BY <2>3, <2>4 DEF ProjectRow
  <2> QED
    BY <2>5, <2>6
<1>2. DOMAIN shots = {} /\ DOMAIN attempts = {} /\ Len(shots) = 0 /\ Len(attempts) = 0
  BY DEF Init
<1>3. TypeOK
  BY <1>1, <1>2, IdleType, EmptySeq DEF Init, TypeOK
<1>4. RowsAgree
  BY <1>1, <1>2 DEF RowsAgree, OnePendingPerShot, PendingHoldsShot, AttemptLimit,
     AcceptedIsUnique, AcceptedIsOwn, CompletedIsAccepted
<1>5. \A c \in Client : Sound(tx[c])
  BY DEF Init, Sound, Idle
<1> QED
  BY <1>3, <1>4, <1>5 DEF IInv

LEMMA StutterIInv == IInv /\ UNCHANGED vars => IInv'
<1> SUFFICES ASSUME IInv, UNCHANGED vars PROVE IInv'
  OBVIOUS
<1>1. TypeOK' /\ RowsAgree'
  BY SameRows DEF vars, IInv, TypeOK
<1>2. ASSUME NEW c \in Client PROVE Sound(tx[c])'
  <2>1. PICK u : u = tx'[c]
    OBVIOUS
  <2>2. Sound(u)
    BY <2>1 DEF vars, IInv
  <2>3. Sound(u)'
    BY <2>2, SameRows DEF vars
  <2> QED
    BY <2>1, <2>3
<1> QED
  BY <1>1, <1>2 DEF IInv

LEMMA AnyCommitInv ==
  ASSUME IInv, NEW c \in Client, Commit(c)
  PROVE  IInv' /\ Forward
BY CommitRunInv, CommitInvalidRunInv, CommitCreateInv, CommitAcceptInv, CommitRejectInv,
   CommitPinInv, CommitUnpinInv, CommitStartInv, CommitVerdictInv, CommitFailureInv
   DEF Commit

LEMMA NextIInv == IInv /\ [Next]_vars => IInv'
<1>1. ASSUME IInv, Next  PROVE IInv'
  BY <1>1, AnyCommitInv, BeginInv, ReadActionInv, AbortInv DEF Next
<1> QED
  BY <1>1, StutterIInv

(* The rows agree with each other, and with what each open transaction has  *)
(* read of them, whatever transactions overlap.                             *)
THEOREM LedgerInvariant == Spec => []IInv
BY InitIInv, NextIInv, PTL DEF Spec

(* Every variable has its type.                                             *)
THEOREM TypeCorrect == Spec => []TypeOK
<1>1. IInv => TypeOK
  BY DEF IInv
<1> QED
  BY <1>1, LedgerInvariant, PTL

(* No shot ever has two attempts in progress (createManagedAttempt and      *)
(* createAttempt read the shot before they lock it).                        *)
THEOREM OnePending == Spec => []OnePendingPerShot
<1>1. IInv => OnePendingPerShot
  BY DEF IInv, RowsAgree
<1> QED
  BY <1>1, LedgerInvariant, PTL

(* No shot gets more attempts than MAX_ATTEMPTS_PER_SHOT.                   *)
THEOREM LimitHolds == Spec => []AttemptLimit
<1>1. IInv => AttemptLimit
  BY DEF IInv, RowsAgree
<1> QED
  BY <1>1, LedgerInvariant, PTL

(* A shot is accepted exactly when it names an accepted attempt, and that   *)
(* is the only accepted attempt it has.                                     *)
THEOREM OneAcceptance == Spec => []AcceptedIsUnique
<1>1. IInv => AcceptedIsUnique
  BY DEF IInv, RowsAgree
<1> QED
  BY <1>1, LedgerInvariant, PTL

(* A completed project has no attempt on a shot that is not accepted.       *)
THEOREM CompletedOverAccepted == Spec => []CompletedIsAccepted
<1>1. IInv => CompletedIsAccepted
  BY DEF IInv, RowsAgree
<1> QED
  BY <1>1, LedgerInvariant, PTL

(* Everything but a commit leaves the rows alone.                           *)
LEMMA OnlyCommitsWrite ==
  ASSUME NEW c \in Client, Begin(c) \/ Read(c) \/ Abort(c)
  PROVE  UNCHANGED <<project, shots, attempts>>
BY DEF Begin, Open, Read, Abort, ReadNext

(* A closed project is not reopened, rewritten or given another attempt, by *)
(* a transaction that read it before it was closed either.                  *)
THEOREM ClosedStays == Spec => ClosedIsFinal
<1>1. ASSUME IInv, [Next]_vars, project.status \in {"completed", "failed", "cancelled"}
      PROVE  project' = project /\ Len(attempts') = Len(attempts)
  <2>1. ASSUME NEW c \in Client, Commit(c)
        PROVE  project' = project /\ Len(attempts') = Len(attempts)
    BY <1>1, <2>1, AnyCommitInv DEF Forward
  <2>2. CASE UNCHANGED vars
    BY <2>2 DEF vars
  <2> QED
    BY <1>1, <2>1, <2>2, OnlyCommitsWrite DEF Next
<1>2. IInv /\ [Next]_vars =>
        [project.status \in {"completed", "failed", "cancelled"} =>
           project' = project /\ Len(attempts') = Len(attempts)]_vars
  BY <1>1
<1> QED
  BY <1>2, LedgerInvariant, PTL DEF Spec, ClosedIsFinal

(* A commit that writes the whole row of a shot writes back the pin that is *)
(* there now.                                                               *)
LEMMA PinIsRead ==
  ASSUME IInv, NEW c \in Client, Commit(c), NEW s \in DOMAIN shots,
         shots'[s].pinned # shots[s].pinned
  PROVE  tx[c].op \in {"pin", "unpin", "accept"} /\ tx'[c] = Idle
<1> DEFINE t == tx[c]
<1>1. ASSUME NEW ops \in SUBSET (OnShot \cup OnAttempt), Ready(c, ops),
             NEW x \in ShotStatus, WriteShot(t, Moved(t.row, x))
      PROVE  FALSE
  <2>1. ops \in SUBSET Op
    BY Operations DEF OnShot
  <2>2. t.shot \in DOMAIN shots /\ t.row = shots[t.shot]
    BY <1>1, <2>1, FreshRows DEF WriteShot
  <2>3. t.row \in ShotRow
    BY <2>2, Rows DEF IInv
  <2>4. Moved(t.row, x).pinned = shots[t.shot].pinned
    BY <2>2, <2>3, MovedShot
  <2>5. shots'[s] = IF s = t.shot THEN Moved(t.row, x) ELSE shots[s]
    BY <1>1 DEF WriteShot
  <2> QED
    BY <2>4, <2>5
<1>2. /\ {"reject"} \subseteq OnAttempt /\ {"start"} \subseteq OnAttempt
      /\ WorkerEnd \subseteq OnAttempt
  BY Operations DEF WorkerEnd
<1>3. /\ {"queued", "rejected", "generating"} \subseteq ShotStatus
      /\ \A status, verdict : ShotAfterVerdict(status, verdict) # status =>
           ShotAfterVerdict(status, verdict) \in ShotStatus
      /\ \A code : ShotAfterFailure(code) \in ShotStatus
  BY DEF ShotStatus, ShotMoves, ShotAfterVerdict, ShotAfterFailure
<1>4. ASSUME NEW row \in ShotRow, shots' = Append(shots, row)  PROVE FALSE
  BY <1>4, ShotAdded DEF IInv
<1>5. ~UNCHANGED shots
  OBVIOUS
<1>6. CASE CommitRun(c) \/ CommitInvalidRun(c)
  BY <1>4, <1>6, FreshShotRow DEF CommitRun, CommitInvalidRun
<1>7. CASE CommitCreate(c)
  BY <1>1, <1>3, <1>7 DEF CommitCreate
<1>8. CASE CommitReject(c)
  BY <1>1, <1>2, <1>3, <1>8 DEF CommitReject
<1>9. CASE CommitStart(c)
  BY <1>1, <1>2, <1>3, <1>5, <1>9 DEF CommitStart
<1>10. CASE CommitVerdict(c)
  <2>1. Ready(c, WorkerEnd)
    BY <1>10 DEF CommitVerdict, Ready, WorkerEnd
  <2>2. PICK y : /\ y # t.row.status => y \in ShotStatus
                 /\ \/ y # t.row.status /\ WriteShot(t, Moved(t.row, y))
                    \/ y = t.row.status /\ UNCHANGED shots
    BY <1>3, <1>10 DEF CommitVerdict, CommitOutcome
  <2> QED
    BY <1>1, <1>2, <1>5, <2>1, <2>2
<1>11. CASE CommitFailure(c)
  <2>1. Ready(c, WorkerEnd)
    BY <1>11 DEF CommitFailure, Ready, WorkerEnd
  <2>2. PICK y : /\ y # t.row.status => y \in ShotStatus
                 /\ \/ y # t.row.status /\ WriteShot(t, Moved(t.row, y))
                    \/ y = t.row.status /\ UNCHANGED shots
    BY <1>3, <1>11 DEF CommitFailure, CommitOutcome
  <2> QED
    BY <1>1, <1>2, <1>5, <2>1, <2>2
<1>12. CASE CommitPin(c) \/ CommitUnpin(c) \/ CommitAccept(c)
  BY <1>12 DEF CommitPin, CommitUnpin, CommitAccept, Ready, Done, IInv, TypeOK
<1> QED
  BY <1>6, <1>7, <1>8, <1>9, <1>10, <1>11, <1>12 DEF Commit

(* No write of a shot's row undoes the pin or the acceptance of another     *)
(* transaction.                                                             *)
THEOREM PinsStay == Spec => PinsSurvive
<1>1. ASSUME IInv, [Next]_vars, NEW s \in DOMAIN shots, shots'[s].pinned # shots[s].pinned
      PROVE  \E c \in Client : tx[c].op \in {"pin", "unpin", "accept"} /\ tx'[c] = Idle
  <2>1. shots' # shots
    BY <1>1
  <2>2. PICK c \in Client : Begin(c) \/ Read(c) \/ Commit(c) \/ Abort(c)
    BY <1>1, <2>1 DEF Next, vars
  <2>3. Commit(c)
    BY <2>1, <2>2, OnlyCommitsWrite
  <2> QED
    BY <1>1, <2>3, PinIsRead
<1>2. IInv /\ [Next]_vars =>
        [\A s \in DOMAIN shots : shots'[s].pinned # shots[s].pinned =>
           \E c \in Client : tx[c].op \in {"pin", "unpin", "accept"} /\ tx'[c] = Idle]_vars
  BY <1>1
<1> QED
  BY <1>2, LedgerInvariant, PTL DEF Spec, PinsSurvive
================================================================================
