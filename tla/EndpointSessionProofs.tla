----------------------- MODULE EndpointSessionProofs ------------------------
(***************************************************************************)
(* Proofs about EndpointSession for any runs, events, peers and transfers:  *)
(* first the audit log alone, then what sessions write into it, last what   *)
(* it accounts for of the transfers they work on.                           *)
(***************************************************************************)
EXTENDS EndpointSession, SequenceTheorems, FiniteSetTheorems, TLAPS

-----------------------------------------------------------------------------
(* The log alone: the chain, the head of whoever appends, and the ledger a reader finds *)


Lines == Records \cup {Torn}

\* a run that has the log open, failed or not, has the lock
Locked == \A r \in Runs : log[r] \in {"ready", "writing", "failed"} => lock = r

\* a run that did not fail finds a record at the end, its own if it is in the middle of append
Clean ==
    \A r \in Runs :
        /\ log[r] \in {"ready", "writing"} => Readable = Len(file)
        /\ log[r] = "writing" => Len(file) = head[r].records + 1

\* what was promised was synced, and is no torn line
Kept == promised <= durable /\ promised <= Readable

IInv == TypeOK /\ OnlyTheEndIsTorn /\ HeadIsCurrent /\ Locked /\ Clean /\ Kept

-----------------------------------------------------------------------------
(* Sequences of lines *)

LEMMA OneMore ==
    ASSUME NEW S, NEW s \in Seq(S), NEW x \in S
    PROVE  /\ Append(s, x) \in Seq(S)
           /\ Len(Append(s, x)) = Len(s) + 1
           /\ \A k \in 1 .. Len(s) : Append(s, x)[k] = s[k]
           /\ Append(s, x)[Len(s) + 1] = x
BY AppendProperties

LEMMA Front ==
    ASSUME NEW S, NEW s \in Seq(S), NEW n \in 0 .. Len(s)
    PROVE  /\ SubSeq(s, 1, n) \in Seq(S)
           /\ Len(SubSeq(s, 1, n)) = n
           /\ \A k \in 1 .. n : SubSeq(s, 1, n)[k] = s[k]
<1>1. \A k \in 1 .. n : s[k] \in S
  OBVIOUS
<1> QED
  BY <1>1, SubSeqProperties

LEMMA AsFunction ==
    ASSUME NEW S, NEW s \in Seq(S)
    PROVE  s = [k \in 1 .. Len(s) |-> s[k]]
OBVIOUS

LEMMA NotARecord == Torn \notin Records
BY LogAssumption DEF Records

LEMMA HashType ==
    ASSUME TypeOK, NEW n \in 0 .. Len(file)
    PROVE  HashOf(n) \in Seq(Events)
<1>1. CASE n = 0 \/ file[n] = Torn
  BY <1>1 DEF HashOf, Genesis
<1>2. CASE n # 0 /\ file[n] # Torn
  <2>1. n \in 1 .. Len(file)
    BY <1>2
  <2>2. file[n] \in Records
    BY <1>2, <2>1 DEF TypeOK
  <2>3. file[n].previous \in Seq(Events) /\ file[n].event \in Events
    BY <2>2 DEF Records
  <2>4. Append(file[n].previous, file[n].event) \in Seq(Events)
    BY <2>3, AppendProperties
  <2> QED
    BY <1>2, <2>4 DEF HashOf, Hash
<1> QED
  BY <1>1, <1>2

-----------------------------------------------------------------------------
(* The invariant *)

LEMMA InitIInv == LogInit => IInv
<1> SUFFICES ASSUME LogInit PROVE IInv
  OBVIOUS
<1>1. TypeOK
  BY DEF LogInit, TypeOK, LogState, Heads, Genesis
<1> QED
  BY <1>1 DEF LogInit, IInv, OnlyTheEndIsTorn, HeadIsCurrent, Locked, Clean, Kept, Readable

\* nothing changes but what runs do that neither append nor may append
LEMMA QuietIInv ==
    ASSUME IInv, UNCHANGED << file, durable, head, promised >>,
           log' \in [Runs -> LogState], lock' \in Runs \cup {None},
           \A r \in Runs : log'[r] \in {"ready", "writing"} => log'[r] = log[r],
           Locked'
    PROVE  IInv'
<1> USE DEF IInv
<1>1. TypeOK'
  BY DEF TypeOK
<1>2. OnlyTheEndIsTorn'
  BY DEF OnlyTheEndIsTorn, HashOf, Hash
<1>3. HeadIsCurrent'
  BY DEF HeadIsCurrent, Locked, HeadOfFile, HashOf, Hash
<1>4. Clean' /\ Kept'
  BY DEF Clean, Kept, Readable
<1> QED
  BY <1>1, <1>2, <1>3, <1>4

LEMMA OpenIInv ==
    ASSUME IInv, NEW r \in Runs, Open(r)
    PROVE  IInv'
<1> USE DEF IInv
<1>1. /\ UNCHANGED << file, durable, promised >> /\ Verifies /\ lock = None /\ lock' = r
      /\ head' = [head EXCEPT ![r] = HeadOfFile] /\ log' = [log EXCEPT ![r] = "ready"]
  BY DEF Open, LogTo
<1>2. HeadOfFile \in Heads
  <2>1. Len(file) \in 0 .. Len(file) /\ Len(file) \in Nat
    BY DEF TypeOK
  <2> QED
    BY <2>1, HashType DEF HeadOfFile, Heads
<1>3. TypeOK'
  BY <1>1, <1>2 DEF TypeOK, LogState
<1>4. OnlyTheEndIsTorn'
  BY <1>1 DEF OnlyTheEndIsTorn, HashOf, Hash
<1>5. \A q \in Runs : q # r => log[q] \notin {"ready", "writing", "failed"}
  BY <1>1, LogAssumption DEF Locked
<1>6. HeadIsCurrent' /\ Locked'
  BY <1>1, <1>5 DEF HeadIsCurrent, Locked, HeadOfFile, HashOf, Hash, TypeOK
<1>7. Readable = Len(file)
  BY <1>1 DEF Verifies, Readable, TypeOK
<1>8. Clean' /\ Kept'
  BY <1>1, <1>5, <1>7 DEF Clean, Kept, Readable, TypeOK
<1> QED
  BY <1>3, <1>4, <1>6, <1>8

LEMMA WriteIInv ==
    ASSUME IInv, NEW r \in Runs, NEW e \in Events, Write(r, e)
    PROVE  IInv'
<1> USE DEF IInv
<1> DEFINE line == Line(r, e)
<1>1. /\ log[r] = "ready" /\ file' = Append(file, line)
      /\ log' = [log EXCEPT ![r] = "writing"] /\ UNCHANGED << durable, lock, head, promised >>
  BY DEF Write, LogTo
<1>2. lock = r /\ head[r] = HeadOfFile /\ Readable = Len(file)
  BY <1>1 DEF HeadIsCurrent, Clean
<1>3. /\ line.sequence = Len(file) /\ line.previous = HashOf(Len(file)) /\ line.event = e
  BY <1>2 DEF Line, HeadOfFile
<1>4. line \in Records
  BY DEF Line, Records, TypeOK, Heads
<1>5. /\ file \in Seq(Lines) /\ line \in Lines
  BY <1>4 DEF TypeOK, Lines
<1>6. /\ file' \in Seq(Lines) /\ Len(file') = Len(file) + 1 /\ Len(file) \in Nat
      /\ \A k \in 1 .. Len(file) : file'[k] = file[k]
      /\ file'[Len(file) + 1] = line
  BY <1>1, <1>5, OneMore
<1>7. TypeOK'
  BY <1>1, <1>6 DEF TypeOK, LogState, Lines
<1>8. \A k \in 1 .. Len(file) : file[k] # Torn
  BY <1>2, <1>6 DEF OnlyTheEndIsTorn, Readable
<1>9. \A k \in 0 .. Len(file) : HashOf(k)' = HashOf(k)
  BY <1>6 DEF HashOf, Hash
<1>10. OnlyTheEndIsTorn'
  <2> SUFFICES ASSUME NEW k \in 1 .. Len(file')
               PROVE  file'[k] # Torn /\ file'[k].sequence = k - 1 /\ file'[k].previous = HashOf(k - 1)'
    BY DEF OnlyTheEndIsTorn
  <2>1. CASE k \in 1 .. Len(file)
    <3>1. k - 1 \in 0 .. Len(file) /\ file'[k] = file[k]
      BY <2>1, <1>6
    <3>2. file[k] # Torn /\ file[k].sequence = k - 1 /\ file[k].previous = HashOf(k - 1)
      BY <2>1, <1>8 DEF OnlyTheEndIsTorn
    <3> QED
      BY <3>1, <3>2, <1>9
  <2>2. CASE k = Len(file) + 1
    <3>1. k - 1 = Len(file) /\ file'[k] = line /\ Len(file) \in 0 .. Len(file)
      BY <2>2, <1>6
    <3> QED
      BY <3>1, <1>3, <1>4, <1>9, NotARecord
  <2> QED
    BY <2>1, <2>2, <1>6
<1>11. \A q \in Runs : q # r => log[q] \notin {"ready", "writing", "failed"}
  BY <1>2 DEF Locked
<1>12. HeadIsCurrent' /\ Locked'
  BY <1>1, <1>2, <1>11 DEF HeadIsCurrent, Locked, TypeOK
<1>13. Readable' = Len(file')
  BY <1>4, <1>6, NotARecord DEF Readable
<1>14. Clean' /\ Kept'
  BY <1>1, <1>2, <1>6, <1>11, <1>13 DEF Clean, Kept, HeadOfFile, TypeOK
<1> QED
  BY <1>7, <1>10, <1>12, <1>14

LEMMA WriteFailsIInv ==
    ASSUME IInv, NEW r \in Runs, WriteFails(r)
    PROVE  IInv'
<1> USE DEF IInv
<1>1. /\ log[r] = "ready" /\ file' \in {file, Append(file, Torn)}
      /\ log' = [log EXCEPT ![r] = "failed"] /\ UNCHANGED << durable, lock, head, promised >>
  BY DEF WriteFails, LogTo
<1>2. lock = r /\ Readable = Len(file)
  BY <1>1 DEF HeadIsCurrent, Clean
<1>3. \A q \in Runs : q # r => log[q] \notin {"ready", "writing", "failed"}
  BY <1>2 DEF Locked
<1>4. Locked' /\ log' \in [Runs -> LogState]
  BY <1>1, <1>2, <1>3 DEF Locked, TypeOK, LogState
<1>5. \A q \in Runs : log'[q] \notin {"ready", "writing"}
  BY <1>1, <1>3 DEF TypeOK
<1>6. CASE file' = file
  BY <1>1, <1>4, <1>5, <1>6, QuietIInv DEF TypeOK
<1>7. CASE file' = Append(file, Torn)
  <2>1. file \in Seq(Lines) /\ Torn \in Lines
    BY DEF TypeOK, Lines
  <2>2. /\ file' \in Seq(Lines) /\ Len(file') = Len(file) + 1 /\ Len(file) \in Nat
        /\ \A k \in 1 .. Len(file) : file'[k] = file[k]
        /\ file'[Len(file) + 1] = Torn
    BY <1>7, <2>1, OneMore
  <2>3. TypeOK'
    BY <1>1, <1>4, <2>2 DEF TypeOK, Lines
  <2>4. \A k \in 1 .. Len(file) : file[k] # Torn
    BY <1>2, <2>2 DEF OnlyTheEndIsTorn, Readable
  <2>5. \A k \in 0 .. Len(file) : HashOf(k)' = HashOf(k)
    BY <2>2 DEF HashOf, Hash
  <2>6. OnlyTheEndIsTorn'
    <3> SUFFICES ASSUME NEW k \in 1 .. Len(file'), ~ (k = Len(file') /\ file'[k] = Torn)
                 PROVE  file'[k] # Torn /\ file'[k].sequence = k - 1 /\ file'[k].previous = HashOf(k - 1)'
      BY DEF OnlyTheEndIsTorn
    <3>1. k \in 1 .. Len(file)
      BY <2>2
    <3>2. k - 1 \in 0 .. Len(file) /\ file'[k] = file[k]
      BY <2>2, <3>1
    <3>3. file[k] # Torn /\ file[k].sequence = k - 1 /\ file[k].previous = HashOf(k - 1)
      BY <2>4, <3>1 DEF OnlyTheEndIsTorn
    <3> QED
      BY <3>2, <3>3, <2>5
  <2>7. Readable' = Len(file)
    BY <2>2 DEF Readable
  <2>8. HeadIsCurrent' /\ Clean' /\ Kept'
    BY <1>1, <1>2, <1>5, <2>7 DEF HeadIsCurrent, Clean, Kept
  <2> QED
    BY <1>4, <2>3, <2>6, <2>8
<1> QED
  BY <1>1, <1>6, <1>7

LEMMA SyncIInv ==
    ASSUME IInv, NEW r \in Runs, Sync(r)
    PROVE  IInv'
<1> USE DEF IInv
<1>1. /\ log[r] = "writing" /\ durable' = Len(file) /\ promised' = Len(file)
      /\ head' = [head EXCEPT ![r] = [records |-> head[r].records + 1, hash |-> HashOf(Len(file))]]
      /\ log' = [log EXCEPT ![r] = "ready"] /\ UNCHANGED << file, lock >>
  BY DEF Sync, LogTo
<1>2. lock = r /\ Readable = Len(file) /\ Len(file) = head[r].records + 1
  BY <1>1 DEF Locked, Clean
<1>3. Len(file) \in Nat /\ Len(file) \in 0 .. Len(file)
  BY DEF TypeOK
<1>4. head'[r] = HeadOfFile /\ HeadOfFile \in Heads
  BY <1>1, <1>2, <1>3, HashType DEF HeadOfFile, Heads, TypeOK
<1>5. TypeOK'
  BY <1>1, <1>3, <1>4 DEF TypeOK, LogState
<1>6. OnlyTheEndIsTorn'
  BY <1>1 DEF OnlyTheEndIsTorn, HashOf, Hash
<1>7. \A q \in Runs : q # r => log[q] \notin {"ready", "writing", "failed"}
  BY <1>2 DEF Locked
<1>8. HeadIsCurrent' /\ Locked'
  BY <1>1, <1>2, <1>4, <1>7 DEF HeadIsCurrent, Locked, HeadOfFile, HashOf, Hash, TypeOK
<1>9. Clean' /\ Kept'
  BY <1>1, <1>2, <1>3, <1>7 DEF Clean, Kept, Readable, TypeOK
<1> QED
  BY <1>5, <1>6, <1>8, <1>9

LEMMA CloseIInv ==
    ASSUME IInv, NEW r \in Runs, OpenFails(r) \/ SyncFails(r) \/ Close(r)
    PROVE  IInv'
<1> USE DEF IInv
<1>1. CASE OpenFails(r)
  BY <1>1, QuietIInv DEF OpenFails, LogTo, TypeOK, LogState, Locked
<1>2. CASE SyncFails(r)
  BY <1>2, QuietIInv DEF SyncFails, LogTo, TypeOK, LogState, Locked
<1>3. CASE Close(r)
  <2>1. /\ log' \in [Runs -> LogState] /\ lock' \in Runs \cup {None}
        /\ \A q \in Runs : log'[q] \in {"ready", "writing"} => log'[q] = log[q]
    BY <1>3 DEF Close, LogTo, TypeOK, LogState
  <2>2. Locked'
    BY <1>3 DEF Close, LogTo, TypeOK, LogState, Locked
  <2> QED
    BY <1>3, <2>1, <2>2, QuietIInv DEF Close
<1> QED
  BY <1>1, <1>2, <1>3

LEMMA PowerIInv ==
    ASSUME IInv, PowerFails
    PROVE  IInv'
<1> USE DEF IInv
<1>1. PICK n \in durable .. Len(file) :
        \/ file' = SubSeq(file, 1, n)
        \/ n < Len(file) /\ file' = Append(SubSeq(file, 1, n), Torn)
  BY DEF PowerFails
<1>2. /\ durable' = Len(file') /\ lock' = None /\ UNCHANGED << head, promised >>
      /\ log' = [r \in Runs |-> IF log[r] = "opening" THEN "opening" ELSE "closed"]
  BY DEF PowerFails
<1>3. file \in Seq(Lines) /\ Torn \in Lines /\ n \in 0 .. Len(file) /\ durable \in Nat
      /\ promised \in Nat /\ Len(file) \in Nat
  BY <1>1 DEF TypeOK, Lines
<1> DEFINE front == SubSeq(file, 1, n)
<1>4. front \in Seq(Lines) /\ Len(front) = n /\ \A k \in 1 .. n : front[k] = file[k]
  BY <1>3, Front
<1>5. /\ file' \in Seq(Lines) /\ Len(file') \in {n, n + 1}
      /\ \A k \in 1 .. n : file'[k] = file[k]
      /\ Len(file') = n + 1 => n < Len(file) /\ file'[n + 1] = Torn
  <2>1. CASE file' = front
    BY <2>1, <1>3, <1>4
  <2>2. CASE n < Len(file) /\ file' = Append(front, Torn)
    <3> HIDE DEF front
    <3>1. /\ Append(front, Torn) \in Seq(Lines) /\ Len(Append(front, Torn)) = n + 1
          /\ \A k \in 1 .. n : Append(front, Torn)[k] = front[k]
          /\ Append(front, Torn)[n + 1] = Torn
      BY <1>3, <1>4, OneMore
    <3> QED
      BY <2>2, <3>1, <1>3, <1>4
  <2> QED
    BY <1>1, <2>1, <2>2
<1>6. promised <= n
  BY <1>1, <1>3 DEF Kept
<1>7. /\ \A r \in Runs : log'[r] \in {"opening", "closed"}
      /\ log' \in [Runs -> LogState]
  BY <1>2 DEF TypeOK, LogState
<1>8. TypeOK'
  BY <1>2, <1>3, <1>5, <1>6, <1>7 DEF TypeOK, Lines
<1>9. \A k \in 0 .. n : HashOf(k)' = HashOf(k)
  BY <1>3, <1>5 DEF HashOf, Hash
<1>10. OnlyTheEndIsTorn'
  <2> SUFFICES ASSUME NEW k \in 1 .. Len(file'), ~ (k = Len(file') /\ file'[k] = Torn)
               PROVE  file'[k] # Torn /\ file'[k].sequence = k - 1 /\ file'[k].previous = HashOf(k - 1)'
    BY DEF OnlyTheEndIsTorn
  <2>1. k \in 1 .. n /\ k - 1 \in 0 .. n /\ k \in 1 .. Len(file) /\ file'[k] = file[k]
    BY <1>3, <1>5
  <2>2. file[k] # Torn
    <3>1. k = Len(file) \/ file[k] # Torn
      BY <2>1 DEF OnlyTheEndIsTorn
    <3> QED
      BY <3>1, <2>1, <1>3, <1>5
  <2>3. file[k].sequence = k - 1 /\ file[k].previous = HashOf(k - 1)
    BY <2>1, <2>2 DEF OnlyTheEndIsTorn
  <2> QED
    BY <2>1, <2>2, <2>3, <1>9
<1>11. HeadIsCurrent' /\ Locked' /\ Clean'
  BY <1>7 DEF HeadIsCurrent, Locked, Clean
<1>12. Kept'
  <2>1. promised <= Len(file')
    BY <1>3, <1>5, <1>6
  <2>2. CASE file' # << >> /\ file'[Len(file')] = Torn
    <3>1. CASE Len(file') = n + 1
      BY <2>2, <3>1, <1>2, <1>3, <1>5, <1>6 DEF Kept, Readable
    <3>2. CASE Len(file') = n
      <4>1. n \in 1 .. Len(file) /\ file[n] = Torn
        BY <2>2, <3>2, <1>3, <1>5
      <4>2. n = Len(file) /\ Readable = n - 1
        BY <4>1, <1>3 DEF OnlyTheEndIsTorn, Readable
      <4> QED
        BY <2>2, <3>2, <4>2, <1>2, <1>3, <1>6 DEF Kept, Readable
    <3> QED
      BY <3>1, <3>2, <1>5
  <2>3. CASE ~ (file' # << >> /\ file'[Len(file')] = Torn)
    BY <2>1, <2>3, <1>2 DEF Kept, Readable
  <2> QED
    BY <2>2, <2>3
<1> QED
  BY <1>8, <1>10, <1>11, <1>12

LEMMA StepIInv == IInv /\ [LogNext]_logVars => IInv'
<1> SUFFICES ASSUME IInv, [LogNext]_logVars PROVE IInv'
  OBVIOUS
<1>1. ASSUME NEW r \in Runs, Open(r) \/ OpenFails(r) \/ AppendStep(r) \/ Close(r) PROVE IInv'
  BY <1>1, OpenIInv, WriteIInv, WriteFailsIInv, SyncIInv, CloseIInv DEF AppendStep
<1>2. CASE PowerFails
  BY <1>2, PowerIInv
<1>3. CASE UNCHANGED logVars
  BY <1>3 DEF logVars, IInv, TypeOK, OnlyTheEndIsTorn, HeadIsCurrent, Locked, Clean, Kept,
              Readable, HeadOfFile, HashOf, Hash
<1> QED
  BY <1>1, <1>2, <1>3 DEF LogNext

LEMMA Invariant == LogSpec => []IInv
BY InitIInv, StepIInv, PTL DEF LogSpec

-----------------------------------------------------------------------------
(* The ledger *)

Found == [k \in 1 .. Readable |-> file[k].event]

LEMMA FoundType ==
    ASSUME IInv
    PROVE  /\ Len(file) \in Nat /\ Readable \in 0 .. Len(file)
           /\ \A k \in 1 .. Readable : file[k] \in Records
           /\ Found \in Seq(Events) /\ Len(Found) = Readable
<1>1. Len(file) \in Nat /\ Readable \in 0 .. Len(file)
  <2>1. Len(file) \in Nat /\ (file # << >> => Len(file) > 0)
    BY DEF IInv, TypeOK
  <2> QED
    BY <2>1 DEF Readable
<1>2. \A k \in 1 .. Readable : file[k] # Torn
  BY <1>1 DEF IInv, OnlyTheEndIsTorn, Readable
<1>3. \A k \in 1 .. Readable : file[k] \in Records
  BY <1>1, <1>2 DEF IInv, TypeOK
<1>4. \A k \in 1 .. Readable : file[k].event \in Events
  BY <1>3 DEF Records
<1> QED
  BY <1>1, <1>3, <1>4 DEF Found

LEMMA StartsEmpty == LogInit => Promises!Init
<1> SUFFICES ASSUME LogInit PROVE Promises!Init
  OBVIOUS
<1>1. Readable = 0 /\ promised = 0
  BY DEF LogInit, Readable
<1>2. Found = << >>
  BY <1>1 DEF Found
<1> QED
  BY <1>1, <1>2 DEF Promises!Init, Found

\* a step that leaves the readable lines alone, and may promise all of them
LEMMA SameLines ==
    ASSUME IInv, Readable' = Readable, \A k \in 1 .. Readable : file'[k] = file[k],
           promised' \in {promised, Readable}
    PROVE  Promises!Promise \/ UNCHANGED << Found, promised >>
<1>1. Found' = Found
  BY DEF Found
<1>2. Len(Found) = Readable
  BY FoundType
<1> QED
  BY <1>1, <1>2 DEF Promises!Promise, Found

LEMMA WriteEnters ==
    ASSUME IInv, NEW r \in Runs, NEW e \in Events, Write(r, e)
    PROVE  Promises!Enter
<1> DEFINE line == Line(r, e)
<1>1. /\ log[r] = "ready" /\ file' = Append(file, line) /\ promised' = promised
      /\ line.event = e
  BY DEF Write, Line
<1>2. Readable = Len(file)
  BY <1>1 DEF IInv, Clean
<1>3. line \in Records
  BY DEF Line, Records, IInv, TypeOK, Heads
<1>4. /\ Len(file') = Len(file) + 1 /\ Len(file) \in Nat
      /\ \A k \in 1 .. Len(file) : file'[k] = file[k]
      /\ file'[Len(file) + 1] = line
  <2>1. file \in Seq(Lines) /\ line \in Lines
    BY <1>3 DEF IInv, TypeOK, Lines
  <2> HIDE DEF line
  <2> QED
    BY <1>1, <2>1, OneMore
<1>5. Readable' = Len(file) + 1
  BY <1>3, <1>4, NotARecord DEF Readable
<1>6. Found' = [k \in 1 .. Len(file) + 1 |-> IF k = Len(file) + 1 THEN e ELSE file[k].event]
  BY <1>1, <1>4, <1>5 DEF Found
<1>7. Found \in Seq(Events) /\ Len(Found) = Len(file)
  BY <1>2, FoundType
<1>8. Append(Found, e) = [k \in 1 .. Len(file) + 1 |-> IF k = Len(file) + 1 THEN e ELSE file[k].event]
  <2>1. Append(Found, e) \in Seq(Events) /\ Len(Append(Found, e)) = Len(file) + 1
        /\ \A k \in 1 .. Len(file) : Append(Found, e)[k] = Found[k]
        /\ Append(Found, e)[Len(file) + 1] = e
    BY <1>7, OneMore
  <2>2. \A k \in 1 .. Len(file) : Found[k] = file[k].event
    BY <1>2 DEF Found
  <2>3. Append(Found, e) = [k \in 1 .. Len(file) + 1 |-> Append(Found, e)[k]]
    BY <2>1, AsFunction
  <2> QED
    BY <2>1, <2>2, <2>3, <1>4
<1>9. Found' = Append(Found, e)
  BY <1>6, <1>8
<1> QED
  BY <1>1, <1>9 DEF Promises!Enter, Found

\* what a reader finds after a power loss is a beginning of what it found before
LEMMA PowerLoses ==
    ASSUME IInv, IInv', PowerFails
    PROVE  Promises!Lose
<1>1. PICK n \in durable .. Len(file) :
        \/ file' = SubSeq(file, 1, n)
        \/ n < Len(file) /\ file' = Append(SubSeq(file, 1, n), Torn)
  BY DEF PowerFails
<1>2. promised' = promised
  BY DEF PowerFails
<1>3. /\ file \in Seq(Lines) /\ Torn \in Lines /\ n \in 0 .. Len(file)
      /\ promised \in Nat /\ Len(file) \in Nat
  BY <1>1 DEF IInv, TypeOK, Lines
<1> DEFINE front == SubSeq(file, 1, n)
<1>4. front \in Seq(Lines) /\ Len(front) = n /\ \A k \in 1 .. n : front[k] = file[k]
  BY <1>3, Front
<1>5. /\ Len(file') \in {n, n + 1} /\ \A k \in 1 .. n : file'[k] = file[k]
      /\ Len(file') = n + 1 => file'[n + 1] = Torn
  <2>1. CASE file' = front
    BY <2>1, <1>3, <1>4
  <2>2. CASE file' = Append(front, Torn)
    <3> HIDE DEF front
    <3>1. /\ Len(Append(front, Torn)) = n + 1
          /\ \A k \in 1 .. n : Append(front, Torn)[k] = front[k]
          /\ Append(front, Torn)[n + 1] = Torn
      BY <1>3, <1>4, OneMore
    <3> QED
      BY <2>2, <3>1, <1>3, <1>4
  <2> QED
    BY <1>1, <2>1, <2>2
<1>6. Readable' \in 0 .. n
  <2>1. Len(file') \in Nat
    BY <1>3, <1>5
  <2>2. file' # << >> => Len(file') > 0
    BY DEF IInv, TypeOK
  <2> QED
    BY <2>1, <2>2, <1>3, <1>5 DEF Readable
<1>7. \A k \in 1 .. Readable' : k \in 1 .. Readable
  <2> SUFFICES ASSUME NEW k \in 1 .. Readable' PROVE k \in 1 .. Readable
    OBVIOUS
  <2>1. k \in 1 .. n /\ k \in 1 .. Len(file) /\ file'[k] = file[k]
    BY <1>3, <1>5, <1>6
  <2>2. file'[k] # Torn
    <3>1. k \in 1 .. Len(file') /\ Len(file') \in Nat
      BY <2>1, <1>3, <1>5
    <3>2. k = Len(file') => file'[Len(file')] # Torn
      BY <3>1 DEF Readable
    <3> QED
      BY <3>1, <3>2 DEF IInv, OnlyTheEndIsTorn
  <2> QED
    BY <2>1, <2>2, <1>3 DEF Readable
<1>8. promised <= Readable' /\ Readable' <= Readable
  <2>1. promised <= Readable'
    BY <1>2 DEF IInv, Kept
  <2>2. Readable \in Nat /\ Readable' \in Nat
    BY <1>3, <1>6, FoundType
  <2> QED
    BY <2>1, <2>2, <1>7
<1>9. Found' = SubSeq(Found, 1, Readable')
  <2>1. Found \in Seq(Events) /\ Len(Found) = Readable
    BY FoundType
  <2>2. Readable' \in 0 .. Len(Found)
    BY <1>6, <1>8, <2>1
  <2>3. /\ SubSeq(Found, 1, Readable') \in Seq(Events)
        /\ Len(SubSeq(Found, 1, Readable')) = Readable'
        /\ \A k \in 1 .. Readable' : SubSeq(Found, 1, Readable')[k] = Found[k]
    BY <2>1, <2>2, Front
  <2>4. SubSeq(Found, 1, Readable') = [k \in 1 .. Readable' |-> SubSeq(Found, 1, Readable')[k]]
    BY <2>3, AsFunction
  <2>5. \A k \in 1 .. Readable' : SubSeq(Found, 1, Readable')[k] = file'[k].event
    <3> SUFFICES ASSUME NEW k \in 1 .. Readable'
                 PROVE  SubSeq(Found, 1, Readable')[k] = file'[k].event
      OBVIOUS
    <3>1. SubSeq(Found, 1, Readable')[k] = Found[k]
      BY <2>3
    <3>2. k \in 1 .. Readable /\ k \in 1 .. n
      BY <1>3, <1>6, <1>7
    <3>3. Found[k] = file[k].event
      BY <3>2 DEF Found
    <3>4. file'[k] = file[k]
      BY <3>2, <1>5
    <3> QED
      BY <3>1, <3>3, <3>4
  <2>6. Found' = [k \in 1 .. Readable' |-> file'[k].event]
    BY DEF Found
  <2> QED
    BY <2>4, <2>5, <2>6
<1>10. Readable' \in promised .. Len(Found)
  BY <1>3, <1>6, <1>8, FoundType
<1> QED
  BY <1>2, <1>9, <1>10 DEF Promises!Lose, Found

LEMMA StepRefines ==
    ASSUME IInv, IInv', [LogNext]_logVars
    PROVE  [Promises!Next]_<< Found, promised >>
<1> USE DEF Promises!Next
<1>1. ASSUME NEW r \in Runs, NEW e \in Events, Write(r, e) PROVE Promises!Next
  BY <1>1, WriteEnters
<1>2. CASE PowerFails
  BY <1>2, PowerLoses
<1>3. ASSUME NEW r \in Runs, WriteFails(r)
      PROVE  Promises!Promise \/ UNCHANGED << Found, promised >>
  <2>1. Readable = Len(file) /\ file' \in {file, Append(file, Torn)} /\ promised' = promised
    BY <1>3 DEF WriteFails, IInv, Clean
  <2>2. file \in Seq(Lines) /\ Torn \in Lines /\ Len(file) \in Nat
    BY DEF IInv, TypeOK, Lines
  <2>3. CASE file' = file
    BY <2>1, <2>3, SameLines DEF Readable
  <2>4. CASE file' = Append(file, Torn)
    <3>1. /\ Len(file') = Len(file) + 1 /\ file'[Len(file) + 1] = Torn
          /\ \A k \in 1 .. Len(file) : file'[k] = file[k]
      BY <2>2, <2>4, OneMore
    <3>2. Readable' = Len(file)
      BY <3>1, <2>2 DEF Readable
    <3> QED
      BY <3>1, <3>2, <2>1, SameLines
  <2> QED
    BY <2>1, <2>3, <2>4
<1>4. ASSUME NEW r \in Runs, Sync(r)
      PROVE  Promises!Promise \/ UNCHANGED << Found, promised >>
  <2>1. Readable = Len(file) /\ file' = file /\ promised' = Len(file)
    BY <1>4 DEF Sync, IInv, Clean
  <2> QED
    BY <2>1, SameLines DEF Readable
<1>5. ASSUME UNCHANGED << file, promised >>
      PROVE  Promises!Promise \/ UNCHANGED << Found, promised >>
  BY <1>5, SameLines DEF Readable
<1>6. ASSUME NEW r \in Runs, Open(r) \/ OpenFails(r) \/ SyncFails(r) \/ Close(r)
      PROVE  UNCHANGED << file, promised >>
  BY <1>6 DEF Open, OpenFails, SyncFails, Close
<1>7. CASE UNCHANGED logVars
  BY <1>5, <1>7 DEF logVars
<1> QED
  BY <1>1, <1>2, <1>3, <1>4, <1>5, <1>6, <1>7 DEF LogNext, AppendStep

-----------------------------------------------------------------------------
(* The results *)

\* The variables keep their types.
THEOREM LogType == LogSpec => []TypeOK
BY Invariant, PTL DEF IInv

\* Whatever fails, dies or overlaps, the file is a chain that open would accept, with at
\* most one line after it that is no record.
THEOREM ChainHolds == LogSpec => []OnlyTheEndIsTorn
BY Invariant, PTL DEF IInv

\* Whoever may append has the lock and knows the head of the file.
THEOREM HeadKnown == LogSpec => []HeadIsCurrent
BY Invariant, PTL DEF IInv

\* The chain is sound and every appender knows its head.
THEOREM ChainSound == LogSpec => []ChainIsSound
BY ChainHolds, HeadKnown, PTL DEF ChainIsSound

\* What append returned Ok for stays in the log, at its place, whatever fails afterwards.
THEOREM PromisesKept == LogSpec => KeepsItsPromises
<1>1. LogInit => Promises!Init
  BY StartsEmpty
<1>2. IInv /\ IInv' /\ [LogNext]_logVars =>
        [Promises!Next]_<< [k \in 1 .. Readable |-> file[k].event], promised >>
  BY StepRefines DEF Found
<1> QED
  BY <1>1, <1>2, Invariant, PTL DEF LogSpec, KeepsItsPromises, Promises!Spec

-----------------------------------------------------------------------------
(* Sessions over the log *)

FileRecords == [owner : Peers, state : {"part", "published", "gone"}]

\* The last line of the log, as the phase of the session that holds it says
Agrees(p, a) ==
    /\ p \in {"requesting", "prompt"} => a = "ConnectionRequested"
    /\ p = "rejecting" => a = "SessionRejected"
    /\ p \in {"accepting", "answering"} => a = "SessionAccepted"
    /\ p \in {"offering", "beginning"} => a = "FileOffered"
    /\ p \in {"operating", "finished", "discarded"} => a \in {"SessionAccepted", "FileOffered"}
    /\ p = "completing" => a = "FileCompleted"
    /\ p = "cancelling" => a = "FileCancelled"
    /\ p = "closing" => a \in {"SessionAccepted", "FileOffered", "FileCompleted", "FileCancelled"}
    /\ p = "disconnecting" => a = "SessionDisconnected"

HasLog(r) == log[r] \in {"ready", "writing"}
HasLine(r) == phase[r] \notin {"starting", "waiting", "ended"}

EndsWithIts ==
    \A r \in Runs : HasLog(r) /\ HasLine(r) =>
        /\ Len(file) > 0 /\ file[Len(file)] # Torn
        /\ \E a \in Actions :
            /\ file[Len(file)].event = Entry(r, a)
            /\ Agrees(phase[r], a)
            /\ phase[r] = "operating" /\ incoming[r] = None => a = "SessionAccepted"

Serving == Operating \cup {"answering"}

\* The acceptance of run r is in the part of the log that a power loss does not take
OnRecord(r) ==
    \E k \in 1 .. durable :
        /\ file[k].event = Entry(r, "SessionAccepted")
        /\ \A j \in k + 1 .. Len(file) :
            file[j] # Torn => file[j].event.action # "ConnectionRequested"

\* From the answer on the session has the log and is on record in it
Accepted == \A r \in Runs : phase[r] \in Serving => HasLog(r) /\ OnRecord(r)

HasFile == \A r \in Runs : incoming[r] # None => files[incoming[r]] \in FileRecords

SInv == IInv /\ SessionTypeOK /\ LogReadsAsSessions /\ EndsWithIts /\ Accepted /\ HasFile

-----------------------------------------------------------------------------
(* The log inside the session *)

LEMMA EntryIsEvent ==
    ASSUME NEW r \in Runs, NEW a \in Actions
    PROVE  /\ Entry(r, a) \in Events
           /\ Entry(r, a).actor = PeerOf[r] /\ Entry(r, a).action = a
BY SessionAssumption DEF Entry

\* Every step of a session is a step of the log or leaves it alone.
LEMMA StepIsLogStep == [Next]_vars => [LogNext]_logVars
<1> SUFFICES ASSUME [Next]_vars PROVE [LogNext]_logVars
  OBVIOUS
<1>1. CASE UNCHANGED vars
  BY <1>1 DEF vars
<1>2. CASE PowerOff
  BY <1>2 DEF PowerOff, LogNext
<1>3. ASSUME NEW r \in Runs,
             Start(r) \/ StartFails(r) \/ Logged(r) \/ NotLogged(r) \/ NotWritten(r) \/ Ends(r)
      PROVE  LogNext
  BY <1>3 DEF Start, StartFails, Logged, NotLogged, NotWritten, Ends, LogNext, AppendStep
<1>4. ASSUME NEW r \in Runs, NEW a \in Actions, NEW p, Note(r, a, p) PROVE LogNext
  BY <1>4, EntryIsEvent DEF Note, LogNext, AppendStep
<1>5. ASSUME NEW r \in Runs, Serve(r) PROVE [LogNext]_logVars
  BY <1>5, <1>4 DEF Serve, Request, Reject, Accept, Answer, Breaks, Disconnect, Actions
<1>6. ASSUME NEW r \in Runs, Operate(r) PROVE [LogNext]_logVars
  BY <1>6, <1>4 DEF Operate, Leave, FileOffer, Begin, Resume, Commit, Completed, Cancel,
                    Cancelled, Actions
<1> QED
  BY <1>1, <1>2, <1>3, <1>5, <1>6 DEF Next

\* Who appends has the log alone.
LEMMA Alone ==
    ASSUME IInv, NEW r \in Runs, HasLog(r)
    PROVE  \A q \in Runs \ {r} : ~HasLog(q) /\ log[q] # "failed"
BY DEF IInv, Locked, HasLog

\* What an append does to the log and to the runs that hold it.
LEMMA Noted ==
    ASSUME IInv, NEW r \in Runs, NEW a \in Actions, Write(r, Entry(r, a))
    PROVE  /\ Len(file) \in Nat /\ Len(file') = Len(file) + 1
           /\ \A k \in 1 .. Len(file) : file'[k] = file[k]
           /\ file'[Len(file')] # Torn /\ file'[Len(file')].event = Entry(r, a)
           /\ log[r] = "ready" /\ log' = [log EXCEPT ![r] = "writing"]
           /\ durable' = durable /\ durable \in 0 .. Len(file)
<1> DEFINE line == Line(r, Entry(r, a))
<1>1. /\ log[r] = "ready" /\ file' = Append(file, line)
      /\ log' = [log EXCEPT ![r] = "writing"] /\ durable' = durable
  BY DEF Write, LogTo
<1>2. line \in Records /\ line.event = Entry(r, a)
  BY EntryIsEvent DEF Line, Records, IInv, TypeOK, Heads
<1>3. file \in Seq(Lines) /\ line \in Lines
  BY <1>2 DEF IInv, TypeOK, Lines
<1> HIDE DEF line
<1>4. /\ Len(file') = Len(file) + 1 /\ Len(file) \in Nat
      /\ \A k \in 1 .. Len(file) : file'[k] = file[k]
      /\ file'[Len(file) + 1] = line
  BY <1>1, <1>3, OneMore
<1>5. line # Torn
  BY <1>2, NotARecord
<1> QED
  BY <1>1, <1>2, <1>4, <1>5 DEF IInv, TypeOK

-----------------------------------------------------------------------------
(* Types of the session *)

LEMMA PhasesAre ==
    /\ Phases = {"requesting", "rejecting", "accepting", "offering", "completing", "cancelling",
                 "disconnecting", "starting", "waiting", "prompt", "answering", "operating",
                 "beginning", "finished", "discarded", "closing", "ended"}
    /\ DOMAIN Recording = {"requesting", "rejecting", "accepting", "offering", "completing",
                           "cancelling", "disconnecting"}
BY DEF Phases, Recording

\* where a session goes when its record is synced
LEMMA AfterRecord ==
    /\ Recording["requesting"] = "prompt" /\ Recording["rejecting"] = "ended"
    /\ Recording["accepting"] = "answering" /\ Recording["offering"] = "beginning"
    /\ Recording["completing"] = "closing" /\ Recording["cancelling"] = "closing"
    /\ Recording["disconnecting"] = "ended"
BY DEF Recording

LEMMA FileTyped ==
    ASSUME SInv, NEW t \in Transfers, files[t] \in FileRecords,
           NEW state \in {"part", "published", "gone"},
           files' = [files EXCEPT ![t].state = state]
    PROVE  files' \in [Transfers -> FileRecords \cup {None}]
<1>1. files \in [Transfers -> FileRecords \cup {None}]
  BY DEF SInv, SessionTypeOK, FileRecords
<1>2. [files[t] EXCEPT !.state = state] \in FileRecords
  BY DEF FileRecords
<1> QED
  BY <1>1, <1>2

LEMMA TypesKept == SInv /\ [Next]_vars /\ TypeOK' => SessionTypeOK'
<1> SUFFICES ASSUME SInv, [Next]_vars, TypeOK' PROVE SessionTypeOK'
  OBVIOUS
<1>t. SessionTypeOK /\ files \in [Transfers -> FileRecords \cup {None}]
  BY DEF SInv, SessionTypeOK, FileRecords
<1> USE PhasesAre
<1>1. CASE UNCHANGED vars
  BY <1>1, <1>t DEF vars, sessionVars, SessionTypeOK
<1>2. CASE PowerOff
  BY <1>2, <1>t DEF PowerOff, SessionTypeOK
<1>3. ASSUME NEW r \in Runs, Start(r) \/ StartFails(r) \/ NotLogged(r) \/ NotWritten(r) \/ Ends(r)
      PROVE  SessionTypeOK'
  BY <1>3, <1>t DEF Start, StartFails, NotLogged, NotWritten, Ends, AfterError, PhaseTo, SessionTypeOK
<1>4. ASSUME NEW r \in Runs, Logged(r) PROVE SessionTypeOK'
  BY <1>4, <1>t, AfterRecord DEF Logged, PhaseTo, SessionTypeOK
<1>5. ASSUME NEW r \in Runs, Serve(r) PROVE SessionTypeOK'
  <2>1. CASE Request(r)
    BY <1>t, <2>1 DEF Request, Note, PhaseTo, SessionTypeOK
  <2>2. CASE Reject(r) \/ Accept(r)
    BY <1>t, <2>2 DEF Reject, Accept, Note, PhaseTo, Consent, SessionTypeOK
  <2>3. CASE Answer(r) \/ Breaks(r)
    BY <1>t, <2>3 DEF Answer, Breaks, PhaseTo, SessionTypeOK
  <2>4. CASE Disconnect(r)
    BY <1>t, <2>4 DEF Disconnect, Note, PhaseTo, Consent, Works, SessionTypeOK
  <2> QED
    BY <1>5, <2>1, <2>2, <2>3, <2>4 DEF Serve
<1>6. ASSUME NEW r \in Runs, Operate(r) PROVE SessionTypeOK'
  <2>1. CASE Leave(r) \/ FileOffer(r) \/ Completed(r) \/ Cancelled(r)
    BY <1>t, <2>1 DEF Leave, FileOffer, Completed, Cancelled, Note, PhaseTo, SessionTypeOK
  <2>2. CASE Begin(r)
    <3>1. ASSUME NEW t \in Transfers
          PROVE  [owner |-> PeerOf[r], state |-> "part"] \in FileRecords
      BY SessionAssumption DEF FileRecords
    <3>2. files' \in [Transfers -> FileRecords \cup {None}]
      BY <1>t, <2>2, <3>1 DEF Begin
    <3>3. incoming' \in [Runs -> Transfers \cup {None}] /\ phase' \in [Runs -> Phases]
      BY <1>t, <2>2 DEF Begin, Works, PhaseTo, SessionTypeOK
    <3> QED
      BY <1>t, <2>2, <3>2, <3>3 DEF Begin, SessionTypeOK, FileRecords
  <2>3. CASE Resume(r)
    BY <1>t, <2>3 DEF Resume, Works, SessionTypeOK
  <2>4. CASE Commit(r) \/ Cancel(r)
    <3>1. incoming[r] \in Transfers /\ files[incoming[r]] \in FileRecords
      BY <1>t, <2>4 DEF Commit, Cancel, SInv, HasFile, SessionTypeOK
    <3>2. \/ files' = files
          \/ files' = [files EXCEPT ![incoming[r]].state = "published"]
          \/ files' = [files EXCEPT ![incoming[r]].state = "gone"]
      BY <2>4 DEF Commit, Cancel, File
    <3>3. files' \in [Transfers -> FileRecords \cup {None}]
      BY <1>t, <3>1, <3>2, FileTyped
    <3>4. incoming' \in [Runs -> Transfers \cup {None}] /\ phase' \in [Runs -> Phases]
      BY <1>t, <2>4 DEF Commit, Cancel, Works, PhaseTo, SessionTypeOK
    <3> QED
      BY <1>t, <2>4, <3>3, <3>4 DEF Commit, Cancel, SessionTypeOK, FileRecords
  <2> QED
    BY <1>6, <2>1, <2>2, <2>3, <2>4 DEF Operate
<1> QED
  BY <1>1, <1>2, <1>3, <1>4, <1>5, <1>6 DEF Next

\* A file that was begun stays a file.
LEMMA FilesKept == SInv /\ [Next]_vars => HasFile'
<1> SUFFICES ASSUME SInv, [Next]_vars PROVE HasFile'
  OBVIOUS
<1>t. HasFile /\ SessionTypeOK /\ files \in [Transfers -> FileRecords \cup {None}]
  BY DEF SInv, SessionTypeOK, FileRecords
<1>1. CASE UNCHANGED << incoming, files >>
  BY <1>1, <1>t DEF HasFile
<1>2. ASSUME NEW r \in Runs, Disconnect(r) PROVE HasFile'
  BY <1>2, <1>t DEF Disconnect, Works, HasFile, SessionTypeOK
<1>3. ASSUME NEW r \in Runs, Resume(r) PROVE HasFile'
  BY <1>3, <1>t DEF Resume, Works, HasFile, SessionTypeOK
<1>4. ASSUME NEW r \in Runs, Begin(r) PROVE HasFile'
  <2>1. [owner |-> PeerOf[r], state |-> "part"] \in FileRecords
    BY SessionAssumption DEF FileRecords
  <2> QED
    BY <1>4, <1>t, <2>1 DEF Begin, Works, HasFile, SessionTypeOK
<1>5. ASSUME NEW r \in Runs, Commit(r) \/ Cancel(r) PROVE HasFile'
  <2>1. incoming[r] \in Transfers /\ files[incoming[r]] \in FileRecords
    BY <1>t, <1>5 DEF Commit, Cancel, HasFile, SessionTypeOK
  <2>2. \/ files' = files
        \/ files' = [files EXCEPT ![incoming[r]].state = "published"]
        \/ files' = [files EXCEPT ![incoming[r]].state = "gone"]
    BY <1>5 DEF Commit, Cancel, File
  <2>3. \A t \in Transfers : files[t] \in FileRecords => files'[t] \in FileRecords
    BY <1>t, <2>1, <2>2 DEF FileRecords
  <2>4. incoming' = [incoming EXCEPT ![r] = None]
    BY <1>5 DEF Commit, Cancel, Works
  <2> QED
    BY <1>t, <2>3, <2>4 DEF HasFile, SessionTypeOK
<1>6. ASSUME NEW r \in Runs, ~Disconnect(r), ~Resume(r), ~Begin(r), ~Commit(r), ~Cancel(r),
             Serve(r) \/ Operate(r)
      PROVE  UNCHANGED << incoming, files >>
  BY <1>6 DEF Serve, Operate, Request, Reject, Accept, Answer, Breaks, Leave, FileOffer, Completed,
              Cancelled
<1> QED
  BY <1>1, <1>2, <1>3, <1>4, <1>5, <1>6 DEF Next, vars, sessionVars, PowerOff, Start, StartFails,
     Logged, NotLogged, NotWritten, Ends

-----------------------------------------------------------------------------
(* What the steps of one run do to the log and to what it says of sessions *)

Sessions == LogReadsAsSessions /\ EndsWithIts /\ Accepted

\* A run records what may follow its last record.
LEMMA NoteKeeps ==
    ASSUME SInv, NEW r \in Runs, NEW a \in Actions, NEW p \in Phases, Note(r, a, p),
           \/ a = "ConnectionRequested"
           \/ /\ Len(file) > 0 /\ file[Len(file)] # Torn
              /\ \E b \in Follows[a] : file[Len(file)].event = Entry(r, b) /\ b \in Actions,
           Agrees(p, a), p # "operating",
           p \in Serving => phase[r] \in Serving /\ a # "ConnectionRequested"
    PROVE  Sessions'
<1>1. /\ Len(file) \in Nat /\ Len(file') = Len(file) + 1
      /\ \A k \in 1 .. Len(file) : file'[k] = file[k]
      /\ file'[Len(file')] # Torn /\ file'[Len(file')].event = Entry(r, a)
      /\ log[r] = "ready" /\ log' = [log EXCEPT ![r] = "writing"]
      /\ durable' = durable /\ durable \in 0 .. Len(file)
  BY Noted DEF SInv, Note
<1>2. phase' = [phase EXCEPT ![r] = p] /\ phase \in [Runs -> Phases] /\ log \in [Runs -> LogState]
  BY DEF Note, PhaseTo, SInv, SessionTypeOK, TypeOK
<1>3. \A q \in Runs \ {r} : ~HasLog(q) /\ ~HasLog(q)' /\ phase[q] \notin Serving
  <2>1. HasLog(r) /\ \A q \in Runs \ {r} : ~HasLog(q)
    BY <1>1, Alone DEF HasLog, SInv
  <2> QED
    BY <1>1, <1>2, <2>1 DEF HasLog, SInv, Accepted
<1>4. LogReadsAsSessions'
  <2> SUFFICES ASSUME NEW k \in 1 .. Len(file'), file'[k] # Torn,
                      file'[k].event.action # "ConnectionRequested"
               PROVE  /\ k > 1 /\ file'[k - 1] # Torn
                      /\ file'[k - 1].event.actor = file'[k].event.actor
                      /\ file'[k - 1].event.action \in Follows[file'[k].event.action]
    BY DEF LogReadsAsSessions
  <2>1. CASE k \in 1 .. Len(file)
    <3>1. file[k] # Torn /\ file[k].event.action # "ConnectionRequested" /\ file'[k] = file[k]
      BY <1>1, <2>1
    <3>2. /\ k > 1 /\ file[k - 1] # Torn
          /\ file[k - 1].event.actor = file[k].event.actor
          /\ file[k - 1].event.action \in Follows[file[k].event.action]
      BY <2>1, <3>1 DEF SInv, LogReadsAsSessions
    <3>3. k - 1 \in 1 .. Len(file)
      BY <1>1, <2>1, <3>2
    <3> QED
      BY <1>1, <3>1, <3>2, <3>3
  <2>2. CASE k = Len(file) + 1
    <3>1. file'[k].event = Entry(r, a) /\ a # "ConnectionRequested"
      BY <1>1, <2>2, EntryIsEvent
    <3>2. /\ Len(file) > 0 /\ file[Len(file)] # Torn
          /\ \E b \in Follows[a] : file[Len(file)].event = Entry(r, b) /\ b \in Actions
      BY <3>1
    <3>3. k > 1 /\ k - 1 = Len(file) /\ file'[k - 1] = file[Len(file)]
      BY <1>1, <2>2, <3>2
    <3> QED
      BY <3>1, <3>2, <3>3, EntryIsEvent
  <2> QED
    BY <1>1, <2>1, <2>2
<1>5. EndsWithIts'
  <2>1. /\ Len(file') > 0 /\ file'[Len(file')] # Torn
        /\ file'[Len(file')].event = Entry(r, a) /\ Entry(r, a)' = Entry(r, a)
        /\ phase'[r] = p
    BY <1>1, <1>2 DEF Entry
  <2> QED
    BY <1>3, <2>1 DEF EndsWithIts
<1>6. Accepted'
  <2> SUFFICES ASSUME phase'[r] \in Serving PROVE HasLog(r)' /\ OnRecord(r)'
    BY <1>2, <1>3 DEF Accepted
  <2>1. phase[r] \in Serving /\ a # "ConnectionRequested"
    BY <1>2
  <2>2. PICK k \in 1 .. durable :
          /\ file[k].event = Entry(r, "SessionAccepted")
          /\ \A j \in k + 1 .. Len(file) :
               file[j] # Torn => file[j].event.action # "ConnectionRequested"
    BY <2>1 DEF SInv, Accepted, OnRecord
  <2>3. k \in 1 .. Len(file) /\ k \in 1 .. durable' /\ file'[k].event = Entry(r, "SessionAccepted")'
    BY <1>1, <2>2 DEF Entry
  <2>4. ASSUME NEW j \in k + 1 .. Len(file'), file'[j] # Torn
        PROVE  file'[j].event.action # "ConnectionRequested"
    <3>1. CASE j \in 1 .. Len(file)
      BY <1>1, <2>2, <2>4, <3>1
    <3>2. CASE j = Len(file')
      BY <1>1, <2>1, <3>2, EntryIsEvent
    <3> QED
      BY <1>1, <2>3, <3>1, <3>2
  <2> QED
    BY <1>1, <1>2, <2>3, <2>4 DEF HasLog, OnRecord
<1> QED
  BY <1>4, <1>5, <1>6 DEF Sessions

\* A step that leaves the log alone only moves the session on.
LEMMA QuietKeeps ==
    ASSUME SInv, NEW r \in Runs, NEW p \in Phases, UNCHANGED logVars,
           phase' = [phase EXCEPT ![r] = p],
           \A q \in Runs \ {r} : incoming'[q] = incoming[q],
           p # "ended" =>
              /\ HasLine(r)
              /\ \A a \in Actions :
                    /\ Agrees(phase[r], a)
                    /\ phase[r] = "operating" /\ incoming[r] = None => a = "SessionAccepted"
                    => /\ Agrees(p, a)
                       /\ p = "operating" /\ incoming'[r] = None => a = "SessionAccepted",
           p \in Serving => phase[r] \in Serving
    PROVE  Sessions'
<1>1. /\ UNCHANGED << file, durable, log >>
      /\ phase'[r] = p /\ \A q \in Runs \ {r} : phase'[q] = phase[q]
  BY DEF logVars, SInv, SessionTypeOK
<1>2. LogReadsAsSessions'
  BY <1>1 DEF SInv, LogReadsAsSessions
<1>3. EndsWithIts'
  <2> SUFFICES ASSUME NEW q \in Runs, HasLog(q)', HasLine(q)'
               PROVE  /\ Len(file) > 0 /\ file[Len(file)] # Torn
                      /\ \E a \in Actions :
                           /\ file[Len(file)].event = Entry(q, a)
                           /\ Agrees(phase'[q], a)
                           /\ phase'[q] = "operating" /\ incoming'[q] = None => a = "SessionAccepted"
    BY <1>1 DEF EndsWithIts, Entry
  <2>1. HasLog(q) /\ HasLine(q)
    BY <1>1 DEF HasLog, HasLine
  <2>2. /\ Len(file) > 0 /\ file[Len(file)] # Torn
        /\ \E a \in Actions :
             /\ file[Len(file)].event = Entry(q, a)
             /\ Agrees(phase[q], a)
             /\ phase[q] = "operating" /\ incoming[q] = None => a = "SessionAccepted"
    BY <2>1 DEF SInv, EndsWithIts
  <2>3. CASE q = r
    BY <1>1, <2>2, <2>3 DEF HasLine
  <2>4. CASE q # r
    BY <1>1, <2>2, <2>4
  <2> QED
    BY <2>3, <2>4
<1>4. Accepted'
  BY <1>1 DEF SInv, Accepted, OnRecord, HasLog, Entry
<1> QED
  BY <1>2, <1>3, <1>4 DEF Sessions

\* A run that has no line in the log, or no longer the log, says nothing of it.
LEMMA LeavingKeeps ==
    ASSUME SInv, NEW r \in Runs, UNCHANGED << file, durable, incoming >>,
           \A q \in Runs \ {r} : log'[q] = log[q] /\ phase'[q] = phase[q],
           phase'[r] \notin Serving, ~HasLog(r)' \/ ~HasLine(r)'
    PROVE  Sessions'
<1>1. LogReadsAsSessions'
  BY DEF SInv, LogReadsAsSessions
<1>2. EndsWithIts'
  BY DEF SInv, EndsWithIts, HasLog, HasLine, Entry
<1>3. Accepted'
  BY DEF SInv, Accepted, OnRecord, HasLog, Entry
<1> QED
  BY <1>1, <1>2, <1>3 DEF Sessions

\* The record is synced: the session goes on with the line it wrote.
LEMMA LoggedKeeps ==
    ASSUME SInv, NEW r \in Runs, Logged(r)
    PROVE  Sessions'
<1>1. /\ log[r] = "writing" /\ log' = [log EXCEPT ![r] = "ready"] /\ file' = file
      /\ durable' = Len(file) /\ phase[r] \in DOMAIN Recording
      /\ phase' = [phase EXCEPT ![r] = Recording[phase[r]]] /\ incoming' = incoming
  BY DEF Logged, Sync, LogTo, PhaseTo
<1>2. /\ phase \in [Runs -> Phases] /\ log \in [Runs -> LogState] /\ Len(file) \in Nat
      /\ durable \in 0 .. Len(file) /\ phase' \in [Runs -> Phases]
  BY <1>1, AfterRecord, PhasesAre DEF SInv, SessionTypeOK, TypeOK
<1>3. HasLog(r) /\ HasLine(r)
  BY <1>1, PhasesAre DEF HasLog, HasLine
<1>4. /\ Len(file) > 0 /\ file[Len(file)] # Torn
      /\ \E a \in Actions : file[Len(file)].event = Entry(r, a) /\ Agrees(phase[r], a)
  BY <1>3 DEF SInv, EndsWithIts
<1>5. \A q \in Runs \ {r} : log'[q] = log[q] /\ phase'[q] = phase[q] /\ ~HasLog(q) /\ phase[q] \notin Serving
  <2>1. \A q \in Runs \ {r} : ~HasLog(q)
    BY <1>3, Alone DEF SInv
  <2> QED
    BY <1>1, <1>2, <2>1 DEF SInv, Accepted
<1>6. LogReadsAsSessions'
  BY <1>1 DEF SInv, LogReadsAsSessions
<1>7. EndsWithIts'
  <2>1. ASSUME NEW a \in Actions, Agrees(phase[r], a), phase'[r] # "ended"
        PROVE  Agrees(phase'[r], a) /\ phase'[r] # "operating"
    BY <1>1, <1>2, <2>1, AfterRecord, PhasesAre DEF Agrees
  <2>2. ASSUME HasLine(r)'
        PROVE  /\ Len(file) > 0 /\ file[Len(file)] # Torn /\ phase'[r] # "operating"
               /\ \E a \in Actions : file[Len(file)].event = Entry(r, a) /\ Agrees(phase'[r], a)
    BY <1>4, <2>1, <2>2 DEF HasLine
  <2> QED
    BY <1>1, <1>5, <2>2 DEF EndsWithIts, HasLog, Entry
<1>8. Accepted'
  <2> SUFFICES ASSUME phase'[r] \in Serving PROVE OnRecord(r)'
    BY <1>1, <1>2, <1>5 DEF Accepted, HasLog
  <2>1. CASE phase[r] = "accepting"
    <3>1. PICK a \in Actions : file[Len(file)].event = Entry(r, a) /\ Agrees(phase[r], a)
      BY <1>4
    <3>2. a = "SessionAccepted"
      BY <2>1, <3>1 DEF Agrees
    <3>3. Len(file) \in 1 .. durable' /\ file'[Len(file)].event = Entry(r, "SessionAccepted")'
      BY <1>1, <1>2, <1>4, <3>1, <3>2 DEF Entry
    <3>4. Len(file) + 1 .. Len(file') = {}
      BY <1>1, <1>2
    <3> QED
      BY <3>3, <3>4 DEF OnRecord
  <2>2. CASE phase[r] # "accepting"
    <3>1. phase[r] \in Serving
      BY <1>1, <1>2, <2>2, AfterRecord, PhasesAre DEF Serving, Operating
    <3>2. PICK k \in 1 .. durable :
            /\ file[k].event = Entry(r, "SessionAccepted")
            /\ \A j \in k + 1 .. Len(file) :
                 file[j] # Torn => file[j].event.action # "ConnectionRequested"
      BY <3>1 DEF SInv, Accepted, OnRecord
    <3>3. k \in 1 .. durable'
      BY <1>1, <1>2, <3>2
    <3> QED
      BY <1>1, <3>2, <3>3 DEF OnRecord, Entry
  <2> QED
    BY <2>1, <2>2
<1> QED
  BY <1>6, <1>7, <1>8 DEF Sessions

\* A torn line is no record, and the run that left it writes no other.
LEMMA NotWrittenKeeps ==
    ASSUME SInv, NEW r \in Runs, NotWritten(r)
    PROVE  Sessions'
<1>1. /\ log[r] = "ready" /\ log' = [log EXCEPT ![r] = "failed"] /\ incoming' = incoming
      /\ file' \in {file, Append(file, Torn)} /\ durable' = durable
      /\ phase' = [phase EXCEPT ![r] = AfterError(r)]
  BY DEF NotWritten, WriteFails, LogTo, PhaseTo
<1>2. /\ phase \in [Runs -> Phases] /\ log \in [Runs -> LogState]
      /\ file \in Seq(Lines) /\ Torn \in Lines
  BY DEF SInv, SessionTypeOK, TypeOK, Lines
<1>3. /\ log'[r] = "failed" /\ phase'[r] \in {"closing", "ended"}
      /\ \A q \in Runs \ {r} : log'[q] = log[q] /\ phase'[q] = phase[q]
  BY <1>1, <1>2 DEF AfterError
<1>4. CASE file' = file
  BY <1>1, <1>3, <1>4, LeavingKeeps DEF HasLog, Serving, Operating
<1>5. CASE file' = Append(file, Torn)
  <2>1. /\ Len(file') = Len(file) + 1 /\ Len(file) \in Nat
        /\ \A k \in 1 .. Len(file) : file'[k] = file[k]
        /\ file'[Len(file) + 1] = Torn
    BY <1>2, <1>5, OneMore
  <2>2. \A q \in Runs : ~HasLog(q)'
    <3>1. \A q \in Runs \ {r} : ~HasLog(q)
      BY <1>1, Alone DEF SInv, HasLog
    <3> QED
      BY <1>3, <3>1 DEF HasLog
  <2>3. LogReadsAsSessions'
    <3> SUFFICES ASSUME NEW k \in 1 .. Len(file'), file'[k] # Torn,
                        file'[k].event.action # "ConnectionRequested"
                 PROVE  /\ k > 1 /\ file'[k - 1] # Torn
                        /\ file'[k - 1].event.actor = file'[k].event.actor
                        /\ file'[k - 1].event.action \in Follows[file'[k].event.action]
      BY DEF LogReadsAsSessions
    <3>1. k \in 1 .. Len(file) /\ file'[k] = file[k]
      BY <2>1
    <3>2. /\ k > 1 /\ file[k - 1] # Torn
          /\ file[k - 1].event.actor = file[k].event.actor
          /\ file[k - 1].event.action \in Follows[file[k].event.action]
      BY <3>1 DEF SInv, LogReadsAsSessions
    <3>3. k - 1 \in 1 .. Len(file)
      BY <2>1, <3>1, <3>2
    <3> QED
      BY <2>1, <3>1, <3>2, <3>3
  <2>4. EndsWithIts'
    BY <2>2 DEF EndsWithIts
  <2>5. Accepted'
    <3>1. \A q \in Runs : phase'[q] \notin Serving
      <4>1. \A q \in Runs \ {r} : phase[q] \notin Serving
        BY <1>1, Alone DEF SInv, Accepted, HasLog
      <4> QED
        BY <1>3, <4>1 DEF Serving, Operating
    <3> QED
      BY <3>1 DEF Accepted
  <2> QED
    BY <2>3, <2>4, <2>5 DEF Sessions
<1> QED
  BY <1>1, <1>4, <1>5

\* A power loss leaves a log that was written before, perhaps with a torn line.
LEMMA PowerKeeps ==
    ASSUME SInv, PowerOff
    PROVE  Sessions'
<1>1. PICK n \in durable .. Len(file) :
        \/ file' = SubSeq(file, 1, n)
        \/ n < Len(file) /\ file' = Append(SubSeq(file, 1, n), Torn)
  BY DEF PowerOff, PowerFails
<1>2. file \in Seq(Lines) /\ Torn \in Lines /\ n \in 0 .. Len(file) /\ Len(file) \in Nat
  BY <1>1 DEF SInv, SessionTypeOK, TypeOK, Lines
<1> DEFINE front == SubSeq(file, 1, n)
<1>3. front \in Seq(Lines) /\ Len(front) = n /\ \A k \in 1 .. n : front[k] = file[k]
  BY <1>2, Front
<1>4. /\ Len(file') \in {n, n + 1} /\ \A k \in 1 .. n : file'[k] = file[k]
      /\ Len(file') = n + 1 => file'[n + 1] = Torn
  <2>1. CASE file' = front
    BY <2>1, <1>2, <1>3
  <2>2. CASE file' = Append(front, Torn)
    <3> HIDE DEF front
    <3>1. /\ Len(Append(front, Torn)) = n + 1
          /\ \A k \in 1 .. n : Append(front, Torn)[k] = front[k]
          /\ Append(front, Torn)[n + 1] = Torn
      BY <1>2, <1>3, OneMore
    <3> QED
      BY <2>2, <3>1, <1>2, <1>3
  <2> QED
    BY <1>1, <2>1, <2>2
<1>5. LogReadsAsSessions'
  <2> SUFFICES ASSUME NEW k \in 1 .. Len(file'), file'[k] # Torn,
                      file'[k].event.action # "ConnectionRequested"
               PROVE  /\ k > 1 /\ file'[k - 1] # Torn
                      /\ file'[k - 1].event.actor = file'[k].event.actor
                      /\ file'[k - 1].event.action \in Follows[file'[k].event.action]
    BY DEF LogReadsAsSessions
  <2>1. k \in 1 .. n /\ k \in 1 .. Len(file) /\ file'[k] = file[k]
    BY <1>2, <1>4
  <2>2. /\ k > 1 /\ file[k - 1] # Torn
        /\ file[k - 1].event.actor = file[k].event.actor
        /\ file[k - 1].event.action \in Follows[file[k].event.action]
    BY <2>1 DEF SInv, LogReadsAsSessions
  <2>3. k - 1 \in 1 .. n
    BY <1>2, <2>1, <2>2
  <2> QED
    BY <1>4, <2>1, <2>2, <2>3
<1>6. \A q \in Runs : ~HasLog(q)' /\ phase'[q] \in {"starting", "ended"}
  BY DEF PowerOff, PowerFails, HasLog
<1>7. EndsWithIts'
  BY <1>6 DEF EndsWithIts
<1>8. Accepted'
  BY <1>6 DEF Accepted, Serving, Operating
<1> QED
  BY <1>5, <1>7, <1>8 DEF Sessions

-----------------------------------------------------------------------------
(* Every action *)

\* What a session in some phase may record, follows what it recorded last.
LEMMA MayFollow ==
    ASSUME SInv, NEW r \in Runs, log[r] = "ready", HasLine(r), NEW a \in Actions,
           \A b \in Actions :
               Agrees(phase[r], b) /\ (phase[r] = "operating" /\ incoming[r] = None => b = "SessionAccepted")
               => b \in Follows[a]
    PROVE  /\ Len(file) > 0 /\ file[Len(file)] # Torn
           /\ \E b \in Follows[a] : file[Len(file)].event = Entry(r, b) /\ b \in Actions
BY DEF SInv, EndsWithIts, HasLog

LEMMA FollowsIs ==
    /\ Follows["SessionAccepted"] = {"ConnectionRequested"}
    /\ Follows["SessionRejected"] = {"ConnectionRequested"}
    /\ Follows["FileOffered"] = {"SessionAccepted"}
    /\ Follows["FileCompleted"] = {"SessionAccepted", "FileOffered"}
    /\ Follows["FileCancelled"] = {"SessionAccepted", "FileOffered"}
    /\ Follows["SessionDisconnected"] =
         {"SessionAccepted", "FileOffered", "FileCompleted", "FileCancelled"}
BY DEF Follows

LEMMA ServeKeeps ==
    ASSUME SInv, NEW r \in Runs, Serve(r)
    PROVE  Sessions'
<1> USE PhasesAre
<1>t. phase \in [Runs -> Phases]
  BY DEF SInv, SessionTypeOK
<1>1. CASE Request(r)
  <2>1. Note(r, "ConnectionRequested", "requesting")
    BY <1>1 DEF Request
  <2>2. Agrees("requesting", "ConnectionRequested") /\ "requesting" \notin Serving
        /\ "ConnectionRequested" \in Actions
    BY DEF Agrees, Serving, Operating, Actions
  <2> QED
    BY <2>1, <2>2, NoteKeeps
<1>2. CASE Reject(r)
  <2>1. Note(r, "SessionRejected", "rejecting") /\ phase[r] = "prompt" /\ log[r] = "ready"
    BY <1>2 DEF Reject, Note, Write
  <2>2. Agrees("rejecting", "SessionRejected") /\ "rejecting" \notin Serving
        /\ "SessionRejected" \in Actions
    BY DEF Agrees, Serving, Operating, Actions
  <2>3. \A b \in Actions : Agrees(phase[r], b) => b \in Follows["SessionRejected"]
    BY <2>1, FollowsIs DEF Agrees
  <2>4. /\ Len(file) > 0 /\ file[Len(file)] # Torn
        /\ \E b \in Follows["SessionRejected"] : file[Len(file)].event = Entry(r, b) /\ b \in Actions
    BY <2>1, <2>2, <2>3, MayFollow DEF HasLine
  <2> QED
    BY <2>1, <2>2, <2>4, NoteKeeps
<1>3. CASE Accept(r)
  <2>1. Note(r, "SessionAccepted", "accepting") /\ phase[r] = "prompt" /\ log[r] = "ready"
    BY <1>3 DEF Accept, Note, Write
  <2>2. Agrees("accepting", "SessionAccepted") /\ "accepting" \notin Serving
        /\ "SessionAccepted" \in Actions
    BY DEF Agrees, Serving, Operating, Actions
  <2>3. \A b \in Actions : Agrees(phase[r], b) => b \in Follows["SessionAccepted"]
    BY <2>1, FollowsIs DEF Agrees
  <2>4. /\ Len(file) > 0 /\ file[Len(file)] # Torn
        /\ \E b \in Follows["SessionAccepted"] : file[Len(file)].event = Entry(r, b) /\ b \in Actions
    BY <2>1, <2>2, <2>3, MayFollow DEF HasLine
  <2> QED
    BY <2>1, <2>2, <2>4, NoteKeeps
<1>4. CASE Answer(r)
  <2>1. /\ phase[r] = "answering" /\ phase' = [phase EXCEPT ![r] = "operating"]
        /\ UNCHANGED << logVars, incoming >>
    BY <1>4 DEF Answer, PhaseTo
  <2>2. \A a \in Actions : Agrees(phase[r], a) => Agrees("operating", a) /\ a = "SessionAccepted"
    BY <2>1 DEF Agrees
  <2>3. HasLine(r) /\ phase[r] \in Serving
    BY <2>1 DEF HasLine, Serving
  <2> QED
    BY <2>1, <2>2, <2>3, QuietKeeps
<1>5. CASE Breaks(r)
  <2>1. /\ phase' = [phase EXCEPT ![r] = "ended"] /\ UNCHANGED << logVars, incoming >>
    BY <1>5 DEF Breaks, PhaseTo
  <2>2. "ended" \notin Serving
    BY DEF Serving, Operating
  <2> QED
    BY <2>1, <2>2, QuietKeeps
<1>6. CASE Disconnect(r)
  <2>1. Note(r, "SessionDisconnected", "disconnecting") /\ phase[r] = "closing" /\ log[r] = "ready"
    BY <1>6 DEF Disconnect, Note, Write
  <2>2. Agrees("disconnecting", "SessionDisconnected") /\ "disconnecting" \notin Serving
        /\ "SessionDisconnected" \in Actions
    BY DEF Agrees, Serving, Operating, Actions
  <2>3. \A b \in Actions : Agrees(phase[r], b) => b \in Follows["SessionDisconnected"]
    BY <2>1, FollowsIs DEF Agrees
  <2>4. /\ Len(file) > 0 /\ file[Len(file)] # Torn
        /\ \E b \in Follows["SessionDisconnected"] : file[Len(file)].event = Entry(r, b) /\ b \in Actions
    BY <2>1, <2>2, <2>3, MayFollow DEF HasLine
  <2> QED
    BY <2>1, <2>2, <2>4, NoteKeeps
<1> QED
  BY <1>1, <1>2, <1>3, <1>4, <1>5, <1>6 DEF Serve

LEMMA OperateKeeps ==
    ASSUME SInv, NEW r \in Runs, Operate(r)
    PROVE  Sessions'
<1> USE PhasesAre
<1>t. phase \in [Runs -> Phases] /\ incoming \in [Runs -> Transfers \cup {None}]
  BY DEF SInv, SessionTypeOK
<1>1. CASE Leave(r)
  <2>1. /\ phase[r] = "operating" /\ phase' = [phase EXCEPT ![r] = "closing"]
        /\ UNCHANGED << logVars, incoming >>
    BY <1>1 DEF Leave, PhaseTo
  <2>2. \A a \in Actions : Agrees(phase[r], a) => Agrees("closing", a)
    BY <2>1 DEF Agrees
  <2>3. HasLine(r) /\ "closing" \notin Serving
    BY <2>1 DEF HasLine, Serving, Operating
  <2> QED
    BY <2>1, <2>2, <2>3, QuietKeeps
<1>2. CASE FileOffer(r)
  <2>1. /\ Note(r, "FileOffered", "offering") /\ phase[r] = "operating" /\ incoming[r] = None
        /\ log[r] = "ready"
    BY <1>2 DEF FileOffer, Note, Write
  <2>2. Agrees("offering", "FileOffered") /\ phase[r] \in Serving /\ "FileOffered" \in Actions
    BY <2>1 DEF Agrees, Serving, Operating, Actions
  <2>4. /\ Len(file) > 0 /\ file[Len(file)] # Torn
        /\ \E b \in Follows["FileOffered"] : file[Len(file)].event = Entry(r, b) /\ b \in Actions
    BY <2>1, <2>2, FollowsIs, MayFollow DEF HasLine
  <2> QED
    BY <2>1, <2>2, <2>4, NoteKeeps
<1>3. CASE Begin(r)
  <2>1. phase[r] = "beginning" /\ UNCHANGED logVars
    BY <1>3 DEF Begin
  <2>2. HasLine(r) /\ phase[r] \in Serving /\ "closing" \notin Serving
    BY <2>1 DEF HasLine, Serving, Operating
  <2>3. \A a \in Actions : Agrees(phase[r], a) => Agrees("operating", a) /\ Agrees("closing", a)
    BY <2>1 DEF Agrees
  <2>4. CASE phase' = [phase EXCEPT ![r] = "closing"] /\ incoming' = incoming
    BY <2>1, <2>2, <2>3, <2>4, QuietKeeps
  <2>5. ASSUME NEW t \in Transfers, phase' = [phase EXCEPT ![r] = "operating"],
               incoming' = [incoming EXCEPT ![r] = t]
        PROVE  Sessions'
    <3>1. incoming'[r] # None /\ \A q \in Runs \ {r} : incoming'[q] = incoming[q]
      BY <1>t, <2>5, SessionAssumption
    <3> QED
      BY <2>1, <2>2, <2>3, <2>5, <3>1, QuietKeeps
  <2> QED
    BY <1>3, <2>4, <2>5 DEF Begin, PhaseTo, Works
<1>4. CASE Resume(r)
  <2>1. PICK t \in Transfers : incoming' = [incoming EXCEPT ![r] = t]
    BY <1>4 DEF Resume, Works
  <2>2. phase[r] = "operating" /\ phase' = [phase EXCEPT ![r] = "operating"] /\ UNCHANGED logVars
    BY <1>4, <1>t DEF Resume
  <2>3. incoming'[r] # None /\ \A q \in Runs \ {r} : incoming'[q] = incoming[q]
    BY <1>t, <2>1, SessionAssumption
  <2>4. HasLine(r) /\ phase[r] \in Serving
    BY <2>2 DEF HasLine, Serving, Operating
  <2> QED
    BY <2>2, <2>3, <2>4, QuietKeeps
<1>5. CASE Commit(r) \/ Cancel(r)
  <2>1. /\ phase[r] = "operating" /\ UNCHANGED logVars
        /\ \E p \in {"finished", "discarded", "closing"} : phase' = [phase EXCEPT ![r] = p]
        /\ \A q \in Runs \ {r} : incoming'[q] = incoming[q]
    BY <1>5, <1>t DEF Commit, Cancel, PhaseTo, Works
  <2>2. HasLine(r) /\ phase[r] \in Serving
    BY <2>1 DEF HasLine, Serving, Operating
  <2>3. \A p \in {"finished", "discarded", "closing"} : \A a \in Actions :
            Agrees(phase[r], a) => Agrees(p, a)
    BY <2>1 DEF Agrees
  <2>4. PICK p \in {"finished", "discarded", "closing"} : phase' = [phase EXCEPT ![r] = p]
    BY <2>1
  <2>5. p \in Phases /\ p # "operating"
    BY <2>4
  <2> QED
    BY <2>1, <2>2, <2>3, <2>4, <2>5, QuietKeeps
<1>6. CASE Completed(r)
  <2>1. Note(r, "FileCompleted", "completing") /\ phase[r] = "finished" /\ log[r] = "ready"
    BY <1>6 DEF Completed, Note, Write
  <2>2. Agrees("completing", "FileCompleted") /\ phase[r] \in Serving /\ "FileCompleted" \in Actions
    BY <2>1 DEF Agrees, Serving, Operating, Actions
  <2>3. \A b \in Actions : Agrees(phase[r], b) => b \in Follows["FileCompleted"]
    BY <2>1, FollowsIs DEF Agrees
  <2>4. /\ Len(file) > 0 /\ file[Len(file)] # Torn
        /\ \E b \in Follows["FileCompleted"] : file[Len(file)].event = Entry(r, b) /\ b \in Actions
    BY <2>1, <2>2, <2>3, MayFollow DEF HasLine
  <2> QED
    BY <2>1, <2>2, <2>4, NoteKeeps
<1>7. CASE Cancelled(r)
  <2>1. Note(r, "FileCancelled", "cancelling") /\ phase[r] = "discarded" /\ log[r] = "ready"
    BY <1>7 DEF Cancelled, Note, Write
  <2>2. Agrees("cancelling", "FileCancelled") /\ phase[r] \in Serving /\ "FileCancelled" \in Actions
    BY <2>1 DEF Agrees, Serving, Operating, Actions
  <2>3. \A b \in Actions : Agrees(phase[r], b) => b \in Follows["FileCancelled"]
    BY <2>1, FollowsIs DEF Agrees
  <2>4. /\ Len(file) > 0 /\ file[Len(file)] # Torn
        /\ \E b \in Follows["FileCancelled"] : file[Len(file)].event = Entry(r, b) /\ b \in Actions
    BY <2>1, <2>2, <2>3, MayFollow DEF HasLine
  <2> QED
    BY <2>1, <2>2, <2>4, NoteKeeps
<1> QED
  BY <1>1, <1>2, <1>3, <1>4, <1>5, <1>6, <1>7 DEF Operate

LEMMA InitSInv == Init => SInv
<1> SUFFICES ASSUME Init PROVE SInv
  OBVIOUS
<1>1. IInv
  BY InitIInv DEF Init
<1>2. SessionTypeOK
  BY <1>1, PhasesAre DEF IInv, Init, SessionTypeOK
<1>3. LogReadsAsSessions
  BY DEF Init, LogInit, LogReadsAsSessions
<1> QED
  BY <1>1, <1>2, <1>3 DEF Init, SInv, EndsWithIts, HasLine, Accepted, Serving, Operating, HasFile

LEMMA StepSInv == SInv /\ [Next]_vars => SInv'
<1> SUFFICES ASSUME SInv, [Next]_vars PROVE SInv'
  OBVIOUS
<1>1. IInv'
  BY StepIsLogStep, StepIInv DEF SInv
<1>2. SessionTypeOK' /\ HasFile'
  BY <1>1, TypesKept, FilesKept DEF IInv
<1>3. Sessions'
  <2>1. CASE UNCHANGED vars
    BY <2>1 DEF vars, sessionVars, logVars, SInv, Sessions, LogReadsAsSessions, EndsWithIts,
                HasLog, HasLine, Accepted, OnRecord, Entry
  <2>2. ASSUME NEW r \in Runs, Start(r) PROVE Sessions'
    <3>1. /\ UNCHANGED << file, durable, incoming >> /\ phase' = [phase EXCEPT ![r] = "waiting"]
          /\ log' = [log EXCEPT ![r] = "ready"]
      BY <2>2 DEF Start, Open, PhaseTo, LogTo
    <3> QED
      BY <3>1, LeavingKeeps DEF SInv, SessionTypeOK, TypeOK, HasLine, Serving, Operating
  <2>3. ASSUME NEW r \in Runs, StartFails(r) \/ NotLogged(r) \/ Ends(r) PROVE Sessions'
    <3>1. /\ UNCHANGED << file, durable, incoming >>
          /\ \E p \in {"closing", "ended"} : phase' = [phase EXCEPT ![r] = p]
          /\ \E l \in {"failed", "closed"} : log' = [log EXCEPT ![r] = l]
      BY <2>3 DEF StartFails, NotLogged, Ends, OpenFails, SyncFails, Close, PhaseTo, LogTo, AfterError
    <3>2. /\ phase'[r] \in {"closing", "ended"} /\ log'[r] \in {"failed", "closed"}
          /\ \A q \in Runs \ {r} : log'[q] = log[q] /\ phase'[q] = phase[q]
      BY <3>1 DEF SInv, SessionTypeOK, TypeOK
    <3> QED
      BY <3>1, <3>2, LeavingKeeps DEF HasLog, Serving, Operating
  <2> QED
    BY <2>1, <2>2, <2>3, LoggedKeeps, NotWrittenKeeps, PowerKeeps, ServeKeeps, OperateKeeps DEF Next
<1> QED
  BY <1>1, <1>2, <1>3 DEF SInv, Sessions

-----------------------------------------------------------------------------
\* A session uses its log as AuditLog says: whatever serve and operate do, in any number of runs.
THEOREM UsesTheLog == Spec => LogSpec
<1>1. Init => LogInit
  BY DEF Init
<1> QED
  BY <1>1, StepIsLogStep, PTL DEF Spec, LogSpec

\* The strengthened invariant of all sessions and their log.
THEOREM SessionInvariant == Spec => []SInv
BY InitSInv, StepSInv, PTL DEF Spec

\* The log reads as one session after the other, each record following one it may follow, of the
\* same peer, through overlapping runs, deaths, torn lines and power losses (serve, operate).
THEOREM LogReads == Spec => []SessionsAreSound
<1>1. SInv => SessionsAreSound
  BY DEF SInv, SessionsAreSound
<1> QED
  BY <1>1, SessionInvariant, PTL

\* What operate does for a peer it does on a synced record of the acceptance (serve).
THEOREM OnlyOnRecord == Spec => []OperatesOnRecord
<1>1. SInv => OperatesOnRecord
  BY DEF SInv, Accepted, Serving, OnRecord, OperatesOnRecord
<1> QED
  BY <1>1, SessionInvariant, PTL

\* Under any sessions the file stays a chain but for a torn end (open, append).
THEOREM SessionsKeepTheChain == Spec => []ChainIsSound
<1>1. SInv => ChainIsSound
  BY DEF SInv, IInv, ChainIsSound
<1> QED
  BY <1>1, SessionInvariant, PTL

-----------------------------------------------------------------------------
(* What the log accounts for: lines and transfers *)

Begun == {t \in Transfers : files[t] # None}
Done  == {k \in 1 .. Len(file) : file[k] # Torn /\ file[k].event.action = "FileCompleted"}

IsPublished(t, p) == files[t] = [owner |-> p, state |-> "published"]

\* What a session works on is a part of its peer, until the session is over
Working ==
    \A r \in Runs : incoming[r] # None =>
        \/ phase[r] \in {"closing", "ended"}
        \/ phase[r] \in Operating /\ files[incoming[r]] = [owner |-> PeerOf[r], state |-> "part"]

\* A session begins a transfer when its offer is the last line, and durable
BeginsSynced == \A r \in Runs : phase[r] = "beginning" => durable = Len(file)

\* f[t] is the line that offered t: durable, of its owner, and of no other transfer; an offer
\* whose transfer is yet to begin is not among them
Offers(f) ==
    /\ f \in [Begun -> 1 .. durable]
    /\ \A t, u \in Begun : f[t] = f[u] => t = u
    /\ \A t \in Begun :
        /\ file[f[t]] # Torn
        /\ file[f[t]].event = [actor |-> files[t].owner, action |-> "FileOffered"]
    /\ \A r \in Runs : phase[r] \in {"offering", "beginning"} =>
        \A t \in Begun : f[t] # Len(file)

\* g[k] is the transfer that line k calls completed: published, of the actor of the line, and of
\* no other line; a session that has yet to record one has one to record
Completions(g) ==
    /\ g \in [Done -> Transfers]
    /\ \A j, k \in Done : g[j] = g[k] => j = k
    /\ \A k \in Done : IsPublished(g[k], file[k].event.actor)
    /\ \A r \in Runs : phase[r] = "finished" =>
        \E t \in Transfers : IsPublished(t, PeerOf[r]) /\ \A k \in Done : g[k] # t

WorkInv ==
    /\ SInv /\ Working /\ BeginsSynced
    /\ \E f \in [Begun -> 1 .. durable] : Offers(f)
    /\ \E g \in [Done -> Transfers] : Completions(g)
-----------------------------------------------------------------------------
(* What a step does to the lines and to the transfers *)

\* What was synced stays, and only a write brings a new record.
LEMMA LinesStay ==
    ASSUME IInv, [LogNext]_logVars
    PROVE  /\ durable \in 0 .. Len(file) /\ durable' \in Nat /\ durable <= durable'
           /\ \A k \in 1 .. durable : k \in 1 .. Len(file') /\ file'[k] = file[k]
           /\ \A k \in 1 .. Len(file') :
                \/ file'[k] = Torn
                \/ k \in 1 .. Len(file) /\ file'[k] = file[k]
                \/ /\ k = Len(file) + 1
                   /\ \E r \in Runs, e \in Events : Write(r, e) /\ file'[k].event = e
<1>t. /\ file \in Seq(Lines) /\ Len(file) \in Nat /\ durable \in 0 .. Len(file) /\ Torn \in Lines
      /\ IInv' /\ durable' \in 0 .. Len(file')
  BY StepIInv DEF IInv, TypeOK, Lines
<1>1. CASE file' = file /\ durable' \in {durable, Len(file)}
  BY <1>t, <1>1
<1>2. ASSUME NEW r \in Runs, NEW e \in Events, Write(r, e)
      PROVE  /\ Len(file') = Len(file) + 1 /\ durable' = durable
             /\ \A k \in 1 .. Len(file) : file'[k] = file[k]
             /\ file'[Len(file) + 1].event = e
  <2>1. file' = Append(file, Line(r, e)) /\ durable' = durable
    BY <1>2 DEF Write
  <2>2. Line(r, e) \in Lines /\ Line(r, e).event = e
    BY DEF Line, Lines, Records, IInv, TypeOK, Heads
  <2> QED
    BY <1>t, <2>1, <2>2, OneMore
<1>3. CASE file' = Append(file, Torn) /\ durable' = durable
  BY <1>t, <1>3, OneMore
<1>4. CASE PowerFails
  <2>1. PICK n \in durable .. Len(file) :
          \/ file' = SubSeq(file, 1, n)
          \/ n < Len(file) /\ file' = Append(SubSeq(file, 1, n), Torn)
    BY <1>4 DEF PowerFails
  <2>2. n \in 0 .. Len(file) /\ durable' = Len(file')
    BY <1>4, <1>t, <2>1 DEF PowerFails
  <2>3. PICK front \in Seq(Lines) : /\ front = SubSeq(file, 1, n) /\ Len(front) = n
                                    /\ \A k \in 1 .. n : front[k] = file[k]
    BY ZenonT(30), <1>t, <2>2, Front
  <2>4. /\ Len(Append(front, Torn)) = n + 1
        /\ \A k \in 1 .. n : Append(front, Torn)[k] = front[k]
        /\ Append(front, Torn)[n + 1] = Torn
    BY <1>t, <2>3, OneMore
  <2>5. /\ Len(file') \in {n, n + 1} /\ \A k \in 1 .. n : file'[k] = file[k]
        /\ Len(file') = n + 1 => file'[n + 1] = Torn
    BY SMTT(30), <1>t, <2>1, <2>3, <2>4
  <2> QED
    BY <1>t, <2>1, <2>2, <2>5
<1>5. CASE \E r \in Runs, e \in Events : Write(r, e)
  BY <1>5, <1>2, <1>t
<1>6. CASE UNCHANGED logVars
  BY <1>6, <1>1 DEF logVars
<1> QED
  BY <1>1, <1>3, <1>4, <1>5, <1>6 DEF LogNext, Open, OpenFails, AppendStep, WriteFails, Sync,
     SyncFails, Close

\* Only one session serves at a time, and nothing happens to the log without it.
LEMMA ServesAlone ==
    ASSUME SInv, NEW r \in Runs, phase[r] \in Serving
    PROVE  /\ HasLog(r)
           /\ \A q \in Runs \ {r} : ~HasLog(q) /\ phase[q] \notin Serving
BY Alone DEF SInv, Accepted

\* The steps that write, each of the run that has the log.
LEMMA WhoWrites ==
    ASSUME SInv, [Next]_vars, NEW r \in Runs, NEW e \in Events, Write(r, e)
    PROVE  \/ Request(r) \/ Reject(r) \/ Accept(r) \/ Disconnect(r)
           \/ FileOffer(r) \/ Completed(r) \/ Cancelled(r)
<1>1. log \in [Runs -> LogState] /\ log[r] = "ready" /\ log'[r] = "writing"
  BY DEF Write, LogTo, SInv, IInv, TypeOK
<1>2. ASSUME NEW q \in Runs, q # r PROVE log'[q] = log[q]
  BY <1>1, <1>2 DEF Write, LogTo
<1>3. ASSUME NEW q \in Runs, NEW a \in Actions, NEW p, Note(q, a, p) PROVE q = r
  BY <1>1, <1>3 DEF Note, Write, LogTo
<1>4. ASSUME NEW q \in Runs,
             Start(q) \/ StartFails(q) \/ Logged(q) \/ NotLogged(q) \/ NotWritten(q) \/ Ends(q)
      PROVE  FALSE
  BY <1>1, <1>4 DEF Start, StartFails, Logged, NotLogged, NotWritten, Ends, Open, OpenFails, Sync,
                    SyncFails, WriteFails, Close, LogTo
<1>5. ~PowerOff
  BY <1>1 DEF PowerOff, PowerFails
<1>6. ~UNCHANGED log
  BY <1>1
<1>7. ASSUME NEW q \in Runs, Serve(q)
      PROVE  Request(r) \/ Reject(r) \/ Accept(r) \/ Disconnect(r)
  BY <1>7, <1>3, <1>6 DEF Serve, Request, Reject, Accept, Answer, Breaks, Disconnect, logVars, Actions
<1>8. ASSUME NEW q \in Runs, Operate(q)
      PROVE  FileOffer(r) \/ Completed(r) \/ Cancelled(r)
  BY <1>8, <1>3, <1>6 DEF Operate, Leave, FileOffer, Begin, Resume, Commit, Completed, Cancel,
                          Cancelled, logVars, Actions
<1>9. CASE UNCHANGED vars
  BY <1>6, <1>9 DEF vars, logVars
<1> QED
  BY <1>4, <1>5, <1>7, <1>8, <1>9 DEF Next

\* Only the record of a completion says FileCompleted.
LEMMA OtherRecords ==
    ASSUME SInv, [Next]_vars, NEW k \in 1 .. Len(file'),
           file'[k] # Torn, file'[k].event.action = "FileCompleted"
    PROVE  \/ k \in 1 .. Len(file) /\ file'[k] = file[k]
           \/ k = Len(file) + 1 /\ \E r \in Runs : Completed(r)
<1>1. CASE k = Len(file) + 1 /\ \E r \in Runs, e \in Events : Write(r, e) /\ file'[k].event = e
  <2>1. PICK r \in Runs, e \in Events : Write(r, e) /\ file'[k].event = e
    BY <1>1
  <2>2. ASSUME NEW a \in Actions, NEW p, Note(r, a, p) PROVE a = "FileCompleted"
    <3>1. /\ Len(file') = Len(file) + 1 /\ file'[Len(file')].event = Entry(r, a)
      BY <2>2, Noted DEF SInv, Note
    <3>2. file'[k].event = Entry(r, a)
      BY <1>1, <3>1
    <3> QED
      BY <3>2, EntryIsEvent
  <2>3. Completed(r)
    BY <2>1, <2>2, WhoWrites DEF Request, Reject, Accept, Disconnect, FileOffer, Cancelled, Actions
  <2> QED
    BY <1>1, <2>3
<1> QED
  BY <1>1, LinesStay, StepIsLogStep DEF SInv

\* Where sessions go that operate, or that are over.
LEMMA PhasesMove ==
    ASSUME SInv, [Next]_vars, NEW q \in Runs
    PROVE  /\ phase[q] \in Operating => phase'[q] \in Operating \cup {"closing", "ended"}
           /\ phase[q] \in {"closing", "ended"} =>
                phase'[q] \in {"closing", "ended"} \/ incoming'[q] = None
<1>t. phase \in [Runs -> Phases] /\ incoming \in [Runs -> Transfers \cup {None}]
  BY DEF SInv, SessionTypeOK
<1>1. CASE UNCHANGED phase
  BY <1>1
<1>2. ASSUME NEW r \in Runs, Start(r) \/ StartFails(r) \/ NotLogged(r) \/ NotWritten(r) \/ Ends(r)
      PROVE  /\ \A p \in Runs \ {r} : phase'[p] = phase[p]
             /\ phase[r] = "starting" \/ phase'[r] \in {"closing", "ended"}
  BY <1>2, <1>t DEF Start, StartFails, NotLogged, NotWritten, Ends, PhaseTo, AfterError
<1>3. ASSUME NEW r \in Runs, Logged(r)
      PROVE  /\ \A p \in Runs \ {r} : phase'[p] = phase[p]
             /\ phase[r] \in DOMAIN Recording /\ phase'[r] = Recording[phase[r]]
  BY <1>3, <1>t DEF Logged, PhaseTo
<1>4. ASSUME NEW r \in Runs, Serve(r)
      PROVE  /\ \A p \in Runs \ {r} : phase'[p] = phase[p]
             /\ \/ phase[r] \in {"waiting", "prompt", "answering"}
                \/ incoming'[r] = None /\ phase[r] = "closing"
  BY <1>4, <1>t DEF Serve, Request, Reject, Accept, Answer, Breaks, Disconnect, PhaseTo, Note, Works
<1>5. ASSUME NEW r \in Runs, Operate(r)
      PROVE  /\ \A p \in Runs \ {r} : phase'[p] = phase[p]
             /\ phase[r] \in Operating /\ phase'[r] \in Operating \cup {"closing"}
  BY <1>5, <1>t DEF Operate, Leave, FileOffer, Begin, Resume, Commit, Completed, Cancel, Cancelled,
                    PhaseTo, Note, Operating
<1>6. CASE PowerOff
  BY <1>6, <1>t DEF PowerOff, Operating
<1>7. ASSUME NEW r \in Runs, Logged(r)
      PROVE  /\ phase[q] \in Operating => phase'[q] \in Operating \cup {"closing", "ended"}
             /\ phase[q] \in {"closing", "ended"} => phase'[q] \in {"closing", "ended"}
  BY <1>7, <1>3, PhasesAre, AfterRecord DEF Operating
<1> QED
  BY <1>1, <1>2, <1>4, <1>5, <1>6, <1>7 DEF Next, vars, sessionVars, Operating

\* What a step does to the transfers: one is begun, one of the session that serves is published
\* or discarded, or nothing.
Begins(r, t) ==
    /\ phase[r] = "beginning" /\ files[t] = None
    /\ files' = [files EXCEPT ![t] = [owner |-> PeerOf[r], state |-> "part"]]
    /\ incoming' = [incoming EXCEPT ![r] = t]
    /\ PhaseTo(r, "operating")
    /\ UNCHANGED logVars
Settles(r, t) ==
    /\ phase[r] = "operating" /\ t = incoming[r]
    /\ files[t] = [owner |-> PeerOf[r], state |-> "part"]
    /\ \E s \in {"published", "gone"} :
        files' = [files EXCEPT ![t] = [owner |-> PeerOf[r], state |-> s]]
    /\ incoming' = [incoming EXCEPT ![r] = None]
    /\ UNCHANGED logVars

LEMMA FilesMove ==
    ASSUME SInv, Working, [Next]_vars
    PROVE  \/ files' = files
           \/ \E r \in Runs, t \in Transfers : Begins(r, t) \/ Settles(r, t)
<1>t. /\ phase \in [Runs -> Phases] /\ incoming \in [Runs -> Transfers \cup {None}]
      /\ files \in [Transfers -> FileRecords \cup {None}]
  BY DEF SInv, SessionTypeOK, FileRecords
<1>1. ASSUME NEW r \in Runs, Begin(r), files' # files
      PROVE  \E t \in Transfers : Begins(r, t)
  BY <1>1 DEF Begin, Works, Begins
<1>2. ASSUME NEW r \in Runs, Commit(r) \/ Cancel(r), files' # files
      PROVE  \E t \in Transfers : Settles(r, t)
  <2>1. phase[r] = "operating" /\ incoming[r] # None /\ UNCHANGED logVars
        /\ incoming' = [incoming EXCEPT ![r] = None]
    BY <1>2 DEF Commit, Cancel, Works
  <2>2. incoming[r] \in Transfers /\ files[incoming[r]] = [owner |-> PeerOf[r], state |-> "part"]
    BY <1>t, <2>1 DEF Working
  <2>3. PICK s \in {"published", "gone"} : files' = [files EXCEPT ![incoming[r]].state = s]
    BY <1>2 DEF Commit, Cancel, File
  <2>4. files' = [files EXCEPT ![incoming[r]] = [owner |-> PeerOf[r], state |-> s]]
    <3>1. [files[incoming[r]] EXCEPT !.state = s] = [owner |-> PeerOf[r], state |-> s]
      BY <2>2
    <3> QED
      BY <2>3, <3>1
  <2> QED
    BY <2>1, <2>2, <2>4 DEF Settles
<1>3. ASSUME NEW r \in Runs, Serve(r) \/ Operate(r), ~Begin(r), ~Commit(r), ~Cancel(r)
      PROVE  files' = files
  BY <1>3 DEF Serve, Operate, Request, Reject, Accept, Answer, Breaks, Disconnect, Leave, FileOffer,
              Resume, Completed, Cancelled
<1> QED
  BY <1>1, <1>2, <1>3 DEF Next, vars, sessionVars, PowerOff, Start, StartFails,
     Logged, NotLogged, NotWritten, Ends

LEMMA NoneIsNoFile == None \notin FileRecords
BY SessionAssumption DEF FileRecords

LEMMA WorkingKept == SInv /\ Working /\ [Next]_vars => Working'
<1> SUFFICES ASSUME SInv, Working, [Next]_vars, NEW q \in Runs, incoming'[q] # None
             PROVE  \/ phase'[q] \in {"closing", "ended"}
                    \/ /\ phase'[q] \in Operating
                       /\ files'[incoming'[q]] = [owner |-> PeerOf[q], state |-> "part"]
  BY DEF Working
<1>t. /\ phase \in [Runs -> Phases] /\ incoming \in [Runs -> Transfers \cup {None}]
      /\ files \in [Transfers -> FileRecords \cup {None}] /\ "operating" \in Operating
  BY DEF SInv, SessionTypeOK, FileRecords, Operating
<1>1. CASE incoming'[q] = incoming[q]
  <2>1. CASE phase[q] \in {"closing", "ended"}
    BY <2>1, PhasesMove
  <2>2. CASE /\ phase[q] \in Operating /\ incoming[q] \in Transfers
             /\ files[incoming[q]] = [owner |-> PeerOf[q], state |-> "part"]
    <3>1. phase'[q] \in Operating \cup {"closing", "ended"}
      BY <2>2, PhasesMove
    <3>2. files'[incoming[q]] = files[incoming[q]]
      <4>1. ASSUME NEW r \in Runs, NEW t \in Transfers, Begins(r, t) \/ Settles(r, t)
            PROVE  files'[incoming[q]] = files[incoming[q]]
        <5>1. phase[r] \in Serving /\ phase[q] \in Serving
          BY <2>2, <4>1 DEF Begins, Settles, Serving, Operating
        <5>2. q = r
          BY <5>1, ServesAlone
        <5>3. incoming'[r] \in {t, None} /\ (incoming'[r] = t => files[t] = None \/ t = None)
          BY <1>t, <4>1 DEF Begins, Settles
        <5>4. incoming[q] = t
          BY <1>1, <5>2, <5>3
        <5>5. CASE Begins(r, t)
          BY <2>2, <5>4, <5>5, NoneIsNoFile, SessionAssumption DEF Begins, FileRecords
        <5>6. CASE Settles(r, t)
          BY <1>1, <1>t, <5>2, <5>6 DEF Settles
        <5> QED
          BY <4>1, <5>5, <5>6
      <4> QED
        BY <4>1, FilesMove
    <3> QED
      BY <1>1, <2>2, <3>1, <3>2
  <2> QED
    BY <1>1, <1>t, <2>1, <2>2 DEF Working
<1>2. ASSUME NEW r \in Runs, Begin(r), incoming'[q] # incoming[q]
      PROVE  /\ phase'[q] \in Operating
             /\ files'[incoming'[q]] = [owner |-> PeerOf[q], state |-> "part"]
  <2>1. PICK t \in Transfers : /\ files' = [files EXCEPT ![t] = [owner |-> PeerOf[r], state |-> "part"]]
                               /\ incoming' = [incoming EXCEPT ![r] = t]
                               /\ phase' = [phase EXCEPT ![r] = "operating"]
    BY <1>2 DEF Begin, Works, PhaseTo
  <2> QED
    BY <1>t, <1>2, <2>1
<1>3. ASSUME NEW r \in Runs, Resume(r), incoming'[q] # incoming[q]
      PROVE  /\ phase'[q] \in Operating
             /\ files'[incoming'[q]] = [owner |-> PeerOf[q], state |-> "part"]
  <2>1. PICK t \in Transfers : /\ files[t] # None /\ files[t].state = "part"
                               /\ files[t].owner = PeerOf[r]
                               /\ incoming' = [incoming EXCEPT ![r] = t]
    BY <1>3 DEF Resume, Works
  <2>2. files[t] = [owner |-> PeerOf[r], state |-> "part"]
    BY <1>t, <2>1 DEF FileRecords
  <2>3. phase' = phase /\ files' = files /\ phase[r] = "operating"
    BY <1>3 DEF Resume
  <2> QED
    BY <1>t, <1>3, <2>1, <2>2, <2>3
<1>4. ASSUME NEW r \in Runs, Serve(r) \/ Operate(r), ~Begin(r), ~Resume(r)
      PROVE  incoming'[q] = incoming[q]
  BY <1>4, <1>t DEF Serve, Operate, Request, Reject, Accept, Answer, Breaks, Disconnect, Leave,
              FileOffer, Commit, Cancel, Completed, Cancelled, Works
<1> QED
  BY <1>1, <1>2, <1>3, <1>4 DEF Next, vars, sessionVars, PowerOff, Start, StartFails,
     Logged, NotLogged, NotWritten, Ends

\* An offer is recorded, then synced, and nothing comes after it until its transfer begins.
LEMMA OfferWaits ==
    ASSUME SInv, [Next]_vars, NEW r \in Runs, phase'[r] \in {"offering", "beginning"}
    PROVE  \/ Len(file') = Len(file) + 1 /\ phase'[r] = "offering"
           \/ /\ file' = file /\ phase[r] \in {"offering", "beginning"}
              /\ \/ durable' = Len(file)
                 \/ durable' = durable /\ phase'[r] = phase[r]
<1>t. phase \in [Runs -> Phases]
  BY DEF SInv, SessionTypeOK
<1>2. CASE phase'[r] # phase[r]
  <2>1. ASSUME FileOffer(r) PROVE Len(file') = Len(file) + 1 /\ phase'[r] = "offering"
    <3>1. Note(r, "FileOffered", "offering") /\ "FileOffered" \in Actions
      BY <2>1 DEF FileOffer, Actions
    <3> QED
      BY <3>1, <1>t, Noted DEF Note, PhaseTo, SInv
  <2>2. ASSUME Logged(r)
        PROVE  file' = file /\ phase[r] = "offering" /\ durable' = Len(file)
    BY <2>2, <1>t, PhasesAre, AfterRecord DEF Logged, Sync, PhaseTo
  <2>3. ASSUME NEW q \in Runs, Start(q) \/ StartFails(q) \/ NotLogged(q) \/ NotWritten(q) \/ Ends(q)
        PROVE  FALSE
    BY <2>3, <1>t, <1>2 DEF Start, StartFails, NotLogged, NotWritten, Ends, PhaseTo, AfterError
  <2>4. ASSUME NEW q \in Runs, Logged(q) \/ FileOffer(q) PROVE q = r
    BY <2>4, <1>t, <1>2 DEF Logged, FileOffer, Note, PhaseTo
  <2>5. ASSUME NEW q \in Runs, Serve(q) \/ Operate(q), ~FileOffer(q) PROVE FALSE
    BY <2>5, <1>t, <1>2 DEF Serve, Operate, Request, Reject, Accept, Answer, Breaks, Disconnect,
       Leave, Begin, Resume, Commit, Completed, Cancel, Cancelled, PhaseTo, Note
  <2>6. ~PowerOff
    BY <1>t, <1>2 DEF PowerOff
  <2> QED
    BY <1>2, <2>1, <2>2, <2>3, <2>4, <2>5, <2>6 DEF Next, vars, sessionVars
<1>3. CASE phase'[r] = phase[r]
  <2>1. /\ HasLog(r) /\ \A q \in Runs \ {r} : log[q] # "ready" /\ log[q] # "writing"
        /\ phase[r] \in {"offering", "beginning"}
    BY <1>3, ServesAlone DEF Serving, Operating, HasLog
  <2>2. ASSUME NEW q \in Runs, Logged(q) \/ NotLogged(q) PROVE q = r /\ phase'[r] # phase[r]
    BY <2>2, <2>1, <1>t, PhasesAre, AfterRecord
       DEF Logged, NotLogged, Sync, SyncFails, PhaseTo, AfterError, Operating
  <2>3. ASSUME NEW q \in Runs, NotWritten(q) PROVE q = r /\ phase'[r] # phase[r]
    BY <2>3, <2>1, <1>t DEF NotWritten, WriteFails, PhaseTo, Appends
  <2>4. ASSUME NEW q \in Runs, NEW e, Write(q, e) PROVE q = r
    BY <2>1, <2>4 DEF Write
  <2>5. ASSUME NEW q \in Runs, Serve(q) PROVE UNCHANGED << file, durable >>
    BY <1>3, <2>1, <2>4, <2>5, <1>t DEF Serve, Request, Reject, Accept, Answer, Breaks, Disconnect,
                                   Note, logVars
  <2>6. ASSUME NEW q \in Runs, Operate(q) PROVE UNCHANGED << file, durable >>
    BY <1>3, <2>1, <2>4, <2>6, <1>t DEF Operate, Leave, FileOffer, Begin, Resume, Commit, Completed,
                                   Cancel, Cancelled, Note, logVars
  <2>7. ~PowerOff
    BY <1>3, <2>1, <1>t DEF PowerOff
  <2>8. ASSUME NEW q \in Runs, Start(q) \/ StartFails(q) \/ Ends(q) PROVE UNCHANGED << file, durable >>
    BY <2>8 DEF Start, StartFails, Ends, Open, OpenFails, Close
  <2> QED
    BY <1>3, <2>1, <2>2, <2>3, <2>5, <2>6, <2>7, <2>8 DEF Next, vars, logVars
<1> QED
  BY <1>2, <1>3

LEMMA BeginsSyncedKept == SInv /\ BeginsSynced /\ [Next]_vars => BeginsSynced'
BY OfferWaits DEF BeginsSynced

\* A transfer that begins has the last line for its offer; all others keep theirs.
LEMMA OffersKept ==
    ASSUME SInv, Working, BeginsSynced, [Next]_vars, NEW f, Offers(f)
    PROVE  (\E h \in [Begun -> 1 .. durable] : Offers(h))'
<1>t. /\ phase \in [Runs -> Phases] /\ files \in [Transfers -> FileRecords \cup {None}]
      /\ Len(file) \in Nat
  BY DEF SInv, SessionTypeOK, FileRecords, IInv, TypeOK
<1>1. /\ durable \in 0 .. Len(file) /\ durable' \in Nat /\ durable <= durable'
      /\ \A k \in 1 .. durable : k \in 1 .. durable' /\ file'[k] = file[k] /\ k # Len(file) + 1
  BY LinesStay, StepIsLogStep DEF SInv
<1>2. /\ f \in [Begun -> 1 .. durable]
      /\ \A t, u \in Begun : f[t] = f[u] => t = u
      /\ \A t \in Begun :
          /\ file[f[t]] # Torn
          /\ file[f[t]].event = [actor |-> files[t].owner, action |-> "FileOffered"]
      /\ \A r \in Runs : phase[r] \in {"offering", "beginning"} =>
          \A t \in Begun : f[t] # Len(file)
  BY DEF Offers
<1>3. CASE Begun' = Begun /\ \A t \in Begun : files'[t].owner = files[t].owner
  <2>1. f \in [Begun' -> 1 .. durable'] /\ \A t \in Begun : f[t] \in 1 .. durable
    BY <1>1, <1>2, <1>3
  <2>2. ASSUME NEW t \in Begun
        PROVE  /\ file'[f[t]] # Torn
               /\ file'[f[t]].event = [actor |-> files'[t].owner, action |-> "FileOffered"]
    BY <1>1, <1>2, <1>3, <2>1
  <2>3. ASSUME NEW r \in Runs, phase'[r] \in {"offering", "beginning"}, NEW t \in Begun
        PROVE  f[t] # Len(file')
    BY <1>1, <1>2, <2>1, <2>3, OfferWaits
  <2>4. Offers(f)'
    BY <1>2, <1>3, <2>1, <2>2, <2>3 DEF Offers
  <2> QED
    BY <2>1, <2>4
<1>4. ASSUME NEW r \in Runs, NEW u \in Transfers, Begins(r, u)
      PROVE  (\E h \in [Begun -> 1 .. durable] : Offers(h))'
  <2>1. /\ phase[r] = "beginning" /\ files[u] = None /\ UNCHANGED << file, durable >>
        /\ files' = [files EXCEPT ![u] = [owner |-> PeerOf[r], state |-> "part"]]
        /\ phase' = [phase EXCEPT ![r] = "operating"]
    BY <1>4 DEF Begins, PhaseTo, logVars
  <2>2. HasLog(r) /\ \A q \in Runs \ {r} : phase[q] \notin {"offering", "beginning"}
    BY <2>1, ServesAlone DEF Serving, Operating
  <2>3. /\ Len(file) > 0 /\ file[Len(file)] # Torn
        /\ file[Len(file)].event = [actor |-> PeerOf[r], action |-> "FileOffered"]
    BY <2>1, <2>2 DEF SInv, EndsWithIts, HasLine, Agrees, Entry
  <2>4. durable = Len(file) /\ Len(file) \in 1 .. durable /\ \A t \in Begun : f[t] # Len(file)
    BY <1>t, <1>2, <2>1, <2>3 DEF BeginsSynced
  <2>5. u \notin Begun /\ Begun' = Begun \cup {u}
    <3>1. [owner |-> PeerOf[r], state |-> "part"] # None
      BY NoneIsNoFile, SessionAssumption DEF FileRecords
    <3> QED
      BY <1>t, <2>1, <3>1 DEF Begun
  <2>6. PICK h : h = [t \in Begun' |-> IF t = u THEN Len(file) ELSE f[t]]
    OBVIOUS
  <2>7. /\ h \in [Begun' -> 1 .. durable'] /\ h[u] = Len(file)
        /\ \A t \in Begun : h[t] = f[t]
    BY <1>2, <2>1, <2>4, <2>5, <2>6
  <2>8. \A t \in Begun : files'[t] = files[t]
    BY <2>1, <2>5, <1>t DEF Begun
  <2>9. files'[u].owner = PeerOf[r]
    BY <1>t, <2>1
  <2>10. \A s, t \in Begun' : h[s] = h[t] => s = t
    BY <1>2, <2>4, <2>5, <2>7
  <2>11. \A t \in Begun' :
          /\ file'[h[t]] # Torn
          /\ file'[h[t]].event = [actor |-> files'[t].owner, action |-> "FileOffered"]
    BY <1>2, <2>1, <2>3, <2>5, <2>7, <2>8, <2>9
  <2>12. \A q \in Runs : phase'[q] \notin {"offering", "beginning"}
    BY <1>t, <2>1, <2>2
  <2>13. Offers(h)'
    BY <2>7, <2>10, <2>11, <2>12 DEF Offers
  <2> QED
    BY <2>7, <2>13
<1>5. ASSUME NEW r \in Runs, NEW u \in Transfers, Settles(r, u)
      PROVE  Begun' = Begun /\ \A t \in Begun : files'[t].owner = files[t].owner
  <2>1. PICK s \in {"published", "gone"} :
          files' = [files EXCEPT ![u] = [owner |-> PeerOf[r], state |-> s]]
    BY <1>5 DEF Settles
  <2>2. /\ files[u] = [owner |-> PeerOf[r], state |-> "part"] /\ files[u] # None
        /\ files'[u] = [owner |-> PeerOf[r], state |-> s] /\ files'[u] # None
    BY <1>5, <1>t, <2>1, NoneIsNoFile, SessionAssumption DEF Settles, FileRecords
  <2> QED
    BY <1>t, <2>1, <2>2 DEF Begun
<1>6. CASE files' = files
  BY <1>3, <1>6 DEF Begun
<1> QED
  BY <1>3, <1>4, <1>5, <1>6, FilesMove

\* What is published stays so.
LEMMA PublishedStays ==
    ASSUME SInv, Working, [Next]_vars, NEW t \in Transfers, NEW p \in Peers,
           IsPublished(t, p)
    PROVE  IsPublished(t, p)'
<1>1. files[t] = [owner |-> p, state |-> "published"] /\ files[t].state = "published"
  BY DEF IsPublished
<1>t. files \in [Transfers -> FileRecords \cup {None}]
  BY DEF SInv, SessionTypeOK, FileRecords
<1>2. ASSUME NEW r \in Runs, NEW u \in Transfers, Begins(r, u) \/ Settles(r, u)
      PROVE  files'[t] = files[t]
  <2>1. CASE u = t /\ Begins(r, u)
    BY <1>1, <2>1, NoneIsNoFile DEF Begins, FileRecords
  <2>2. CASE u = t /\ Settles(r, u)
    <3>1. files[t].state = "part"
      BY <2>2 DEF Settles
    <3> QED
      BY <1>1, <3>1
  <2>3. CASE u # t
    BY <1>2, <1>t, <2>3 DEF Begins, Settles
  <2> QED
    BY <1>2, <2>1, <2>2, <2>3
<1> QED
  BY <1>1, <1>2, FilesMove DEF IsPublished

LEMMA ActorsArePeers ==
    ASSUME SInv, NEW k \in 1 .. Len(file), file[k] # Torn
    PROVE  file[k].event.actor \in Peers
<1>1. file \in Seq(Lines) /\ file[k] \in Lines
  BY DEF SInv, IInv, TypeOK, Lines
<1> QED
  BY <1>1, SessionAssumption DEF Lines, Records

\* A session that has published a file was working on it, and it was not published before.
LEMMA FinishedComes ==
    ASSUME SInv, Working, [Next]_vars, NEW r \in Runs, phase'[r] = "finished"
    PROVE  \/ phase[r] = "finished"
           \/ \E t \in Transfers : files[t].state = "part" /\ IsPublished(t, PeerOf[r])'
<1>t. /\ phase \in [Runs -> Phases] /\ incoming \in [Runs -> Transfers \cup {None}]
      /\ files \in [Transfers -> FileRecords \cup {None}]
  BY DEF SInv, SessionTypeOK, FileRecords
<1>1. ASSUME NEW q \in Runs, Commit(q), phase'[r] # phase[r]
      PROVE  \E t \in Transfers : files[t].state = "part" /\ IsPublished(t, PeerOf[r])'
  <2>1. q = r /\ phase[r] = "operating" /\ incoming[r] # None
    BY <1>1, <1>t DEF Commit, PhaseTo
  <2>2. incoming[r] \in Transfers /\ files[incoming[r]] = [owner |-> PeerOf[r], state |-> "part"]
    BY <1>t, <2>1 DEF Working
  <2>3. files' = [files EXCEPT ![incoming[r]].state = "published"]
    BY <1>1, <1>t, <2>1 DEF Commit, PhaseTo, File
  <2>4. files'[incoming[r]] = [owner |-> PeerOf[r], state |-> "published"]
    BY <1>t, <2>2, <2>3
  <2> QED
    BY <2>2, <2>4 DEF IsPublished
<1>2. ASSUME NEW q \in Runs, phase'[r] # phase[r],
             Start(q) \/ StartFails(q) \/ NotLogged(q) \/ NotWritten(q) \/ Ends(q)
      PROVE  FALSE
  BY <1>2, <1>t DEF Start, StartFails, NotLogged, NotWritten, Ends, PhaseTo, AfterError
<1>3. ASSUME NEW q \in Runs, phase'[r] # phase[r], Logged(q) PROVE FALSE
  BY <1>3, <1>t, PhasesAre, AfterRecord DEF Logged, PhaseTo
<1>4. ASSUME NEW q \in Runs, phase'[r] # phase[r], Serve(q) \/ Operate(q), ~Commit(q) PROVE FALSE
  BY <1>4, <1>t DEF Serve, Operate, Request, Reject, Accept, Answer, Breaks, Disconnect,
     Leave, FileOffer, Begin, Resume, Completed, Cancel, Cancelled, PhaseTo, Note
<1>5. CASE PowerOff
  BY <1>5, <1>t DEF PowerOff
<1> QED
  BY <1>1, <1>2, <1>3, <1>4, <1>5 DEF Next, vars, sessionVars

\* The record of a completion is of the transfer its session has published; all others keep theirs.
LEMMA CompletionsKept ==
    ASSUME SInv, Working, [Next]_vars, NEW g, Completions(g)
    PROVE  (\E h \in [Done -> Transfers] : Completions(h))'
<1>t. phase \in [Runs -> Phases] /\ Len(file) \in Nat
  BY DEF SInv, SessionTypeOK, IInv, TypeOK
<1>1. /\ g \in [Done -> Transfers]
      /\ \A j, k \in Done : g[j] = g[k] => j = k
      /\ \A k \in Done : IsPublished(g[k], file[k].event.actor)
      /\ \A r \in Runs : phase[r] = "finished" =>
          \E t \in Transfers : IsPublished(t, PeerOf[r]) /\ \A k \in Done : g[k] # t
  BY DEF Completions
<1>2. \A k \in Done' : \/ k \in Done /\ file'[k] = file[k]
                       \/ k = Len(file) + 1 /\ \E r \in Runs : Completed(r)
  BY OtherRecords DEF Done
<1>3. \A k \in Done : \E t \in Transfers, p \in Peers :
          g[k] = t /\ file[k].event.actor = p /\ files'[t] = [owner |-> p, state |-> "published"]
  <2> SUFFICES ASSUME NEW k \in Done, NEW t \in Transfers, NEW p \in Peers,
                      g[k] = t, file[k].event.actor = p
               PROVE  files'[t] = [owner |-> p, state |-> "published"]
    BY <1>1, ActorsArePeers DEF Done
  <2> QED
    BY <1>1, PublishedStays DEF IsPublished
<1>4. CASE \A r \in Runs : ~Completed(r)
  <2>1. PICK h : h = [k \in Done' |-> g[k]]
    OBVIOUS
  <2>2. /\ h \in [Done' -> Transfers]
        /\ \A k \in Done' : k \in Done /\ file'[k] = file[k] /\ h[k] = g[k]
    BY <1>1, <1>2, <1>4, <2>1
  <2>3. \A k \in Done' : files'[h[k]] = [owner |-> file'[k].event.actor, state |-> "published"]
    <3> SUFFICES ASSUME NEW k \in Done'
                 PROVE  files'[h[k]] = [owner |-> file'[k].event.actor, state |-> "published"]
      OBVIOUS
    <3>1. k \in Done /\ file'[k] = file[k] /\ h[k] = g[k]
      BY <2>2
    <3> QED
      BY <1>3, <3>1
  <2>4. ASSUME NEW r \in Runs, phase'[r] = "finished"
        PROVE  \E t \in Transfers : /\ files'[t] = [owner |-> PeerOf[r], state |-> "published"]
                                    /\ \A k \in Done' : h[k] # t
    <3>1. CASE phase[r] = "finished"
      <4>1. PICK t \in Transfers : IsPublished(t, PeerOf[r]) /\ \A k \in Done : g[k] # t
        BY <1>1, <3>1
      <4>2. PeerOf[r] \in Peers
        BY SessionAssumption
      <4>3. IsPublished(t, PeerOf[r])'
        BY <4>1, <4>2, PublishedStays DEF IsPublished
      <4> QED
        BY <2>2, <4>1, <4>3 DEF IsPublished
    <3>2. ASSUME NEW t \in Transfers, files[t].state = "part", IsPublished(t, PeerOf[r])'
          PROVE  \A k \in Done' : h[k] # t
      <4>1. \A k \in Done : files[g[k]].state = "published"
        <5> SUFFICES ASSUME NEW k \in Done PROVE files[g[k]].state = "published"
          OBVIOUS
        <5>1. IsPublished(g[k], file[k].event.actor)
          BY <1>1
        <5> QED
          BY <5>1 DEF IsPublished
      <4> QED
        BY <2>2, <3>2, <4>1
    <3> QED
      BY <2>4, <3>1, <3>2, FinishedComes DEF IsPublished
  <2>5. Completions(h)'
    BY ZenonT(30), <1>1, <2>2, <2>3, <2>4 DEF Completions, IsPublished
  <2> QED
    BY <2>2, <2>5
<1>5. ASSUME NEW r \in Runs, Completed(r)
      PROVE  (\E h \in [Done -> Transfers] : Completions(h))'
  <2>1. phase[r] = "finished" /\ Note(r, "FileCompleted", "completing") /\ "FileCompleted" \in Actions
    BY <1>5 DEF Completed, Actions
  <2>2. /\ file'[Len(file) + 1].event = Entry(r, "FileCompleted")
        /\ phase' = [phase EXCEPT ![r] = "completing"]
    BY <2>1, Noted DEF SInv, Note, PhaseTo
  <2>3. file'[Len(file) + 1].event.actor = PeerOf[r] /\ Len(file) + 1 \notin Done
    BY <1>t, <2>1, <2>2, EntryIsEvent DEF Done
  <2>4. PICK u \in Transfers : IsPublished(u, PeerOf[r]) /\ \A k \in Done : g[k] # u
    BY <1>1, <2>1
  <2>5. files'[u] = [owner |-> PeerOf[r], state |-> "published"]
    <3>1. PeerOf[r] \in Peers
      BY SessionAssumption
    <3> QED
      BY <2>4, <3>1, PublishedStays DEF IsPublished
  <2>6. PICK h : h = [k \in Done' |-> IF k \in Done THEN g[k] ELSE u]
    OBVIOUS
  <2>7. /\ h \in [Done' -> Transfers]
        /\ \A k \in Done' : \/ k \in Done /\ file'[k] = file[k] /\ h[k] = g[k]
                            \/ k = Len(file) + 1 /\ h[k] = u
    BY <1>1, <1>2, <2>3, <2>4, <2>6
  <2>8. \A j, k \in Done' : h[j] = h[k] => j = k
    BY <1>1, <2>3, <2>4, <2>7
  <2>9. \A k \in Done' : files'[h[k]] = [owner |-> file'[k].event.actor, state |-> "published"]
    <3> SUFFICES ASSUME NEW k \in Done'
                 PROVE  files'[h[k]] = [owner |-> file'[k].event.actor, state |-> "published"]
      OBVIOUS
    <3>1. CASE k \in Done /\ file'[k] = file[k] /\ h[k] = g[k]
      BY <1>3, <3>1
    <3>2. CASE k = Len(file) + 1 /\ h[k] = u
      BY <2>3, <2>5, <3>2
    <3> QED
      BY <2>7, <3>1, <3>2
  <2>10. \A q \in Runs : phase'[q] # "finished"
    <3>1. \A q \in Runs \ {r} : phase[q] \notin Serving
      BY <2>1, ServesAlone DEF Serving, Operating
    <3> QED
      BY <1>t, <2>2, <3>1 DEF Serving, Operating
  <2>11. Completions(h)'
    BY <2>7, <2>8, <2>9, <2>10 DEF Completions, IsPublished
  <2> QED
    BY <2>7, <2>11
<1> QED
  BY <1>4, <1>5

LEMMA InitWorkInv == Init => WorkInv
<1> SUFFICES ASSUME Init PROVE WorkInv
  OBVIOUS
<1>1. SInv /\ Working /\ BeginsSynced
  BY InitSInv DEF Init, LogInit, Working, BeginsSynced
<1>2. Begun = {} /\ Done = {} /\ \A r \in Runs : phase[r] = "starting"
  BY DEF Init, LogInit, Begun, Done
<1>3. PICK f : f = [x \in {} |-> x]
  OBVIOUS
<1>4. f \in [Begun -> 1 .. durable] /\ f \in [Done -> Transfers]
  BY <1>2, <1>3
<1>5. Offers(f) /\ Completions(f)
  BY <1>2, <1>4 DEF Offers, Completions
<1> QED
  BY <1>1, <1>4, <1>5 DEF WorkInv

LEMMA StepWorkInv == WorkInv /\ [Next]_vars => WorkInv'
BY StepSInv, WorkingKept, BeginsSyncedKept, OffersKept, CompletionsKept DEF WorkInv

LEMMA NoMoreThan ==
    ASSUME NEW S, NEW T, IsFiniteSet(T), NEW f, \A x \in S : f[x] \in T,
           \A x, y \in S : f[x] = f[y] => x = y
    PROVE  IsFiniteSet(S) /\ Cardinality(S) <= Cardinality(T)
<1>1. PICK h : h = [x \in S |-> f[x]]
  OBVIOUS
<1>2. h \in Injection(S, T)
  BY <1>1 DEF Injection, IsInjective
<1> QED
  BY <1>2, FS_Injection

\* The log accounts for what was done: what operate does it does on a synced acceptance, every
\* file that was published was offered by its peer, also in an earlier session, and none is
\* called completed that was not published, whatever dies, fails or is lost in between.
THEOREM LogAccounts == Spec => []LogAccountsForWork
<1>1. WorkInv => LogAccountsForWork
  <2> SUFFICES ASSUME WorkInv PROVE LogAccountsForWork
    OBVIOUS
  <2>t. /\ files \in [Transfers -> FileRecords \cup {None}] /\ durable \in 0 .. Len(file)
        /\ Len(file) \in Nat
    BY DEF WorkInv, SInv, SessionTypeOK, FileRecords, IInv, TypeOK
  <2>1. OperatesOnRecord
    BY DEF WorkInv, SInv, Accepted, Serving, OnRecord, OperatesOnRecord
  <2>2. ASSUME NEW p \in Peers
        PROVE  /\ IsFiniteSet(Published(p))
               /\ Cardinality(Published(p)) <= Cardinality(Entries(p, "FileOffered"))
    <3>1. PICK f \in [Begun -> 1 .. durable] : Offers(f)
      BY DEF WorkInv
    <3>2. IsFiniteSet(Entries(p, "FileOffered"))
      <4>1. IsFiniteSet(1 .. Len(file))
        BY <2>t, FS_Interval
      <4>2. Entries(p, "FileOffered") \in SUBSET (1 .. Len(file))
        BY DEF Entries
      <4> QED
        BY <4>1, <4>2, FS_Subset
    <3>3. ASSUME NEW t \in Published(p)
          PROVE  t \in Begun /\ f[t] \in Entries(p, "FileOffered")
      <4>1. t \in Begun /\ files[t].owner = p
        BY <3>3 DEF Published, Begun
      <4>2. f[t] \in 1 .. Len(file)
        BY <2>t, <3>1, <4>1
      <4> QED
        BY <3>1, <4>1, <4>2 DEF Offers, Entries
    <3>4. \A t, u \in Published(p) : f[t] = f[u] => t = u
      BY <3>1, <3>3 DEF Offers
    <3> QED
      BY <3>2, <3>3, <3>4, NoMoreThan
  <2>3. ASSUME NEW p \in Peers
        PROVE  Cardinality(Entries(p, "FileCompleted")) <= Cardinality(Published(p))
    <3>1. PICK g \in [Done -> Transfers] : Completions(g)
      BY DEF WorkInv
    <3>2. ASSUME NEW k \in Entries(p, "FileCompleted")
          PROVE  k \in Done /\ g[k] \in Published(p)
      <4>1. k \in Done /\ file[k].event.actor = p
        BY <3>2 DEF Entries, Done
      <4>2. g[k] \in Transfers /\ files[g[k]] = [owner |-> p, state |-> "published"]
        BY <3>1, <4>1 DEF Completions, IsPublished
      <4> QED
        BY <4>1, <4>2, NoneIsNoFile DEF Published, FileRecords
    <3>3. \A j, k \in Entries(p, "FileCompleted") : g[j] = g[k] => j = k
      BY <3>1, <3>2 DEF Completions
    <3> QED
      BY <2>2, <3>2, <3>3, NoMoreThan
  <2> QED
    BY <2>1, <2>2, <2>3 DEF LogAccountsForWork, PublishedWasOffered, CompletedWasPublished
<1> QED
  BY <1>1, InitWorkInv, StepWorkInv, PTL DEF Spec
=============================================================================
