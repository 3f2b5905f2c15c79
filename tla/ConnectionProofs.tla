-------------------------- MODULE ConnectionProofs ---------------------------
(***************************************************************************)
(* Proofs about Connection, for any jobs, durations, bytes and identities.  *)
(*                                                                          *)
(* One layer after the other has its invariant (JobsInv, PresenceInv,       *)
(* BridgeInv, ChannelInv), a lemma ...Keeps for each of its actions, and a  *)
(* lemma that says what the invariant means for its properties.  The        *)
(* theorems about all of them are at the end.                               *)
(***************************************************************************)
EXTENDS Connection, SequenceTheorems, FiniteSetTheorems, TLAPS

-----------------------------------------------------------------------------
(* Reaching the service *)

Says == {"challenge", "registered", "ack", "ready", "error"}

JobsShaped ==
    /\ pc \in [Jobs -> RC!Ends \cup RC!Opening \cup RC!Connected]
    /\ cancelled \in [Jobs -> BOOLEAN] /\ overdue \in [Jobs -> BOOLEAN] /\ resolver \in [Jobs -> BOOLEAN]
    /\ tried \in [Jobs -> 0 .. Addresses]
    /\ mail \in [Jobs -> Seq(Says)] /\ heard \in [Jobs -> Seq(Says)]
    /\ answer \in [Jobs -> {"none", "addresses", "error"}]
    /\ runs \in [Jobs -> 0 .. MaxRuns]
    /\ leftover \in Nat /\ inFlight \in 0 .. Resolvers

\* The jobs that hold a slot themselves, or by the thread they listen to
Holders == {j \in Jobs : resolver[j] \/ pc[j] = "reserved"}
Slots   == IsFiniteSet(Holders) /\ inFlight = leftover + Cardinality(Holders)

\* Whoever has a resolver thread waits for its answer, and there is none before
Waits ==
    \A j \in Jobs :
        /\ resolver[j] => pc[j] = "resolving" /\ answer[j] = "none"
        /\ pc[j] \in {"resolve", "reserved"} => answer[j] = "none"

\* The words that led a job to where it is
Introduced(h) ==
    /\ h # << >> /\ h[1] = "challenge"
    /\ \E r \in 2 .. Len(h) : h[r] = "registered" /\ \A k \in 2 .. Len(h) : k # r => h[k] = "ack"

Spoken ==
    \A j \in Jobs :
        /\ pc[j] \in RC!Opening \cup {"challenge"} => heard[j] = << >>
        /\ pc[j] = "register" =>
            /\ heard[j] # << >> /\ heard[j][1] = "challenge"
            /\ \A k \in 2 .. Len(heard[j]) : heard[j][k] = "ack"
        /\ pc[j] = "wait" => Introduced(heard[j])
        /\ pc[j] = "stream" =>
            \E h \in Seq(Says) : Introduced(h) /\ heard[j] = Append(h, "ready")

JobsInv == JobsShaped /\ Slots /\ Waits /\ Spoken

-----------------------------------------------------------------------------
LEMMA JobsInit == RC!ConstantsAssumption /\ RC!Init => JobsInv
<1> SUFFICES ASSUME RC!ConstantsAssumption, RC!Init PROVE JobsInv
  OBVIOUS
<1>1. JobsShaped
  BY DEF RC!Init, JobsShaped, RC!ConstantsAssumption, RC!Ends
<1>2. Slots
  <2>1. Holders = {}
    BY DEF RC!Init, Holders
  <2> QED
    BY <2>1, FS_EmptySet DEF RC!Init, Slots
<1>3. Waits /\ Spoken
  BY DEF RC!Init, Waits, Spoken, RC!Opening
<1> QED
  BY <1>1, <1>2, <1>3 DEF JobsInv

\* A slot that is handed on is still a slot.
LEMMA SlotsStay ==
    ASSUME Slots, Holders' = Holders, UNCHANGED << leftover, inFlight >>
    PROVE  Slots'
BY DEF Slots

\* A job stops holding a slot: it is left over, or free again.
LEMMA SlotReleased ==
    ASSUME Slots, JobsShaped, NEW j \in Holders, Holders' = Holders \ {j},
           leftover' \in Nat, inFlight' \in Int, inFlight' - leftover' = inFlight - leftover - 1
    PROVE  Slots'
<1>1. IsFiniteSet(Holders \ {j}) /\ Cardinality(Holders \ {j}) = Cardinality(Holders) - 1
  BY FS_RemoveElement DEF Slots
<1>2. Cardinality(Holders) \in Nat
  BY FS_CardinalityType DEF Slots
<1>3. inFlight' = leftover' + (Cardinality(Holders) - 1)
  BY <1>2 DEF Slots, JobsShaped
<1> QED
  BY <1>1, <1>3 DEF Slots

LEMMA SlotTaken ==
    ASSUME Slots, JobsShaped, NEW j, j \notin Holders, Holders' = Holders \cup {j},
           UNCHANGED leftover, inFlight' = inFlight + 1
    PROVE  Slots'
<1>1. IsFiniteSet(Holders \cup {j}) /\ Cardinality(Holders \cup {j}) = Cardinality(Holders) + 1
  BY FS_AddElement DEF Slots
<1>2. Cardinality(Holders) \in Nat
  BY FS_CardinalityType DEF Slots
<1>3. inFlight' = leftover' + (Cardinality(Holders) + 1)
  BY <1>2 DEF Slots, JobsShaped
<1> QED
  BY <1>1, <1>3 DEF Slots

\* Whoever abandons its resolver thread, if it has one, leaves it over.
LEMMA Abandoning ==
    ASSUME JobsInv, NEW j \in Jobs, NEW place, place # "reserved", pc[j] # "reserved",
           RC!Goes(j, place), RC!Abandon(j), UNCHANGED inFlight
    PROVE  /\ Slots' /\ leftover' \in Nat /\ resolver' \in [Jobs -> BOOLEAN] /\ ~resolver'[j]
           /\ \A i \in Jobs : i # j => resolver'[i] = resolver[i] /\ pc'[i] = pc[i]
<1> USE DEF JobsInv, JobsShaped, RC!Goes, RC!Abandon
<1>1. CASE resolver[j]
  <2>1. j \in Holders /\ Holders' = Holders \ {j} /\ leftover' = leftover + 1
    BY <1>1 DEF Holders
  <2> QED
    BY <2>1, SlotReleased
<1>2. CASE ~resolver[j]
  <2>1. Holders' = Holders /\ leftover' = leftover
    BY <1>2 DEF Holders
  <2> QED
    BY <2>1, SlotsStay
<1> QED
  BY <1>1, <1>2

-----------------------------------------------------------------------------
\* A job that gives up what it is doing
LEMMA GivingUpKeeps ==
    ASSUME RC!ConstantsAssumption, JobsInv, NEW j \in Jobs,
           RC!NoticeCancel(j) \/ RC!NoticeDeadline(j)
    PROVE  JobsInv'
<1> USE DEF JobsInv
<1>1. PICK place \in {"cancelled", "timeout"} : RC!Goes(j, place)
  BY DEF RC!NoticeCancel, RC!NoticeDeadline
<1>2. /\ pc[j] # "reserved" /\ RC!Abandon(j)
      /\ UNCHANGED << cancelled, overdue, tried, mail, heard, answer, runs, inFlight >>
  BY DEF RC!NoticeCancel, RC!NoticeDeadline, RC!Checked
<1>3. /\ Slots' /\ leftover' \in Nat /\ resolver' \in [Jobs -> BOOLEAN] /\ ~resolver'[j]
      /\ \A i \in Jobs : i # j => resolver'[i] = resolver[i] /\ pc'[i] = pc[i]
  BY <1>1, <1>2, Abandoning
<1>4. JobsShaped'
  BY <1>1, <1>2, <1>3 DEF JobsShaped, RC!Goes, RC!Ends
<1>6. pc'[j] = "cancelled" \/ pc'[j] = "timeout"
  BY <1>1 DEF RC!Goes, JobsShaped
<1>5. Waits'
  BY <1>2, <1>3, <1>6 DEF Waits
<1>7. Spoken'
  BY <1>2, <1>3, <1>6 DEF Spoken, RC!Opening
<1> QED
  BY <1>3, <1>4, <1>5, <1>7

\* A slot is taken, given back, or moves into the thread.
LEMMA SlotKeeps ==
    ASSUME RC!ConstantsAssumption, JobsInv, NEW j \in Jobs,
           RC!Reserve(j) \/ RC!SpawnFails(j) \/ RC!Spawn(j)
    PROVE  JobsInv'
<1> USE DEF JobsInv
<1>0. UNCHANGED << cancelled, overdue, tried, mail, heard, answer, runs >>
  BY DEF RC!Reserve, RC!SpawnFails, RC!Spawn
<1>1. CASE RC!Reserve(j) /\ inFlight < Resolvers
  <2> USE <1>1 DEF RC!Reserve, RC!Goes
  <2>1. pc[j] = "resolve" /\ pc' = [pc EXCEPT ![j] = "reserved"] /\ ~resolver[j]
    BY DEF Waits, JobsShaped
  <2>2. j \notin Holders /\ Holders' = Holders \cup {j}
    BY <2>1 DEF Holders, JobsShaped
  <2>3. Slots'
    BY <2>2, SlotTaken
  <2>4. inFlight' \in 0 .. Resolvers
    BY DEF JobsShaped, RC!ConstantsAssumption
  <2>5. JobsShaped'
    BY <1>0, <2>1, <2>4 DEF JobsShaped, RC!Opening
  <2>6. Waits' /\ Spoken'
    BY <1>0, <2>1 DEF Waits, Spoken, JobsShaped, RC!Opening
  <2> QED
    BY <2>3, <2>5, <2>6
<1>2. CASE RC!Reserve(j) /\ ~(inFlight < Resolvers)
  <2> USE <1>2 DEF RC!Reserve, RC!Goes
  <2>1. pc[j] = "resolve" /\ pc' = [pc EXCEPT ![j] = "failed"]
    OBVIOUS
  <2>2. Holders' = Holders
    BY <2>1 DEF Holders, JobsShaped
  <2>3. Slots'
    BY <2>2, SlotsStay
  <2>5. JobsShaped'
    BY <1>0, <2>1 DEF JobsShaped, RC!Ends
  <2>6. Waits' /\ Spoken'
    BY <1>0, <2>1 DEF Waits, Spoken, JobsShaped, RC!Opening
  <2> QED
    BY <2>3, <2>5, <2>6
<1>3. CASE RC!SpawnFails(j)
  <2> USE <1>3 DEF RC!SpawnFails, RC!Goes
  <2>1. pc[j] = "reserved" /\ pc' = [pc EXCEPT ![j] = "failed"] /\ ~resolver[j]
    BY DEF Waits, JobsShaped
  <2>2. j \in Holders /\ Holders' = Holders \ {j}
    BY <2>1 DEF Holders, JobsShaped
  <2>4. inFlight > 0
    <3>1. Cardinality(Holders) # 0 /\ Cardinality(Holders) \in Nat
      BY <2>2, FS_EmptySet, FS_CardinalityType DEF Slots
    <3> QED
      BY <3>1 DEF Slots, JobsShaped
  <2>5. inFlight' \in 0 .. Resolvers
    BY <2>4 DEF JobsShaped, RC!ConstantsAssumption
  <2>3. Slots'
    BY <2>2, <2>5, SlotReleased DEF JobsShaped
  <2>6. JobsShaped'
    BY <1>0, <2>1, <2>5 DEF JobsShaped, RC!Ends
  <2>7. Waits' /\ Spoken'
    BY <1>0, <2>1 DEF Waits, Spoken, JobsShaped, RC!Opening
  <2> QED
    BY <2>3, <2>6, <2>7
<1>4. CASE RC!Spawn(j)
  <2> USE <1>4 DEF RC!Spawn, RC!Goes
  <2>1. pc[j] = "reserved" /\ pc' = [pc EXCEPT ![j] = "resolving"] /\ resolver' = [resolver EXCEPT ![j] = TRUE]
    OBVIOUS
  <2>2. Holders' = Holders
    BY <2>1 DEF Holders, JobsShaped
  <2>3. Slots'
    BY <2>2, SlotsStay
  <2>5. JobsShaped'
    BY <1>0, <2>1 DEF JobsShaped, RC!Opening
  <2>6. Waits' /\ Spoken'
    BY <1>0, <2>1 DEF Waits, Spoken, JobsShaped, RC!Opening
  <2> QED
    BY <2>3, <2>5, <2>6
<1> QED
  BY <1>1, <1>2, <1>3, <1>4

\* The resolver answers, and its thread ends.
LEMMA ResolverKeeps ==
    ASSUME RC!ConstantsAssumption, JobsInv, (\E j \in Jobs : RC!ResolverAnswers(j)) \/ RC!ResolverEnds
    PROVE  JobsInv'
<1> USE DEF JobsInv
<1>1. ASSUME NEW j \in Jobs, RC!ResolverAnswers(j) PROVE JobsInv'
  <2> USE <1>1 DEF RC!ResolverAnswers
  <2>1. /\ resolver[j] /\ pc[j] = "resolving" /\ resolver' = [resolver EXCEPT ![j] = FALSE]
        /\ UNCHANGED << pc, cancelled, overdue, tried, mail, heard, runs, inFlight >>
    BY DEF Waits
  <2>2. j \in Holders /\ Holders' = Holders \ {j}
    BY <2>1 DEF Holders, JobsShaped
  <2>3. leftover' \in Nat /\ leftover' = leftover + 1
    BY DEF JobsShaped
  <2>4. Slots'
    BY <2>1, <2>2, <2>3, SlotReleased DEF JobsShaped
  <2>5. answer' \in [Jobs -> {"none", "addresses", "error"}]
        /\ \A i \in Jobs : i # j => answer'[i] = answer[i]
    BY DEF JobsShaped
  <2> HIDE DEF RC!ResolverAnswers
  <2>6. JobsShaped'
    BY <2>1, <2>3, <2>5 DEF JobsShaped
  <2>7. Waits'
    BY <2>1, <2>5 DEF Waits, JobsShaped
  <2>8. Spoken'
    BY <2>1 DEF Spoken
  <2> QED
    BY <2>4, <2>6, <2>7, <2>8
<1>2. CASE RC!ResolverEnds
  <2> USE <1>2 DEF RC!ResolverEnds, RC!job
  <2>1. Holders' = Holders
    BY DEF Holders
  <2>2. Cardinality(Holders) \in Nat
    BY FS_CardinalityType DEF Slots
  <2>3. leftover' \in Nat /\ inFlight' \in 0 .. Resolvers /\ inFlight' = leftover' + Cardinality(Holders)
    BY <2>2 DEF Slots, JobsShaped, RC!ConstantsAssumption
  <2>4. Slots'
    BY <2>1, <2>3 DEF Slots
  <2>5. JobsShaped' /\ Waits' /\ Spoken'
    BY <2>3 DEF JobsShaped, Waits, Spoken
  <2> QED
    BY <2>4, <2>5
<1> QED
  BY <1>1, <1>2

\* A job moves on without a slot or a word of the service.
LEMMA MovingKeeps ==
    ASSUME RC!ConstantsAssumption, JobsInv, NEW j \in Jobs,
           \/ RC!Run(j) \/ RC!Cancel(j) \/ RC!DeadlinePasses(j)
           \/ RC!Resolved(j) \/ RC!ConnectSucceeds(j) \/ RC!AttemptFails(j) \/ RC!Pause(j) \/ RC!PauseEnds(j)
           \/ RC!Silence(j) \/ RC!ConnectionFails(j)
    PROVE  JobsInv'
<1> USE DEF JobsInv
<1>0. UNCHANGED << resolver, leftover, inFlight >>
  BY DEF RC!Run, RC!Cancel, RC!DeadlinePasses, RC!Resolved, RC!ConnectSucceeds, RC!AttemptFails,
     RC!Pause, RC!PauseEnds, RC!Silence, RC!ConnectionFails, RC!dns
<1>1. CASE RC!Run(j)
  <2> USE <1>1 DEF RC!Run
  <2>1. pc[j] \in RC!Ends /\ pc' = [pc EXCEPT ![j] = "resolve"] /\ ~resolver[j]
    BY DEF Waits, RC!Ends
  <2>2. Holders' = Holders
    BY <1>0, <2>1 DEF Holders, JobsShaped, RC!Ends
  <2>3. runs' \in [Jobs -> 0 .. MaxRuns]
    BY DEF JobsShaped, RC!ConstantsAssumption
  <2>4. JobsShaped'
    BY <1>0, <2>3 DEF JobsShaped, RC!Opening, RC!ConstantsAssumption
  <2>5. Waits' /\ Spoken'
    BY <1>0, <2>1 DEF Waits, Spoken, JobsShaped, RC!Opening
  <2> QED
    BY <1>0, <2>2, <2>4, <2>5, SlotsStay
<1>2. CASE RC!Cancel(j) \/ RC!DeadlinePasses(j)
  <2> USE <1>2 DEF RC!Cancel, RC!DeadlinePasses
  <2>1. Holders' = Holders
    BY <1>0 DEF Holders
  <2>2. JobsShaped' /\ Waits' /\ Spoken'
    <3>1. UNCHANGED << pc, tried, mail, heard, answer, runs >>
      BY <1>2
    <3>2. cancelled' \in [Jobs -> BOOLEAN] /\ overdue' \in [Jobs -> BOOLEAN]
      BY <1>2 DEF JobsShaped
    <3> HIDE DEF RC!Cancel, RC!DeadlinePasses
    <3> QED
      BY <1>0, <3>1, <3>2 DEF JobsShaped, Waits, Spoken
  <2> QED
    BY <1>0, <2>1, <2>2, SlotsStay
<1>3. CASE RC!AttemptFails(j)
  <2> USE <1>3 DEF RC!AttemptFails
  <2>1. Holders' = Holders
    BY <1>0 DEF Holders
  <2>2. tried' \in [Jobs -> 0 .. Addresses]
    BY DEF JobsShaped, RC!ConstantsAssumption
  <2>3. JobsShaped' /\ Waits' /\ Spoken'
    BY <1>0, <2>2 DEF JobsShaped, Waits, Spoken
  <2> QED
    BY <1>0, <2>1, <2>3, SlotsStay
<1>4. CASE RC!Resolved(j) \/ RC!ConnectSucceeds(j) \/ RC!Pause(j) \/ RC!PauseEnds(j) \/ RC!Silence(j) \/ RC!ConnectionFails(j)
  <2>1. PICK place \in {"connecting", "failed", "challenge", "pause", "timeout"} :
            pc' = [pc EXCEPT ![j] = place]
    BY <1>4 DEF RC!Resolved, RC!ConnectSucceeds, RC!Pause, RC!PauseEnds, RC!Silence,
       RC!ConnectionFails, RC!Goes
  <2>2. /\ UNCHANGED << cancelled, overdue, mail, heard, answer, runs >>
        /\ tried' \in [Jobs -> 0 .. Addresses]
        /\ place \in {"connecting", "challenge", "pause"} => pc[j] \in RC!Opening
        /\ pc[j] # "reserved"
        /\ pc[j] = "resolving" => answer[j] # "none"
    <3>1. pc'[j] = place
      BY <2>1 DEF JobsShaped
    <3> QED
      BY <1>4, <3>1 DEF RC!Resolved, RC!ConnectSucceeds, RC!Pause, RC!PauseEnds, RC!Silence,
         RC!ConnectionFails, RC!Goes, JobsShaped, RC!ConstantsAssumption, RC!Opening, RC!Connected
  <2>3. Holders' = Holders
    BY <1>0, <2>1, <2>2 DEF Holders, JobsShaped
  <2>4. JobsShaped'
    BY <1>0, <2>1, <2>2 DEF JobsShaped, RC!Ends, RC!Opening, RC!Connected
  <2>5. Waits' /\ Spoken'
    BY <1>0, <2>1, <2>2 DEF Waits, Spoken, JobsShaped, RC!Opening
  <2> QED
    BY <1>0, <2>3, <2>4, <2>5, SlotsStay
<1> QED
  BY <1>1, <1>2, <1>3, <1>4

\* The service says something.
LEMMA SayingKeeps ==
    ASSUME RC!ConstantsAssumption, JobsInv, NEW j \in Jobs, RC!ServiceSays(j)
    PROVE  JobsInv'
<1> USE DEF JobsInv, RC!ServiceSays, RC!dns
<1>1. Holders' = Holders
  BY DEF Holders
<1>2. mail' \in [Jobs -> Seq(Says)]
  BY AppendProperties DEF JobsShaped, RC!Kinds, Says
<1>3. JobsShaped' /\ Waits' /\ Spoken'
  BY <1>2 DEF JobsShaped, Waits, Spoken
<1> QED
  BY <1>1, <1>3, SlotsStay

\* A job takes a word of the service.
LEMMA HearingKeeps ==
    ASSUME RC!ConstantsAssumption, JobsInv, NEW j \in Jobs,
           RC!Challenged(j) \/ RC!Registered(j) \/ RC!PeerReady(j)
    PROVE  JobsInv'
<1> USE DEF JobsInv
<1> DEFINE word == Head(mail[j])
<1>0. /\ mail[j] # << >> /\ RC!First(j) = word /\ word \in Says
      /\ Tail(mail[j]) \in Seq(Says) /\ heard[j] \in Seq(Says)
  <2>1. mail[j] # << >> /\ RC!First(j) = word
    BY DEF RC!Challenged, RC!Registered, RC!PeerReady, RC!First
  <2> QED
    BY <2>1, HeadTailProperties DEF JobsShaped
<1>1. PICK place \in {"register", "wait", "stream", "failed"} : RC!Hears(j, place)
  BY DEF RC!Challenged, RC!Registered, RC!PeerReady
<1>2. /\ pc' = [pc EXCEPT ![j] = place]
      /\ heard' = [heard EXCEPT ![j] = Append(heard[j], word)]
      /\ mail' = [mail EXCEPT ![j] = Tail(mail[j])]
      /\ UNCHANGED << cancelled, tried, answer, runs, resolver, leftover, inFlight >>
  BY <1>1 DEF RC!Hears, RC!Goes, RC!dns
<1>3. overdue' \in [Jobs -> BOOLEAN] /\ pc[j] \in RC!Connected
  BY DEF RC!Challenged, RC!Registered, RC!PeerReady, JobsShaped, RC!Connected
<1>4. /\ Append(heard[j], word) \in Seq(Says)
      /\ Len(Append(heard[j], word)) = Len(heard[j]) + 1
      /\ \A k \in 1 .. Len(heard[j]) : Append(heard[j], word)[k] = heard[j][k]
      /\ Append(heard[j], word)[Len(heard[j]) + 1] = word
      /\ Len(heard[j]) \in Nat
  BY <1>0, AppendProperties
<1>5. Holders' = Holders
  BY <1>2, <1>3 DEF Holders, JobsShaped, RC!Connected
<1>6. JobsShaped'
  BY <1>0, <1>2, <1>3, <1>4 DEF JobsShaped, RC!Ends, RC!Connected
<1>7. Waits'
  BY <1>2, <1>3 DEF Waits, JobsShaped, RC!Connected
<1>8. Spoken'
  <2>1. /\ place = "register" => \/ pc[j] = "challenge" /\ word = "challenge"
                                 \/ pc[j] = "register" /\ word = "ack"
        /\ place = "wait" => \/ pc[j] = "register" /\ word = "registered"
                             \/ pc[j] = "wait" /\ word = "ack"
        /\ place = "stream" => pc[j] = "wait" /\ word = "ready"
    <3>1. pc'[j] = place
      BY <1>2 DEF JobsShaped
    <3>2. ASSUME NEW p, RC!Hears(j, p) PROVE p = place
      BY <3>1, <3>2 DEF RC!Hears, RC!Goes, JobsShaped
    <3> HIDE DEF word
    <3>3. CASE RC!Challenged(j)
      <4>1. RC!Hears(j, IF word = "challenge" THEN "register" ELSE "failed") /\ pc[j] = "challenge"
        BY <1>0, <3>3 DEF RC!Challenged
      <4> QED
        BY <3>2, <4>1
    <3>4. CASE RC!Registered(j)
      <4>1. /\ pc[j] = "register"
            /\ RC!Hears(j, CASE word = "registered" -> "wait" [] word = "ack" -> "register" [] OTHER -> "failed")
        BY <1>0, <3>4 DEF RC!Registered
      <4>2. place = IF word = "registered" THEN "wait" ELSE IF word = "ack" THEN "register" ELSE "failed"
        BY <3>2, <4>1
      <4> QED
        BY <4>1, <4>2
    <3>5. CASE RC!PeerReady(j)
      <4>1. PICK ok \in BOOLEAN :
              RC!Hears(j, CASE word = "ready" -> IF ok THEN "stream" ELSE "failed"
                         [] word = "ack" -> "wait" [] OTHER -> "failed")
        BY <1>0, <3>5 DEF RC!PeerReady
      <4>2. pc[j] = "wait"
        BY <3>5 DEF RC!PeerReady
      <4> QED
        BY <3>2, <4>1, <4>2
    <3> QED
      BY <3>3, <3>4, <3>5
  <2> DEFINE h == Append(heard[j], word)
  <2>2. h # << >> /\ Len(h) = Len(heard[j]) + 1
    BY <1>4
  <2>3. CASE place = "register"
    <3>1. CASE pc[j] = "challenge" /\ word = "challenge"
      <4>1. Len(heard[j]) = 0
        BY <3>1 DEF Spoken
      <4>2. h[1] = "challenge" /\ \A k \in 2 .. Len(h) : h[k] = "ack"
        BY <1>4, <3>1, <4>1
      <4> HIDE DEF h, word
      <4> QED
        BY <1>2, <2>2, <2>3, <4>2 DEF Spoken, JobsShaped, RC!Opening, h
    <3>2. CASE pc[j] = "register" /\ word = "ack"
      <4>1. /\ heard[j] # << >> /\ heard[j][1] = "challenge" /\ Len(heard[j]) > 0
            /\ \A k \in 2 .. Len(heard[j]) : heard[j][k] = "ack"
        BY <1>4, <3>2, EmptySeq DEF Spoken
      <4>2. h[1] = "challenge" /\ \A k \in 2 .. Len(h) : h[k] = "ack"
        BY <1>4, <3>2, <4>1
      <4> HIDE DEF h, word
      <4> QED
        BY <1>2, <2>2, <2>3, <4>2 DEF Spoken, JobsShaped, RC!Opening, h
    <3> QED
      BY <2>1, <2>3, <3>1, <3>2
  <2>4. CASE place = "wait"
    <3>1. Introduced(h)
      <4>1. CASE pc[j] = "register" /\ word = "registered"
        <5>1. /\ heard[j] # << >> /\ heard[j][1] = "challenge" /\ Len(heard[j]) > 0
              /\ \A k \in 2 .. Len(heard[j]) : heard[j][k] = "ack"
          BY <1>4, <4>1, EmptySeq DEF Spoken
        <5>2. /\ Len(h) \in 2 .. Len(h) /\ h[Len(h)] = "registered" /\ h[1] = "challenge"
              /\ \A k \in 2 .. Len(h) : k # Len(h) => h[k] = "ack"
          BY <1>4, <4>1, <5>1
        <5> HIDE DEF h
        <5> QED
          BY <2>2, <5>2 DEF Introduced
      <4>2. CASE pc[j] = "wait" /\ word = "ack"
        <5>1. Introduced(heard[j]) /\ Len(heard[j]) > 0
          BY <1>4, <4>2, EmptySeq DEF Spoken, Introduced
        <5>2. PICK r \in 2 .. Len(heard[j]) :
                heard[j][r] = "registered" /\ \A k \in 2 .. Len(heard[j]) : k # r => heard[j][k] = "ack"
          BY <5>1 DEF Introduced
        <5>3. /\ r \in 2 .. Len(h) /\ h[r] = "registered" /\ h[1] = "challenge"
              /\ \A k \in 2 .. Len(h) : k # r => h[k] = "ack"
          BY <1>4, <4>2, <5>1, <5>2 DEF Introduced
        <5> HIDE DEF h
        <5> QED
          BY <2>2, <5>3 DEF Introduced
      <4> QED
        BY <2>1, <2>4, <4>1, <4>2
    <3> HIDE DEF h, word
    <3> QED
      BY <1>2, <2>4, <3>1 DEF Spoken, JobsShaped, RC!Opening, h
  <2>5. CASE place = "stream"
    <3>1. pc[j] = "wait" /\ word = "ready" /\ Introduced(heard[j])
      BY <2>1, <2>5 DEF Spoken
    <3> HIDE DEF word
    <3>2. heard'[j] = Append(heard[j], "ready") /\ pc'[j] = "stream"
      BY <1>2, <2>5, <3>1 DEF JobsShaped
    <3>3. \A i \in Jobs : i # j => heard'[i] = heard[i] /\ pc'[i] = pc[i]
      BY <1>2 DEF JobsShaped
    <3> QED
      BY SMTT(30), <1>0, <3>1, <3>2, <3>3 DEF Spoken, RC!Opening
  <2>6. CASE place = "failed"
    BY <1>2, <2>6 DEF Spoken, JobsShaped, RC!Opening
  <2> QED
    BY <2>3, <2>4, <2>5, <2>6
<1> QED
  BY <1>2, <1>5, <1>6, <1>7, <1>8, SlotsStay

LEMMA JobsStep == RC!ConstantsAssumption /\ JobsInv /\ [RC!Next]_(RC!vars) => JobsInv'
<1> SUFFICES ASSUME RC!ConstantsAssumption, JobsInv, [RC!Next]_(RC!vars) PROVE JobsInv'
  OBVIOUS
<1>1. ASSUME NEW j \in Jobs, RC!JobStep(j) PROVE JobsInv'
  BY <1>1, GivingUpKeeps, SlotKeeps, MovingKeeps, HearingKeeps DEF RC!JobStep
<1>2. CASE UNCHANGED RC!vars
  BY <1>2 DEF RC!vars, RC!job, RC!dns, JobsInv, JobsShaped, Slots, Holders, Waits, Spoken
<1> QED
  BY <1>1, <1>2, MovingKeeps, ResolverKeeps, SayingKeeps DEF RC!Next

\* What the invariant says of the properties
LEMMA JobsAreSafe ==
    ASSUME RC!ConstantsAssumption, JobsInv
    PROVE  RC!TypeOK /\ RC!SlotsAccounted /\ RC!PeerAfterRegistration
<1> USE DEF JobsInv
<1>1. RC!SlotsAccounted
  BY DEF Slots, Holders, RC!SlotsAccounted, RC!Cardinality, Cardinality
<1>2. RC!TypeOK
  <2>1. Cardinality(Holders) \in Nat
    BY FS_CardinalityType DEF Slots
  <2>2. leftover \in 0 .. Resolvers
    BY <2>1 DEF Slots, JobsShaped, RC!ConstantsAssumption
  <2> QED
    BY <2>2 DEF RC!TypeOK, JobsShaped, Says, RC!Kinds
<1>3. ASSUME NEW j \in Jobs, pc[j] = "stream"
      PROVE  LET h == heard[j]
                 n == Len(h) IN
             /\ n > 0 /\ h[1] = "challenge" /\ h[n] = "ready"
             /\ \E r \in 2 .. n - 1 :
                 /\ h[r] = "registered"
                 /\ \A k \in 2 .. n - 1 : k # r => h[k] = "ack"
  <2>1. PICK h \in Seq(Says) : Introduced(h) /\ heard[j] = Append(h, "ready")
    BY <1>3 DEF Spoken
  <2>2. PICK r \in 2 .. Len(h) :
            h[r] = "registered" /\ \A k \in 2 .. Len(h) : k # r => h[k] = "ack"
    BY <2>1 DEF Introduced
  <2>3. /\ Len(heard[j]) = Len(h) + 1 /\ Len(h) \in Nat /\ Len(h) > 0
        /\ \A k \in 1 .. Len(h) : heard[j][k] = h[k]
        /\ heard[j][Len(heard[j])] = "ready"
    BY <2>1, AppendProperties, EmptySeq DEF Says, Introduced
  <2>4. heard[j][1] = "challenge" /\ Len(heard[j]) > 0 /\ Len(heard[j]) - 1 = Len(h)
    BY <2>1, <2>3 DEF Introduced
  <2>5. heard[j][r] = "registered" /\ \A k \in 2 .. Len(h) : k # r => heard[j][k] = "ack"
    BY <2>2, <2>3
  <2> QED
    BY <2>2, <2>3, <2>4, <2>5
<1> QED
  BY <1>1, <1>2, <1>3 DEF RC!PeerAfterRegistration


-----------------------------------------------------------------------------
(* Staying on the list *)

Ages == 0 .. MaxDelay
Word == [kind : {"ack", "ready", "closed"}, age : 0 .. MaxDelay]

PresenceShaped ==
    /\ client \in {"waiting", "ready", "timeout", "refused"}
    /\ asleep \in BOOLEAN /\ cut \in BOOLEAN /\ troubled \in BOOLEAN /\ present \in BOOLEAN
    /\ beat \in 0 .. Heartbeat /\ acked \in 0 .. AckLimit + 1 /\ seen \in 0 .. Ttl
    /\ gone \in 0 .. Ttl + MaxDelay + 1 /\ unheard \in 0 .. AckLimit + 2
    /\ up \in Seq(Ages) /\ down \in Seq(Word)
    /\ asleep => client = "waiting"

\* Heartbeats are sent a Heartbeat apart, each after the client last ran with a network
Spaced ==
    /\ \A k \in 1 .. Len(up) : up[k] >= (Len(up) - k) * Heartbeat
    /\ ~cut => \A k \in 1 .. Len(up) : up[k] >= gone /\ up[k] >= (Len(up) - k) * Heartbeat + beat
    /\ \A i, k \in 1 .. Len(up) : i <= k => up[i] >= up[k]

\* When the oldest heartbeat that was not heard was sent, or the next one will be
SinceSent == IF up = << >> THEN beat ELSE up[1] + Heartbeat

\* While nothing goes wrong the answers come in time
InTime ==
    ~troubled =>
        /\ ~cut /\ ~asleep /\ client \in {"waiting", "ready"}
        /\ client = "waiting" =>
            /\ \A k \in 1 .. Len(down) : down[k].kind # "closed"
            /\ \A k \in 1 .. Len(up) : up[k] <= (Len(up) - k) * Heartbeat + beat
            /\ present \/ \E k \in 1 .. Len(down) : down[k].kind = "ready"
            /\ present => seen <= SinceSent
            /\ acked <= IF down # << >> THEN down[1].age + MaxDelay + Heartbeat ELSE SinceSent

\* What a silence lasts
Silent ==
    /\ unheard <= acked /\ (~cut => unheard = 0)
    /\ PR!Runs /\ ~cut => gone = 0
    /\ present => gone <= seen + MaxDelay

PresenceInv == PresenceShaped /\ Spaced /\ InTime /\ Silent

-----------------------------------------------------------------------------
\* A heartbeat more, or less, at the end it is sent from.
LEMMA Multiples ==
    ASSUME PR!DurationsAssumption
    PROVE  /\ Heartbeat \in Nat /\ Heartbeat > 0
           /\ \A n \in Nat : n * Heartbeat \in Nat /\ (n + 1) * Heartbeat = n * Heartbeat + Heartbeat
           /\ \A n \in Nat : n * Heartbeat <= MaxDelay => n <= MaxDelay \div Heartbeat
<1>1. Heartbeat \in Nat /\ Heartbeat > 0 /\ MaxDelay \in Nat
  BY DEF PR!DurationsAssumption
<1>2. \A n \in Nat : n * Heartbeat \in Nat /\ (n + 1) * Heartbeat = n * Heartbeat + Heartbeat
  BY <1>1
<1>3. ASSUME NEW n \in Nat, n * Heartbeat <= MaxDelay PROVE n <= MaxDelay \div Heartbeat
  BY <1>1, <1>3
<1> QED
  BY <1>1, <1>2, <1>3

LEMMA PresenceInit == PR!DurationsAssumption /\ PR!Init => PresenceInv
<1> SUFFICES ASSUME PR!DurationsAssumption, PR!Init PROVE PresenceInv
  OBVIOUS
<1>1. PresenceShaped
  <2>1. 0 \in 0 .. Heartbeat /\ 0 \in 0 .. AckLimit + 1 /\ 0 \in 0 .. Ttl
        /\ 0 \in 0 .. Ttl + MaxDelay + 1 /\ 0 \in 0 .. AckLimit + 2
    BY DEF PR!DurationsAssumption
  <2>2. << >> \in Seq(Ages) /\ << >> \in Seq(Word)
    OBVIOUS
  <2> QED
    BY <2>1, <2>2 DEF PR!Init, PresenceShaped
<1>2. Spaced /\ Silent
  BY DEF PR!Init, Spaced, Silent, PR!Runs, PR!DurationsAssumption
<1>3. InTime
  BY DEF PR!Init, InTime, SinceSent
<1> QED
  BY <1>1, <1>2, <1>3 DEF PresenceInv

\* What is in time, in numbers
LEMMA Margins ==
    ASSUME PR!DurationsAssumption, PresenceInv
    PROVE  /\ beat \in Nat /\ acked \in Nat /\ seen \in Nat /\ gone \in Nat /\ unheard \in Nat
           /\ Len(up) \in Nat /\ Len(down) \in Nat
           /\ \A k \in 1 .. Len(up) : up[k] \in Ages /\ up[k] \in Nat /\ up[k] <= MaxDelay
           /\ \A k \in 1 .. Len(down) : down[k] \in Word
           /\ up # << >> => 1 \in 1 .. Len(up)
           /\ down # << >> => 1 \in 1 .. Len(down) /\ Head(down) = down[1]
           /\ SinceSent \in Nat /\ SinceSent <= MaxDelay + Heartbeat
           /\ ~troubled /\ client = "waiting" =>
                (present => seen < Ttl) /\ acked <= AckLimit
<1> USE DEF PresenceInv
<1>1. /\ beat \in 0 .. Heartbeat /\ acked \in Nat /\ seen \in Nat /\ gone \in Nat /\ unheard \in Nat
      /\ up \in Seq(Ages) /\ down \in Seq(Word)
  BY DEF PresenceShaped, PR!DurationsAssumption
<1>2. /\ Len(up) \in Nat /\ Len(down) \in Nat
      /\ \A k \in 1 .. Len(up) : up[k] \in Ages /\ up[k] \in Nat /\ up[k] <= MaxDelay
      /\ \A k \in 1 .. Len(down) : down[k] \in Word
      /\ up # << >> => 1 \in 1 .. Len(up)
      /\ down # << >> => 1 \in 1 .. Len(down) /\ Head(down) = down[1]
  <2>1. /\ Len(up) \in Nat /\ Len(down) \in Nat
        /\ \A k \in 1 .. Len(up) : up[k] \in Ages
        /\ \A k \in 1 .. Len(down) : down[k] \in Word
    BY <1>1, ElementOfSeq
  <2>4. \A k \in 1 .. Len(up) : up[k] \in Nat /\ up[k] <= MaxDelay
    BY <2>1 DEF Ages, PR!DurationsAssumption
  <2>2. up # << >> => Len(up) > 0
    BY <1>1, EmptySeq
  <2>3. down # << >> => Len(down) > 0 /\ Head(down) = down[1]
    BY <1>1, EmptySeq, HeadTailProperties
  <2> QED
    BY <2>1, <2>2, <2>3, <2>4
<1>3. SinceSent \in Nat /\ SinceSent <= MaxDelay + Heartbeat
  BY <1>1, <1>2 DEF SinceSent, PR!DurationsAssumption
<1>4. ASSUME ~troubled, client = "waiting"
      PROVE  (present => seen < Ttl) /\ acked <= AckLimit
  <2>1. present => seen <= SinceSent
    BY <1>4 DEF InTime
  <2>2. acked <= IF down # << >> THEN down[1].age + MaxDelay + Heartbeat ELSE SinceSent
    BY <1>4 DEF InTime
  <2>3. down # << >> => down[1].age \in 0 .. MaxDelay
    BY <1>2 DEF Word
  <2> QED
    BY SMTT(30), <1>1, <1>3, <2>1, <2>2, <2>3 DEF PR!DurationsAssumption
<1> QED
  BY <1>1, <1>2, <1>3, <1>4 DEF PR!DurationsAssumption

\* One more at the end of a sequence, or one less at its head
LEMMA AtTheEnd ==
    ASSUME NEW S, NEW s \in Seq(S), NEW x \in S
    PROVE  /\ Append(s, x) \in Seq(S) /\ Len(Append(s, x)) = Len(s) + 1 /\ Len(s) \in Nat
           /\ Append(s, x) # << >>
           /\ Append(s, x)[Len(s) + 1] = x
           /\ \A k \in 1 .. Len(s) : Append(s, x)[k] = s[k]
BY AppendProperties, LenProperties

LEMMA AtTheHead ==
    ASSUME NEW S, NEW s \in Seq(S), s # << >>
    PROVE  /\ Tail(s) \in Seq(S) /\ Len(Tail(s)) = Len(s) - 1 /\ Len(s) \in Nat /\ Len(s) > 0
           /\ Head(s) = s[1] /\ s[1] \in S
           /\ \A k \in 1 .. Len(Tail(s)) : Tail(s)[k] = s[k + 1]
<1>1. Len(s) \in Nat /\ Len(s) > 0
  BY EmptySeq, LenProperties
<1> QED
  BY <1>1, HeadTailProperties, ElementOfSeq

-----------------------------------------------------------------------------
LEMMA GiveUpKeeps ==
    ASSUME PR!DurationsAssumption, PresenceInv, PR!GiveUp
    PROVE  PresenceInv'
<1> USE DEF PR!GiveUp, PresenceInv, PR!Runs
<1>1. PresenceShaped' /\ Spaced'
  BY DEF PresenceShaped, Spaced
<1>2. acked > AckLimit /\ acked \in Nat /\ AckLimit \in Nat
  BY Margins DEF PR!DurationsAssumption
<1>3. troubled
  BY <1>2, Margins
<1>4. InTime' /\ Silent'
  BY <1>3 DEF InTime, Silent
<1> QED
  BY <1>1, <1>4

LEMMA ReadKeeps ==
    ASSUME PR!DurationsAssumption, PresenceInv, PR!Read
    PROVE  PresenceInv'
<1> USE DEF PresenceInv
<1>1. /\ client = "waiting" /\ ~asleep /\ down # << >> /\ ~cut /\ down' = Tail(down)
      /\ UNCHANGED << asleep, beat, up, present, seen, cut, troubled, gone, unheard >>
  BY DEF PR!Read, PR!Runs
<1>2. \/ client' = "ready" /\ acked' = acked /\ Head(down).kind = "ready"
      \/ client' = "refused" /\ acked' = acked /\ Head(down).kind = "closed"
      \/ acked' = 0 /\ client' = client /\ Head(down).kind \notin {"ready", "closed"}
  BY DEF PR!Read
<1>3. /\ Tail(down) \in Seq(Word) /\ Len(Tail(down)) = Len(down) - 1 /\ Len(down) \in Nat /\ Len(down) > 0
      /\ Head(down) = down[1] /\ down[1] \in Word
      /\ \A k \in 1 .. Len(Tail(down)) : Tail(down)[k] = down[k + 1]
  BY <1>1, AtTheHead DEF PresenceShaped
<1>4. PresenceShaped'
  BY <1>1, <1>2, <1>3 DEF PresenceShaped, PR!DurationsAssumption
<1>5. Spaced'
  BY <1>1 DEF Spaced
<1>6. Silent'
  BY <1>1, <1>2 DEF Silent, PR!Runs
<1>7. ASSUME ~troubled' PROVE InTime'
  <2>1. ~troubled /\ \A k \in 1 .. Len(down) : down[k].kind # "closed"
    BY <1>1, <1>7 DEF InTime
  <2>2. \A k \in 1 .. Len(down') : down'[k].kind # "closed"
    BY <1>1, <1>3, <2>1
  <2>3. 1 \in 1 .. Len(down)
    BY <1>3
  <2>4. CASE client' = "ready"
    BY <1>1, <2>1, <2>2, <2>4 DEF InTime
  <2>5. CASE acked' = 0 /\ client' = client /\ Head(down).kind \notin {"ready", "closed"}
    <3>1. present \/ \E k \in 1 .. Len(down') : down'[k].kind = "ready"
      <4>1. present \/ \E k \in 1 .. Len(down) : down[k].kind = "ready"
        BY <1>1, <2>1 DEF InTime
      <4>2. ASSUME NEW k \in 1 .. Len(down), down[k].kind = "ready"
            PROVE  k - 1 \in 1 .. Len(down') /\ down'[k - 1].kind = "ready"
        <5>1. k # 1 /\ k - 1 \in 1 .. Len(Tail(down))
          BY <1>3, <2>5, <4>2
        <5>2. Tail(down)[k - 1] = down[k]
          BY <1>3, <5>1
        <5> QED
          BY <1>1, <4>2, <5>1, <5>2
      <4> QED
        BY <4>1, <4>2
    <3>2. SinceSent' = SinceSent /\ SinceSent \in Nat
      BY <1>1, Margins DEF SinceSent
    <3>3. acked' <= IF down' # << >> THEN down'[1].age + MaxDelay + Heartbeat ELSE SinceSent'
      <4>1. down' # << >> => down'[1].age \in Nat
        <5>1. down' # << >> => 1 \in 1 .. Len(down') /\ down'[1] \in Word
          BY <1>4, EmptySeq, ElementOfSeq DEF PresenceShaped
        <5> QED
          BY <5>1 DEF Word, PR!DurationsAssumption
      <4> QED
        BY <2>5, <3>2, <4>1 DEF PR!DurationsAssumption
    <3> QED
      BY <1>1, <2>1, <2>2, <2>5, <3>1, <3>2, <3>3 DEF InTime
  <2> QED
    BY <1>2, <1>3, <2>1, <2>3, <2>4, <2>5
<1> QED
  BY <1>4, <1>5, <1>6, <1>7 DEF InTime

LEMMA BeatKeeps ==
    ASSUME PR!DurationsAssumption, PresenceInv, PR!Beat
    PROVE  PresenceInv'
<1> USE DEF PresenceInv
<1>1. /\ client = "waiting" /\ ~asleep /\ beat = Heartbeat /\ beat' = 0
      /\ up' = IF cut THEN up ELSE Append(up, 0)
      /\ UNCHANGED << client, asleep, acked, down, present, seen, cut, troubled, gone, unheard >>
  BY DEF PR!Beat, PR!Runs, PresenceShaped, PR!DurationsAssumption
<1>2. /\ Append(up, 0) \in Seq(Ages) /\ Len(Append(up, 0)) = Len(up) + 1 /\ Len(up) \in Nat
      /\ Append(up, 0) # << >> /\ Append(up, 0)[Len(up) + 1] = 0
      /\ \A k \in 1 .. Len(up) : Append(up, 0)[k] = up[k] /\ up[k] \in Nat
  <2>1. 0 \in Ages /\ up \in Seq(Ages)
    BY DEF Ages, PresenceShaped, PR!DurationsAssumption
  <2>2. \A k \in 1 .. Len(up) : up[k] \in Nat
    BY Margins
  <2> QED
    BY <2>1, <2>2, AtTheEnd
<1>3. PresenceShaped'
  <2>1. up' \in Seq(Ages)
    BY <1>1, <1>2 DEF PresenceShaped
  <2>2. beat' \in 0 .. Heartbeat
    BY <1>1 DEF PR!DurationsAssumption
  <2> QED
    BY <1>1, <2>1, <2>2 DEF PresenceShaped
<1>m. \A k \in 1 .. Len(up) :
        /\ (Len(up) - k) * Heartbeat \in Nat
        /\ (Len(up) + 1 - k) * Heartbeat = (Len(up) - k) * Heartbeat + Heartbeat
  <2>1. \A k \in 1 .. Len(up) : Len(up) - k \in Nat /\ Len(up) + 1 - k = (Len(up) - k) + 1
    BY <1>2
  <2> QED
    BY <2>1, Multiples
<1>4. Silent'
  BY <1>1 DEF Silent, PR!Runs
<1>5. CASE cut
  <2>1. Spaced'
    BY <1>1, <1>5 DEF Spaced
  <2>2. troubled
    BY <1>5 DEF InTime
  <2> QED
    BY <1>1, <1>3, <1>4, <2>1, <2>2 DEF InTime
<1>6. CASE ~cut
  <2>1. up' = Append(up, 0) /\ Len(up') = Len(up) + 1 /\ gone = 0 /\ Heartbeat \in Nat
    BY <1>1, <1>2, <1>6 DEF Silent, PR!Runs, PR!DurationsAssumption
  <2>2. \A k \in 1 .. Len(up') : k = Len(up) + 1 \/ k \in 1 .. Len(up)
    BY <1>2, <2>1
  <2>3. up'[Len(up) + 1] = 0 /\ (Len(up') - (Len(up) + 1)) * Heartbeat = 0
    BY <1>2, <2>1
  <2>4. \A k \in 1 .. Len(up) : up'[k] = up[k] /\ up[k] >= (Len(up') - k) * Heartbeat
    <3> SUFFICES ASSUME NEW k \in 1 .. Len(up) PROVE up[k] >= (Len(up) + 1 - k) * Heartbeat
      BY <1>2, <2>1
    <3>1. up[k] >= (Len(up) - k) * Heartbeat + beat
      BY <1>6 DEF Spaced
    <3> QED
      BY <1>1, <1>m, <3>1
  <2>5. Spaced'
    <3>1. \A k \in 1 .. Len(up') : up'[k] >= (Len(up') - k) * Heartbeat
      BY <2>2, <2>3, <2>4
    <3>2. \A k \in 1 .. Len(up') : (Len(up') - k) * Heartbeat \in Nat
      BY <1>m, <2>1, <2>2, <2>3
    <3>3. \A k \in 1 .. Len(up') : up'[k] >= gone' /\ up'[k] >= (Len(up') - k) * Heartbeat + beat'
      BY <1>1, <1>2, <2>1, <2>2, <2>3, <2>4, <3>1, <3>2
    <3>4. \A i, k \in 1 .. Len(up') : i <= k => up'[i] >= up'[k]
      BY <1>2, <2>1, <2>2, <2>3, <2>4 DEF Spaced
    <3> QED
      BY <3>1, <3>3, <3>4 DEF Spaced
  <2>6. SinceSent' = SinceSent
    <3>1. CASE up = << >>
      BY <1>1, <1>2, <2>1, <3>1 DEF SinceSent
    <3>2. CASE up # << >>
      BY <1>2, <2>1, <3>2, Margins DEF SinceSent
    <3> QED
      BY <3>1, <3>2
  <2>7. ASSUME ~troubled PROVE \A k \in 1 .. Len(up') : up'[k] <= (Len(up') - k) * Heartbeat + beat'
    <3>1. \A k \in 1 .. Len(up) : up[k] <= (Len(up) - k) * Heartbeat + beat
      BY <1>1, <2>7 DEF InTime
    <3>2. \A k \in 1 .. Len(up) : up'[k] <= (Len(up') - k) * Heartbeat + 0
      BY <1>1, <1>2, <1>m, <2>1, <2>4, <3>1
    <3> QED
      BY <1>1, <2>2, <2>3, <3>2
  <2>8. InTime'
    BY <1>1, <2>6, <2>7 DEF InTime
  <2> QED
    BY <1>3, <1>4, <2>5, <2>8
<1> QED
  BY <1>5, <1>6

LEMMA HearKeeps ==
    ASSUME PR!DurationsAssumption, PresenceInv, PR!Hear
    PROVE  PresenceInv'
<1> USE DEF PresenceInv
<1> DEFINE word == [kind |-> "ack", age |-> 0]
<1>1. /\ up # << >> /\ ~cut /\ up' = Tail(up)
      /\ UNCHANGED << client, asleep, beat, acked, present, cut, troubled, gone, unheard >>
      /\ IF present /\ seen < Ttl THEN seen' = 0 /\ down' = Append(down, word)
         ELSE seen' = seen /\ down' = down
  BY DEF PR!Hear
<1>2. /\ Tail(up) \in Seq(Ages) /\ Len(Tail(up)) = Len(up) - 1 /\ Len(up) \in Nat /\ Len(up) > 0
      /\ up[1] \in Ages /\ up[1] \in Nat /\ up[1] <= MaxDelay
      /\ \A k \in 1 .. Len(Tail(up)) : Tail(up)[k] = up[k + 1]
  <2>1. 1 \in 1 .. Len(up)
    BY <1>1, Margins
  <2> QED
    BY <1>1, <2>1, AtTheHead, Margins DEF PresenceShaped
<1>3. /\ Append(down, word) \in Seq(Word) /\ Len(Append(down, word)) = Len(down) + 1 /\ Len(down) \in Nat
      /\ Append(down, word) # << >> /\ Append(down, word)[Len(down) + 1] = word
      /\ \A k \in 1 .. Len(down) : Append(down, word)[k] = down[k]
  <2>1. word \in Word
    BY DEF Word, PR!DurationsAssumption
  <2> QED
    BY <2>1, AtTheEnd DEF PresenceShaped
<1>4. PresenceShaped'
  <2>1. down' \in Seq(Word) /\ up' \in Seq(Ages)
    BY <1>1, <1>2, <1>3 DEF PresenceShaped
  <2>2. seen' \in 0 .. Ttl
    BY <1>1 DEF PresenceShaped, PR!DurationsAssumption
  <2> QED
    BY <1>1, <2>1, <2>2 DEF PresenceShaped
<1>5. \A k \in 1 .. Len(up') :
        /\ k + 1 \in 1 .. Len(up) /\ up'[k] = up[k + 1] /\ Len(up') - k = Len(up) - (k + 1)
  BY <1>1, <1>2
<1>6. Spaced'
  <2>1. \A k \in 1 .. Len(up') : up'[k] >= (Len(up') - k) * Heartbeat
    BY <1>5 DEF Spaced
  <2>2. \A k \in 1 .. Len(up') : up'[k] >= gone' /\ up'[k] >= (Len(up') - k) * Heartbeat + beat'
    BY <1>1, <1>5 DEF Spaced
  <2>3. ASSUME NEW i \in 1 .. Len(up'), NEW k \in 1 .. Len(up'), i <= k PROVE up'[i] >= up'[k]
    <3>1. i + 1 <= k + 1
      BY <1>1, <1>2, <2>3
    <3> QED
      BY <1>5, <3>1 DEF Spaced
  <2> QED
    BY <2>1, <2>2, <2>3 DEF Spaced
<1>7. Silent'
  <2>1. gone <= up[1] /\ gone \in Nat
    BY <1>1, <1>2, Margins DEF Spaced
  <2>2. gone <= 0 + MaxDelay
    BY <1>2, <2>1 DEF PR!DurationsAssumption
  <2> QED
    BY <1>1, <2>2 DEF Silent, PR!Runs
<1>8. ASSUME ~troubled' PROVE InTime'
  <2>1. ~troubled /\ ~cut' /\ ~asleep' /\ client' \in {"waiting", "ready"}
    BY <1>1, <1>8 DEF InTime
  <2>2. \A k \in 1 .. Len(down') : (k \in 1 .. Len(down) /\ down'[k] = down[k]) \/ down'[k] = word
    BY <1>1, <1>3
  <2>4. ASSUME client' = "waiting"
        PROVE  /\ \A k \in 1 .. Len(down') : down'[k].kind # "closed"
               /\ \A k \in 1 .. Len(up') : up'[k] <= (Len(up') - k) * Heartbeat + beat'
               /\ present' \/ \E k \in 1 .. Len(down') : down'[k].kind = "ready"
               /\ present' => seen' <= SinceSent'
               /\ acked' <= IF down' # << >> THEN down'[1].age + MaxDelay + Heartbeat ELSE SinceSent'
    <3>1. /\ \A k \in 1 .. Len(up) : up[k] <= (Len(up) - k) * Heartbeat + beat
          /\ present \/ \E k \in 1 .. Len(down) : down[k].kind = "ready"
          /\ acked <= IF down # << >> THEN down[1].age + MaxDelay + Heartbeat ELSE SinceSent
      BY <1>1, <2>1, <2>4 DEF InTime
    <3>2. \A k \in 1 .. Len(up') : up'[k] <= (Len(up') - k) * Heartbeat + beat'
      BY <1>1, <1>5, <3>1
    <3>3. present' \/ \E k \in 1 .. Len(down') : down'[k].kind = "ready"
      BY <1>1, <3>1
    <3>4. present => seen < Ttl
      BY <1>1, <2>1, <2>4, Margins
    <3>5. present => seen' = 0 /\ down' = Append(down, word)
      BY <1>1, <3>4
    <3>6. SinceSent' \in Nat
      <4>1. up' # << >> => 1 \in 1 .. Len(up') /\ up'[1] \in Nat
        <5>1. up' \in Seq(Ages)
          BY <1>4 DEF PresenceShaped
        <5>2. up' # << >> => Len(up') > 0 /\ Len(up') \in Nat
          BY <5>1, EmptySeq, LenProperties
        <5>3. up' # << >> => up'[1] \in Ages
          BY <5>1, <5>2, ElementOfSeq
        <5> QED
          BY <5>2, <5>3 DEF Ages, PR!DurationsAssumption
      <4> QED
        BY <1>4, <4>1 DEF PresenceShaped, SinceSent, PR!DurationsAssumption
    <3>7. down' # << >> /\ acked' <= down'[1].age + MaxDelay + Heartbeat
      <4>1. CASE down # << >>
        <5>1. 1 \in 1 .. Len(down)
          BY <4>1, Margins
        <5>2. down' # << >> /\ down'[1] = down[1]
          BY <1>1, <1>3, <4>1, <5>1
        <5> QED
          BY <1>1, <3>1, <4>1, <5>2
      <4>2. CASE down = << >>
        <5>1. Len(down) = 0
          BY <4>2
        <5>2. present
          BY <3>1, <5>1
        <5>3. down' # << >> /\ down'[1] = word
          BY SMTT(30), <1>3, <3>5, <5>1, <5>2
        <5>4. acked <= 0 + MaxDelay + Heartbeat
          BY <3>1, <4>2, Margins DEF PR!DurationsAssumption
        <5> QED
          BY <1>1, <5>3, <5>4
      <4> QED
        BY <4>1, <4>2
    <3>8. \A k \in 1 .. Len(down') : down'[k].kind # "closed"
      BY <1>1, <2>1, <2>2, <2>4 DEF InTime
    <3> QED
      BY <1>1, <3>2, <3>3, <3>5, <3>6, <3>7, <3>8
  <2> QED
    BY <2>1, <2>4 DEF InTime
<1> QED
  BY <1>4, <1>6, <1>7, <1>8 DEF InTime

\* The service takes the device off its list: its time is over, or a peer was found.
LEMMA UnlistingKeeps ==
    ASSUME PR!DurationsAssumption, PresenceInv, PR!Expire \/ PR!Pair
    PROVE  PresenceInv'
<1> USE DEF PresenceInv
<1>1. /\ present /\ present' = FALSE
      /\ UNCHANGED << client, asleep, beat, acked, up, seen, cut, troubled, gone, unheard >>
  BY DEF PR!Expire, PR!Pair
<1>2. \/ seen >= Ttl /\ PR!Expire
      \/ ~cut /\ down' = Append(down, [kind |-> "ready", age |-> 0])
  BY DEF PR!Expire, PR!Pair
<1>3. PICK word \in Word : down' = down \/ down' = Append(down, word)
  BY DEF PR!Expire, PR!Pair, Word, PR!DurationsAssumption
<1>4. /\ Append(down, word) \in Seq(Word) /\ Len(Append(down, word)) = Len(down) + 1 /\ Len(down) \in Nat
      /\ Append(down, word) # << >> /\ Append(down, word)[Len(down) + 1] = word
      /\ \A k \in 1 .. Len(down) : Append(down, word)[k] = down[k]
  BY AtTheEnd DEF PresenceShaped
<1>5. PresenceShaped'
  <2>1. down' \in Seq(Word)
    BY <1>3, <1>4 DEF PresenceShaped
  <2> QED
    BY <1>1, <2>1 DEF PresenceShaped
<1>6. Spaced' /\ Silent'
  BY <1>1 DEF Spaced, Silent, PR!Runs
<1>7. ASSUME ~troubled' PROVE InTime'
  <2>1. ~troubled /\ ~cut' /\ ~asleep' /\ client' \in {"waiting", "ready"}
    BY <1>1, <1>7 DEF InTime
  <2>2. CASE client = "waiting"
    <3>1. seen < Ttl /\ seen \in Nat /\ Ttl \in Nat
      BY <1>1, <2>1, <2>2, Margins DEF PR!DurationsAssumption
    <3>2. down' = Append(down, [kind |-> "ready", age |-> 0])
      BY <1>2, <3>1
    <3> DEFINE ready == [kind |-> "ready", age |-> 0]
    <3>3. /\ Len(down') = Len(down) + 1 /\ Len(down) \in Nat /\ down' # << >>
          /\ down'[Len(down) + 1] = ready /\ \A k \in 1 .. Len(down) : down'[k] = down[k]
      <4>1. ready \in Word
        BY DEF Word, PR!DurationsAssumption
      <4> QED
        BY <3>2, <4>1, AtTheEnd DEF PresenceShaped
    <3>4. \A k \in 1 .. Len(down') : k = Len(down) + 1 \/ k \in 1 .. Len(down)
      BY <3>3
    <3>5. \A k \in 1 .. Len(down') : down'[k].kind # "closed"
      BY <2>1, <2>2, <3>3, <3>4 DEF InTime
    <3>6. \E k \in 1 .. Len(down') : down'[k].kind = "ready"
      <4>1. Len(down) + 1 \in 1 .. Len(down')
        BY <3>3
      <4> QED
        BY <3>3, <4>1
    <3>7. acked' <= IF down' # << >> THEN down'[1].age + MaxDelay + Heartbeat ELSE SinceSent'
      <4>1. acked <= IF down # << >> THEN down[1].age + MaxDelay + Heartbeat ELSE SinceSent
        BY <2>1, <2>2 DEF InTime
      <4>2. CASE down # << >>
        <5>1. down'[1] = down[1]
          BY <3>3, <4>2, Margins
        <5> QED
          BY <1>1, <3>3, <4>1, <4>2, <5>1
      <4>3. CASE down = << >>
        <5>1. down'[1] = ready
          BY <3>3, <4>3
        <5>2. acked <= 0 + MaxDelay + Heartbeat
          BY <4>1, <4>3, Margins DEF PR!DurationsAssumption
        <5> QED
          BY <1>1, <3>3, <5>1, <5>2
      <4> QED
        BY <4>2, <4>3
    <3>8. \A k \in 1 .. Len(up') : up'[k] <= (Len(up') - k) * Heartbeat + beat'
      BY <1>1, <2>1, <2>2 DEF InTime
    <3> QED
      BY <1>1, <2>1, <3>5, <3>6, <3>7, <3>8 DEF InTime
  <2>3. CASE client # "waiting"
    BY <1>1, <2>1, <2>3 DEF InTime
  <2> QED
    BY <2>2, <2>3
<1> QED
  BY <1>5, <1>6, <1>7 DEF InTime

\* A tick: everything on its way is older, and nothing is late.
LEMMA TickKeeps ==
    ASSUME PR!DurationsAssumption, PresenceInv, PR!Tick
    PROVE  PresenceInv'
<1> USE DEF PresenceInv
<1>1. /\ present => seen < Ttl
      /\ PR!Runs => acked <= AckLimit /\ beat < Heartbeat
      /\ ~cut => /\ up # << >> => Head(up) < MaxDelay
                 /\ down # << >> /\ PR!Runs => Head(down).age < MaxDelay
      /\ up' = (IF cut THEN up ELSE PR!Aged(up)) /\ down' = PR!AgedDown
      /\ UNCHANGED << client, asleep, present, cut, troubled >>
  BY DEF PR!Tick
<1>2. /\ beat' \in 0 .. Heartbeat /\ beat' <= beat + 1 /\ (beat < Heartbeat => beat' = beat + 1)
      /\ acked' \in 0 .. AckLimit + 1 /\ acked <= acked' /\ acked' <= acked + 1
      /\ acked <= AckLimit => acked' = acked + 1
      /\ seen' \in 0 .. Ttl /\ seen' <= seen + 1 /\ (seen < Ttl => seen' = seen + 1)
      /\ gone' \in 0 .. Ttl + MaxDelay + 1 /\ gone' <= gone + 1 /\ (PR!Runs /\ ~cut => gone' = 0)
      /\ unheard' \in 0 .. AckLimit + 2
      /\ unheard' = unheard \/ (PR!Runs /\ cut /\ unheard' <= unheard + 1)
      /\ (~cut => unheard' = unheard)
  <2>1. /\ beat \in 0 .. Heartbeat /\ acked \in 0 .. AckLimit + 1 /\ seen \in 0 .. Ttl
        /\ gone \in 0 .. Ttl + MaxDelay + 1 /\ unheard \in 0 .. AckLimit + 2
    BY DEF PresenceShaped
  <2>2. /\ Heartbeat \in Nat /\ AckLimit \in Nat /\ Ttl \in Nat /\ MaxDelay \in Nat
    BY DEF PR!DurationsAssumption
  <2>3. beat' = PR!Older(beat, Heartbeat) /\ acked' = PR!Older(acked, AckLimit + 1) /\ seen' = PR!Older(seen, Ttl)
    BY DEF PR!Tick
  <2>4. /\ gone' = IF PR!Runs /\ ~cut THEN 0 ELSE PR!Older(gone, Ttl + MaxDelay + 1)
        /\ unheard' = IF PR!Runs /\ cut THEN PR!Older(unheard, AckLimit + 2) ELSE unheard
    BY DEF PR!Tick
  <2>5. /\ beat' \in 0 .. Heartbeat /\ beat' <= beat + 1 /\ (beat < Heartbeat => beat' = beat + 1)
        /\ acked' \in 0 .. AckLimit + 1 /\ acked <= acked' /\ acked' <= acked + 1
        /\ acked <= AckLimit => acked' = acked + 1
        /\ seen' \in 0 .. Ttl /\ seen' <= seen + 1 /\ (seen < Ttl => seen' = seen + 1)
    BY <2>1, <2>2, <2>3 DEF PR!Older
  <2>6. gone' \in 0 .. Ttl + MaxDelay + 1 /\ gone' <= gone + 1 /\ (PR!Runs /\ ~cut => gone' = 0)
    BY <2>1, <2>2, <2>4 DEF PR!Older
  <2>7. /\ unheard' \in 0 .. AckLimit + 2
        /\ unheard' = unheard \/ (PR!Runs /\ cut /\ unheard' <= unheard + 1)
        /\ (~cut => unheard' = unheard)
    <3>1. CASE PR!Runs /\ cut
      BY <2>1, <2>2, <2>4, <3>1 DEF PR!Older
    <3>2. CASE ~(PR!Runs /\ cut)
      <4>1. unheard' = unheard
        BY <2>4, <3>2, Zenon
      <4>2. unheard' \in 0 .. AckLimit + 2
        BY <2>1, <4>1
      <4> QED
        BY <4>1, <4>2
    <3> QED
      BY <3>1, <3>2
  <2> QED
    BY <2>5, <2>6, <2>7
<1>3. /\ up' \in Seq(Ages) /\ Len(up') = Len(up) /\ (up' = << >> <=> up = << >>)
      /\ \A k \in 1 .. Len(up) : IF cut THEN up'[k] = up[k] ELSE up'[k] = up[k] + 1
  <2>1. CASE cut
    BY <1>1, <2>1 DEF PresenceShaped
  <2>2. CASE ~cut
    <3>1. \A k \in 1 .. Len(up) : up[k] + 1 \in Ages
      <4>1. ASSUME NEW k \in 1 .. Len(up) PROVE up[k] <= up[1] /\ up[1] < MaxDelay
        <5>1. up # << >> /\ 1 \in 1 .. Len(up)
          BY <4>1, Margins
        <5>2. Head(up) = up[1]
          BY <5>1, AtTheHead DEF PresenceShaped
        <5>3. 1 <= k
          BY Margins
        <5> QED
          BY <1>1, <2>2, <5>1, <5>2, <5>3 DEF Spaced
      <4> QED
        BY <4>1, Margins DEF Ages, PR!DurationsAssumption
    <3>2. up' = [k \in 1 .. Len(up) |-> up[k] + 1]
      BY <1>1, <2>2, LenProperties DEF PR!Aged, PresenceShaped
    <3>3. up' \in [1 .. Len(up) -> Ages] /\ Len(up) \in Nat
      BY <3>1, <3>2, Margins
    <3>4. up' \in Seq(Ages) /\ Len(up') = Len(up)
      BY <3>3, SeqDef, LenProperties
    <3>5. (up' = << >> <=> Len(up') = 0) /\ (up = << >> <=> Len(up) = 0)
      BY <3>4, EmptySeq DEF PresenceShaped
    <3> QED
      BY <2>2, <3>2, <3>4, <3>5
  <2> QED
    BY <2>1, <2>2
<1>4. /\ down' \in Seq(Word) /\ Len(down') = Len(down) /\ (down' = << >> <=> down = << >>)
      /\ \A k \in 1 .. Len(down) : /\ down'[k].kind = down[k].kind
                                   /\ down[k].age < MaxDelay => down'[k].age = down[k].age + 1
  <2>1. \A k \in 1 .. Len(down) : [down[k] EXCEPT !.age = PR!Older(@, MaxDelay)] \in Word
    <3>1. ASSUME NEW n \in 0 .. MaxDelay PROVE PR!Older(n, MaxDelay) \in 0 .. MaxDelay
      BY DEF PR!Older, PR!DurationsAssumption
    <3> QED
      BY <3>1, Margins DEF Word
  <2>2. down' = [k \in 1 .. Len(down) |-> [down[k] EXCEPT !.age = PR!Older(@, MaxDelay)]]
    BY <1>1, LenProperties DEF PR!AgedDown, PresenceShaped
  <2>3. down' \in [1 .. Len(down) -> Word] /\ Len(down) \in Nat
    BY <2>1, <2>2, Margins
  <2>4. down' \in Seq(Word) /\ Len(down') = Len(down)
    BY <2>3, SeqDef, LenProperties
  <2>5. (down' = << >> <=> Len(down') = 0) /\ (down = << >> <=> Len(down) = 0)
    BY <2>4, EmptySeq DEF PresenceShaped
  <2>6. \A k \in 1 .. Len(down) : /\ down'[k].kind = down[k].kind
                                  /\ down[k].age < MaxDelay => down'[k].age = down[k].age + 1
    BY <2>2, Margins DEF Word, PR!Older
  <2> QED
    BY <2>4, <2>5, <2>6
<1>5. PresenceShaped'
  BY <1>1, <1>2, <1>3, <1>4 DEF PresenceShaped
<1>m. \A k \in 1 .. Len(up) : (Len(up) - k) * Heartbeat \in Nat /\ up[k] \in Nat
  <2>1. \A k \in 1 .. Len(up) : Len(up) - k \in Nat
    BY Margins
  <2>2. \A n \in Nat : n * Heartbeat \in Nat
    BY Multiples
  <2>3. \A k \in 1 .. Len(up) : up[k] \in Nat
    BY Margins
  <2> QED
    BY <2>1, <2>2, <2>3
<1>t. beat \in Nat /\ beat' \in Nat /\ gone \in Nat /\ gone' \in Nat /\ seen \in Nat /\ seen' \in Nat
      /\ acked \in Nat /\ acked' \in Nat /\ Ttl \in Nat /\ MaxDelay \in Nat /\ unheard \in Nat
      /\ Heartbeat \in Nat
  BY <1>2, Margins DEF PR!DurationsAssumption
<1>6. Spaced'
  <2>1. \A k \in 1 .. Len(up) : up'[k] >= (Len(up) - k) * Heartbeat
    BY <1>3, <1>m DEF Spaced
  <2>2. ASSUME ~cut, NEW k \in 1 .. Len(up)
        PROVE  up'[k] >= gone' /\ up'[k] >= (Len(up) - k) * Heartbeat + beat'
    <3>1. up[k] >= gone /\ up[k] >= (Len(up) - k) * Heartbeat + beat /\ up'[k] = up[k] + 1
      BY <1>3, <2>2 DEF Spaced
    <3> QED
      BY <1>2, <1>m, <1>t, <3>1
  <2>3. \A i, k \in 1 .. Len(up) : i <= k => up'[i] >= up'[k]
    BY <1>3, <1>m DEF Spaced
  <2> QED
    BY <1>1, <1>3, <2>1, <2>2, <2>3 DEF Spaced
<1>7. Silent'
  <2>1. unheard <= acked /\ (~cut => unheard = 0) /\ (present => gone <= seen + MaxDelay)
    BY DEF Silent
  <2>2. unheard' <= acked'
    <3>1. CASE unheard' = unheard
      BY <1>2, <1>t, <2>1, <3>1
    <3>2. CASE PR!Runs /\ cut /\ unheard' <= unheard + 1
      BY <1>1, <1>2, <1>t, <2>1, <3>2
    <3> QED
      BY <1>2, <3>1, <3>2
  <2>3. present => gone' <= seen' + MaxDelay
    BY <1>1, <1>2, <1>t, <2>1
  <2>4. PR!Runs' => PR!Runs
    BY <1>1 DEF PR!Runs
  <2> QED
    BY <1>1, <1>2, <2>1, <2>2, <2>3, <2>4 DEF Silent
<1>8. ASSUME ~troubled' PROVE InTime'
  <2>1. ~troubled /\ ~cut /\ ~cut' /\ ~asleep' /\ client' \in {"waiting", "ready"}
    BY <1>1, <1>8 DEF InTime
  <2>2. ASSUME client = "waiting"
        PROVE  /\ \A k \in 1 .. Len(down') : down'[k].kind # "closed"
               /\ \A k \in 1 .. Len(up') : up'[k] <= (Len(up') - k) * Heartbeat + beat'
               /\ present' \/ \E k \in 1 .. Len(down') : down'[k].kind = "ready"
               /\ present' => seen' <= SinceSent'
               /\ acked' <= IF down' # << >> THEN down'[1].age + MaxDelay + Heartbeat ELSE SinceSent'
    <3>1. /\ \A k \in 1 .. Len(down) : down[k].kind # "closed"
          /\ \A k \in 1 .. Len(up) : up[k] <= (Len(up) - k) * Heartbeat + beat
          /\ present \/ \E k \in 1 .. Len(down) : down[k].kind = "ready"
          /\ present => seen <= SinceSent
          /\ acked <= IF down # << >> THEN down[1].age + MaxDelay + Heartbeat ELSE SinceSent
      BY <2>1, <2>2 DEF InTime
    <3>2. PR!Runs /\ beat' = beat + 1
      BY <1>1, <1>2, <2>1, <2>2 DEF PR!Runs
    <3>3. SinceSent' = SinceSent + 1
      <4>1. CASE up = << >>
        BY <1>3, <3>2, <4>1 DEF SinceSent
      <4>2. CASE up # << >>
        <5>1. 1 \in 1 .. Len(up)
          BY <4>2, Margins
        <5> QED
          BY <1>3, <1>m, <1>t, <2>1, <4>2, <5>1 DEF SinceSent
      <4> QED
        BY <4>1, <4>2
    <3>4. \A k \in 1 .. Len(up') : up'[k] <= (Len(up') - k) * Heartbeat + beat'
      <4> SUFFICES ASSUME NEW k \in 1 .. Len(up) PROVE up'[k] <= (Len(up) - k) * Heartbeat + beat'
        BY <1>3
      <4>1. up[k] <= (Len(up) - k) * Heartbeat + beat /\ up'[k] = up[k] + 1
        BY <1>3, <2>1, <3>1
      <4> QED
        BY <1>m, <1>t, <3>2, <4>1
    <3>5. acked' <= IF down' # << >> THEN down'[1].age + MaxDelay + Heartbeat ELSE SinceSent'
      <4>1. CASE down # << >>
        <5>1. 1 \in 1 .. Len(down) /\ Head(down) = down[1] /\ down[1] \in Word
          BY <4>1, Margins
        <5>2. down'[1].age = down[1].age + 1 /\ down' # << >> /\ down[1].age \in Nat
          BY <1>1, <1>4, <2>1, <3>2, <4>1, <5>1 DEF Word
        <5>3. acked <= down[1].age + MaxDelay + Heartbeat
          BY <3>1, <4>1
        <5>4. acked' <= down'[1].age + MaxDelay + Heartbeat
          <6>1. acked' <= acked + 1
            BY <1>2
          <6> DEFINE x == down[1].age
                     y == down'[1].age
          <6>2. y = x + 1 /\ x \in Nat /\ acked <= x + MaxDelay + Heartbeat
            BY <5>2, <5>3
          <6> HIDE DEF x, y
          <6>3. acked' <= y + MaxDelay + Heartbeat
            BY <1>t, <6>1, <6>2
          <6> QED
            BY <6>3 DEF y
        <5> QED
          BY <5>2, <5>4
      <4>2. CASE down = << >>
        <5>1. acked' <= SinceSent'
          BY SMTT(30), <1>2, <1>t, <3>1, <3>3, <4>2, Margins
        <5> QED
          BY <1>4, <4>2, <5>1
      <4> QED
        BY <4>1, <4>2
    <3>6. present' => seen' <= SinceSent'
      BY <1>1, <1>2, <1>t, <3>1, <3>3, Margins
    <3>7. \A k \in 1 .. Len(down) : down'[k].kind = down[k].kind
      BY <1>4
    <3> QED
      BY <1>1, <1>4, <3>1, <3>4, <3>5, <3>6, <3>7
  <2> QED
    BY <1>1, <2>1, <2>2 DEF InTime
<1> QED
  BY <1>5, <1>6, <1>7, <1>8 DEF InTime

LEMMA TroubleKeeps ==
    ASSUME PR!DurationsAssumption, PresenceInv, PR!Cut \/ PR!Sleep \/ PR!Wake
    PROVE  PresenceInv'
<1> USE DEF PresenceInv
<1>1. /\ UNCHANGED << client, beat, acked, up, down, present, seen, unheard >>
      /\ asleep' \in BOOLEAN /\ cut' \in BOOLEAN /\ (cut => cut')
      /\ gone' \in {0, gone} /\ (cut => gone' = gone) /\ (~cut' => (asleep' \/ gone' = 0 \/ ~asleep))
      /\ troubled' /\ (asleep' => client = "waiting")
  <2>1. asleep => troubled /\ client = "waiting"
    BY DEF InTime, PresenceShaped
  <2>2. CASE PR!Cut
    BY <2>1, <2>2 DEF PR!Cut, PresenceShaped
  <2>3. CASE PR!Sleep
    BY <2>3 DEF PR!Sleep, PresenceShaped, PR!Runs
  <2>4. CASE PR!Wake
    BY <2>1, <2>4 DEF PR!Wake, PresenceShaped
  <2> QED
    BY <2>2, <2>3, <2>4
<1>2. PresenceShaped'
  BY <1>1 DEF PresenceShaped, PR!DurationsAssumption
<1>3. Spaced'
  <2>1. ~cut' => ~cut /\ \A k \in 1 .. Len(up) : up[k] >= gone'
    BY <1>1, Margins DEF Spaced
  <2> QED
    BY <1>1, <2>1 DEF Spaced
<1>4. Silent'
  <2>1. gone' <= gone
    BY <1>1, Margins
  <2>2. present' => gone' <= seen' + MaxDelay
    BY <1>1, <2>1, Margins DEF Silent, PR!DurationsAssumption
  <2>3. PR!Runs' /\ ~cut' => gone' = 0
    BY <1>1 DEF Silent, PR!Runs
  <2> QED
    BY <1>1, <2>2, <2>3 DEF Silent
<1>5. InTime'
  BY <1>1 DEF InTime
<1> QED
  BY <1>2, <1>3, <1>4, <1>5

LEMMA PresenceStep == PR!DurationsAssumption /\ PresenceInv /\ [PR!Next]_(PR!vars) => PresenceInv'
<1>1. ASSUME PresenceInv, UNCHANGED PR!vars PROVE PresenceInv'
  BY <1>1 DEF PR!vars, PresenceInv, PresenceShaped, Spaced, InTime, SinceSent, Silent, PR!Runs
<1> QED
  BY <1>1, GiveUpKeeps, ReadKeeps, BeatKeeps, HearKeeps, UnlistingKeeps, TickKeeps, TroubleKeeps
     DEF PR!Next

\* What the invariant says of the properties
LEMMA PresenceIsSafe ==
    ASSUME PR!DurationsAssumption, PresenceInv
    PROVE  /\ PR!TypeOK /\ PR!StaysReachable /\ PR!NoFalseTimeout
           /\ PR!SilenceNoticed /\ PR!StaleEntryBounded
<1> USE DEF PresenceInv
<1>1. PR!StaysReachable
  <2>1. DOMAIN down = 1 .. Len(down)
    BY LenProperties DEF PresenceShaped
  <2> QED
    BY <2>1 DEF PR!StaysReachable, InTime
<1>2. PR!NoFalseTimeout
  BY DEF PR!NoFalseTimeout, InTime
<1>3. PR!SilenceNoticed
  <2>1. unheard <= acked /\ acked \in 0 .. AckLimit + 1 /\ unheard \in Nat /\ AckLimit \in Nat
    BY Margins DEF Silent, PresenceShaped, PR!DurationsAssumption
  <2> QED
    BY <2>1 DEF PR!SilenceNoticed
<1>4. PR!StaleEntryBounded
  <2>1. present => gone <= seen + MaxDelay
    BY DEF Silent
  <2>2. seen \in 0 .. Ttl /\ gone \in Nat /\ Ttl \in Nat /\ MaxDelay \in Nat
    BY Margins DEF PresenceShaped, PR!DurationsAssumption
  <2> QED
    BY <2>1, <2>2 DEF PR!StaleEntryBounded
<1>5. Len(up) <= (MaxDelay \div Heartbeat) + 1
  <2>1. CASE Len(up) = 0
    <3>1. MaxDelay \div Heartbeat >= 0
      BY DEF PR!DurationsAssumption
    <3>2. MaxDelay \div Heartbeat \in Int
      BY DEF PR!DurationsAssumption
    <3> QED
      BY <2>1, <3>1, <3>2
  <2>2. CASE Len(up) > 0
    <3>1. 1 \in 1 .. Len(up) /\ Len(up) - 1 \in Nat
      BY <2>2, Margins
    <3>2. (Len(up) - 1) * Heartbeat <= up[1] /\ up[1] \in Nat /\ up[1] <= MaxDelay
      BY <3>1, Margins DEF Spaced
    <3>3. (Len(up) - 1) * Heartbeat \in Nat /\ MaxDelay \in Nat
      BY <3>1, Multiples DEF PR!DurationsAssumption
    <3>4. (Len(up) - 1) * Heartbeat <= MaxDelay
      BY <3>2, <3>3
    <3>5. Len(up) - 1 <= MaxDelay \div Heartbeat
      BY <3>1, <3>4, Multiples
    <3>6. MaxDelay \div Heartbeat \in Int
      BY DEF PR!DurationsAssumption
    <3> QED
      BY <3>1, <3>5, <3>6, Margins
  <2> QED
    BY <2>1, <2>2, Margins
<1>6. PR!TypeOK
  BY <1>5 DEF PR!TypeOK, PresenceShaped, Word, PR!Kinds, Ages
<1> QED
  BY <1>1, <1>2, <1>3, <1>4, <1>6


-----------------------------------------------------------------------------
(* The bridge *)

\* A byte is a number, a message a sequence of them
Messages == Seq(BR!Bytes)
Letter   == [kind : {"binary", "ping", "close"}, bytes : Messages]
PingSent == [kind |-> "ping", bytes |-> << >>]

\* The messages of s carry the bytes from a on up to b, each once and in order
Carries(s, a, b) ==
    \E c \in [0 .. Len(s) -> Nat] :
        /\ c[0] = a /\ c[Len(s)] = b
        /\ \A i \in 0 .. Len(s) : c[i] <= b
        /\ \A i \in 1 .. Len(s) : /\ c[i] = c[i - 1] + Len(s[i])
                                  /\ \A k \in 1 .. Len(s[i]) : s[i][k] = c[i - 1] + k

\* Message x occurs in s as often as it takes to come from a to b
Occurs(s, x, a, b) ==
    \E c \in [0 .. Len(s) -> Nat] :
        /\ c[0] = a /\ c[Len(s)] = b
        /\ \A i \in 0 .. Len(s) : c[i] <= b
        /\ \A i \in 1 .. Len(s) : c[i] = c[i - 1] + (IF s[i] = x THEN 1 ELSE 0)

\* The bytes of s are those after n
Follows(s, n) == \A k \in 1 .. Len(s) : s[k] = n + k

\* What the bridge has taken from the program and the service has not read
Outbound == wire \o unsent
\* The bytes of the messages it has not read
Loads(s) == [i \in 1 .. Len(s) |-> s[i].bytes]
Inbound == Loads(inbox)

BridgeShaped ==
    /\ at \in BR!Places
    /\ sentUp \in 0 .. MaxBytes /\ sentDown \in 0 .. MaxBytes
    /\ tcpIn \in Messages /\ Len(tcpIn) <= TcpRoom
    /\ tcpOut \in Messages /\ Len(tcpOut) <= TcpRoom
    /\ unsent \in Seq(Messages) /\ wire \in Seq(Messages) /\ Len(wire) <= WireRoom
    /\ pendingTcp \in Messages /\ Len(pendingTcp) <= 2
    /\ gotUp \in Messages /\ gotDown \in Messages
    /\ inbox \in Seq(Letter)
    /\ \A i \in 1 .. Len(inbox) : /\ Len(inbox[i].bytes) <= 2
                                  /\ inbox[i].kind # "binary" => inbox[i].bytes = << >>
    /\ blocked \in BOOLEAN /\ fresh \in BOOLEAN /\ progressed \in BOOLEAN /\ hangup \in BOOLEAN
    /\ stalled \in 0 .. StallLimit
    /\ pings \in 0 .. MaxPings /\ pongs \in Nat
    /\ ended \in {"no", "hangup", "service", "stalled", "error"}

\* What is held of the program's bytes is one message, and nothing is read while anything is held
HeldOnce ==
    /\ \A i, j \in 1 .. Len(unsent) : unsent[i] # BR!Pong /\ unsent[j] # BR!Pong => i = j
    /\ unsent # << >> => blocked

Upwards ==
    /\ Follows(gotUp, 0)
    /\ Len(tcpIn) <= sentUp
    /\ Carries(Outbound, Len(gotUp), sentUp - Len(tcpIn))
    /\ Follows(tcpIn, sentUp - Len(tcpIn))

Downwards ==
    /\ Follows(gotDown, 0)
    /\ Follows(tcpOut, Len(gotDown))
    /\ Follows(pendingTcp, Len(gotDown) + Len(tcpOut))
    /\ Carries(Inbound, Len(gotDown) + Len(tcpOut) + Len(pendingTcp), sentDown)

\* Each ping of the service is on its way, or its answer is, or that has arrived
Answered ==
    \E n \in Nat : Occurs(inbox, PingSent, n, pings) /\ Occurs(Outbound, BR!Pong, pongs, n)

\* How it ends
Endings ==
    /\ at = "ended" <=> ended # "no"
    /\ BR!HangupLosesNothing /\ BR!GivesUpOnlyWhenStuck
    /\ at \in {"push", "account"} /\ ~fresh /\ ~progressed => inbox = << >> \/ pendingTcp # << >>

BridgeInv == BridgeShaped /\ HeldOnce /\ Upwards /\ Downwards /\ Answered /\ Endings

-----------------------------------------------------------------------------
(* Messages carried and counted *)

\* One more at the end of what is carried, or counted
LEMMA CarriesMore ==
    ASSUME NEW s \in Seq(Messages), NEW m \in Messages, NEW p \in Nat, NEW q \in Nat,
           Carries(s, p, q), Follows(m, q)
    PROVE  Carries(Append(s, m), p, q + Len(m))
<1>1. PICK c \in [0 .. Len(s) -> Nat] :
        /\ c[0] = p /\ c[Len(s)] = q
        /\ \A i \in 0 .. Len(s) : c[i] <= q
        /\ \A i \in 1 .. Len(s) : /\ c[i] = c[i - 1] + Len(s[i])
                                  /\ \A k \in 1 .. Len(s[i]) : s[i][k] = c[i - 1] + k
  BY DEF Carries
<1> DEFINE t == Append(s, m)
           d == [i \in 0 .. Len(t) |-> IF i = Len(t) THEN q + Len(m) ELSE c[i]]
<1>2. /\ Len(s) \in Nat /\ Len(m) \in Nat /\ Len(t) = Len(s) + 1
      /\ t[Len(t)] = m /\ \A i \in 1 .. Len(s) : t[i] = s[i]
  BY AppendProperties, LenProperties DEF Messages
<1> HIDE DEF t
<1>3. d \in [0 .. Len(t) -> Nat] /\ d[0] = p /\ d[Len(t)] = q + Len(m)
  BY <1>1, <1>2
<1>4. \A i \in 0 .. Len(t) : d[i] <= q + Len(m)
  BY <1>1, <1>2
<1>5. ASSUME NEW i \in 1 .. Len(t)
      PROVE  /\ d[i] = d[i - 1] + Len(t[i])
             /\ \A k \in 1 .. Len(t[i]) : t[i][k] = d[i - 1] + k
  <2>1. CASE i = Len(t)
    <3>1. d[i] = q + Len(m) /\ d[i - 1] = q /\ t[i] = m
      BY <1>1, <1>2, <2>1
    <3> QED
      BY <3>1 DEF Follows
  <2>2. CASE i # Len(t)
    <3>1. i \in 1 .. Len(s) /\ d[i] = c[i] /\ d[i - 1] = c[i - 1] /\ t[i] = s[i]
      BY <1>1, <1>2, <2>2
    <3> QED
      BY <1>1, <3>1
  <2> QED
    BY <2>1, <2>2
<1> HIDE DEF d
<1>6. Carries(t, p, q + Len(m))
  BY <1>3, <1>4, <1>5 DEF Carries
<1> QED
  BY <1>6 DEF t

LEMMA OccursMore ==
    ASSUME NEW S, NEW s \in Seq(S), NEW m \in S, NEW x, NEW p \in Nat, NEW q \in Nat,
           Occurs(s, x, p, q)
    PROVE  Occurs(Append(s, m), x, p, IF m = x THEN q + 1 ELSE q)
<1>1. PICK c \in [0 .. Len(s) -> Nat] :
        /\ c[0] = p /\ c[Len(s)] = q
        /\ \A i \in 0 .. Len(s) : c[i] <= q
        /\ \A i \in 1 .. Len(s) : c[i] = c[i - 1] + (IF s[i] = x THEN 1 ELSE 0)
  BY DEF Occurs
<1> DEFINE t == Append(s, m)
           r == IF m = x THEN q + 1 ELSE q
           d == [i \in 0 .. Len(t) |-> IF i = Len(t) THEN r ELSE c[i]]
<1>2. /\ Len(s) \in Nat /\ Len(t) = Len(s) + 1
      /\ t[Len(t)] = m /\ \A i \in 1 .. Len(s) : t[i] = s[i]
  BY AppendProperties, LenProperties
<1>r. r \in Nat /\ q <= r /\ r = q + (IF m = x THEN 1 ELSE 0)
  OBVIOUS
<1> HIDE DEF t, r
<1>3. d \in [0 .. Len(t) -> Nat] /\ d[0] = p /\ d[Len(t)] = r
  BY <1>1, <1>2, <1>r
<1>4. \A i \in 0 .. Len(t) : d[i] <= r
  BY SMTT(30), <1>1, <1>2, <1>r
<1>5. ASSUME NEW i \in 1 .. Len(t)
      PROVE  d[i] = d[i - 1] + (IF t[i] = x THEN 1 ELSE 0)
  <2>1. CASE i = Len(t)
    <3>1. d[i] = r /\ d[i - 1] = q /\ t[i] = m
      BY <1>1, <1>2, <2>1
    <3> QED
      BY <1>r, <3>1
  <2>2. CASE i # Len(t)
    <3>1. i \in 1 .. Len(s) /\ d[i] = c[i] /\ d[i - 1] = c[i - 1] /\ t[i] = s[i]
      BY <1>1, <1>2, <2>2
    <3> QED
      BY <1>1, <3>1
  <2> QED
    BY <2>1, <2>2
<1> HIDE DEF d
<1>6. Occurs(t, x, p, r)
  BY <1>3, <1>4, <1>5 DEF Occurs
<1> QED
  BY <1>6 DEF t, r

\* One less at its head
LEMMA CarriesLess ==
    ASSUME NEW s \in Seq(Messages), s # << >>, NEW p \in Nat, NEW q \in Nat, Carries(s, p, q)
    PROVE  /\ Head(s) \in Messages /\ Len(Head(s)) \in Nat
           /\ Follows(Head(s), p) /\ p + Len(Head(s)) <= q
           /\ Carries(Tail(s), p + Len(Head(s)), q)
<1>1. PICK c \in [0 .. Len(s) -> Nat] :
        /\ c[0] = p /\ c[Len(s)] = q
        /\ \A i \in 0 .. Len(s) : c[i] <= q
        /\ \A i \in 1 .. Len(s) : /\ c[i] = c[i - 1] + Len(s[i])
                                  /\ \A k \in 1 .. Len(s[i]) : s[i][k] = c[i - 1] + k
  BY DEF Carries
<1> DEFINE t == Tail(s)
           d == [i \in 0 .. Len(t) |-> c[i + 1]]
<1>2. /\ Len(s) \in Nat /\ Len(t) \in Nat /\ Len(s) = Len(t) + 1
      /\ Head(s) = s[1] /\ \A i \in 1 .. Len(t) : t[i] = s[i + 1]
  BY HeadTailProperties, LenProperties
<1>3. Head(s) \in Messages /\ Len(Head(s)) \in Nat
  BY HeadTailProperties, LenProperties DEF Messages
<1> HIDE DEF t
<1>4. c[1] = p + Len(Head(s)) /\ Follows(Head(s), p) /\ c[1] <= q
  <2>1. 1 \in 1 .. Len(s) /\ 1 - 1 = 0 /\ 1 \in 0 .. Len(s)
    BY <1>2
  <2>2. c[1] = c[1 - 1] + Len(s[1]) /\ \A k \in 1 .. Len(s[1]) : s[1][k] = c[1 - 1] + k
    BY <1>1, <2>1
  <2> QED
    BY <1>1, <1>2, <2>1, <2>2 DEF Follows
<1>5. d \in [0 .. Len(t) -> Nat] /\ d[0] = c[1] /\ d[Len(t)] = q
  BY <1>1, <1>2
<1>6. \A i \in 0 .. Len(t) : d[i] <= q
  BY <1>1, <1>2
<1>7. ASSUME NEW i \in 1 .. Len(t)
      PROVE  /\ d[i] = d[i - 1] + Len(t[i])
             /\ \A k \in 1 .. Len(t[i]) : t[i][k] = d[i - 1] + k
  <2>1. /\ i + 1 \in 1 .. Len(s) /\ (i + 1) - 1 = i /\ t[i] = s[i + 1]
        /\ d[i] = c[i + 1] /\ d[i - 1] = c[i]
    BY <1>2
  <2> QED
    BY <1>1, <2>1
<1> HIDE DEF d
<1>8. Carries(t, c[1], q)
  BY <1>5, <1>6, <1>7 DEF Carries
<1> QED
  BY <1>3, <1>4, <1>8 DEF t

LEMMA OccursLess ==
    ASSUME NEW S, NEW s \in Seq(S), s # << >>, NEW x, NEW p \in Nat, NEW q \in Nat,
           Occurs(s, x, p, q)
    PROVE  LET r == IF Head(s) = x THEN p + 1 ELSE p IN r <= q /\ Occurs(Tail(s), x, r, q)
<1>1. PICK c \in [0 .. Len(s) -> Nat] :
        /\ c[0] = p /\ c[Len(s)] = q
        /\ \A i \in 0 .. Len(s) : c[i] <= q
        /\ \A i \in 1 .. Len(s) : c[i] = c[i - 1] + (IF s[i] = x THEN 1 ELSE 0)
  BY DEF Occurs
<1> DEFINE t == Tail(s)
           d == [i \in 0 .. Len(t) |-> c[i + 1]]
<1>2. /\ Len(s) \in Nat /\ Len(t) \in Nat /\ Len(s) = Len(t) + 1
      /\ Head(s) = s[1] /\ \A i \in 1 .. Len(t) : t[i] = s[i + 1]
  BY HeadTailProperties, LenProperties
<1> HIDE DEF t
<1>4. c[1] = (IF Head(s) = x THEN p + 1 ELSE p) /\ c[1] <= q
  <2>1. 1 \in 1 .. Len(s) /\ 1 - 1 = 0 /\ 1 \in 0 .. Len(s)
    BY <1>2
  <2>2. c[1] = c[1 - 1] + (IF s[1] = x THEN 1 ELSE 0)
    BY <1>1, <2>1
  <2> QED
    BY <1>1, <1>2, <2>1, <2>2
<1>5. d \in [0 .. Len(t) -> Nat] /\ d[0] = c[1] /\ d[Len(t)] = q
  BY <1>1, <1>2
<1>6. \A i \in 0 .. Len(t) : d[i] <= q
  BY <1>1, <1>2
<1>7. ASSUME NEW i \in 1 .. Len(t)
      PROVE  d[i] = d[i - 1] + (IF t[i] = x THEN 1 ELSE 0)
  <2>1. /\ i + 1 \in 1 .. Len(s) /\ (i + 1) - 1 = i /\ t[i] = s[i + 1]
        /\ d[i] = c[i + 1] /\ d[i - 1] = c[i]
    BY <1>2
  <2> QED
    BY <1>1, <2>1
<1> HIDE DEF d
<1>8. Occurs(t, x, c[1], q)
  BY <1>5, <1>6, <1>7 DEF Occurs
<1> QED
  BY <1>4, <1>8 DEF t

\* Nothing carries nothing, and what is carried does not go back
LEMMA CarriesNothing ==
    ASSUME NEW p \in Nat
    PROVE  Carries(<< >>, p, p) /\ \A x : Occurs(<< >>, x, p, p)
<1> DEFINE c == [i \in 0 .. 0 |-> p]
<1>1. c \in [0 .. 0 -> Nat] /\ c[0] = p /\ \A i \in 0 .. 0 : c[i] <= p
  OBVIOUS
<1>2. Len(<< >>) = 0 /\ \A i \in 1 .. 0 : FALSE
  BY EmptySeq
<1> HIDE DEF c
<1> QED
  BY <1>1, <1>2 DEF Carries, Occurs

LEMMA Forward ==
    ASSUME NEW s, Len(s) \in Nat, NEW p, NEW q
    PROVE  (Carries(s, p, q) => p \in Nat /\ q \in Nat /\ p <= q) /\ \A x : Occurs(s, x, p, q) => p <= q
<1>1. 0 \in 0 .. Len(s) /\ Len(s) \in 0 .. Len(s)
  OBVIOUS
<1> QED
  BY <1>1 DEF Carries, Occurs

\* A sequence of bytes that follows n, cut or continued
LEMMA FollowsJoined ==
    ASSUME NEW s \in Messages, NEW t \in Messages, NEW n \in Nat,
           Follows(s, n), Follows(t, n + Len(s))
    PROVE  s \o t \in Messages /\ Len(s \o t) = Len(s) + Len(t) /\ Follows(s \o t, n)
<1>1. s \o t \in Messages /\ Len(s \o t) = Len(s) + Len(t) /\ Len(s) \in Nat /\ Len(t) \in Nat
  BY ConcatProperties, LenProperties DEF Messages
<1>2. ASSUME NEW k \in 1 .. Len(s) + Len(t) PROVE (s \o t)[k] = n + k
  <2>1. (s \o t)[k] = IF k <= Len(s) THEN s[k] ELSE t[k - Len(s)]
    BY ConcatProperties DEF Messages
  <2>2. CASE k <= Len(s)
    BY <1>1, <2>1, <2>2 DEF Follows
  <2>3. CASE ~(k <= Len(s))
    <3>1. k - Len(s) \in 1 .. Len(t)
      BY <1>1, <2>3
    <3>2. t[k - Len(s)] = (n + Len(s)) + (k - Len(s))
      BY <3>1 DEF Follows
    <3> QED
      BY <1>1, <2>1, <2>3, <3>2
  <2> QED
    BY <2>2, <2>3
<1> QED
  BY <1>1, <1>2 DEF Follows

LEMMA FollowsCut ==
    ASSUME NEW s \in Messages, NEW n \in Nat, Follows(s, n), NEW m \in 0 .. Len(s)
    PROVE  LET t == SubSeq(s, 1, m)
               u == SubSeq(s, m + 1, Len(s)) IN
           /\ t \in Messages /\ Len(t) = m /\ Follows(t, n)
           /\ u \in Messages /\ Len(u) = Len(s) - m /\ Follows(u, n + m)
<1> DEFINE t == SubSeq(s, 1, m)
           u == SubSeq(s, m + 1, Len(s))
<1>1. Len(s) \in Nat /\ \A k \in 1 .. Len(s) : s[k] \in BR!Bytes
  BY LenProperties, ElementOfSeq DEF Messages
<1>2. t \in Messages /\ Len(t) = m /\ \A i \in 1 .. m : t[i] = s[i]
  <2>1. \A i \in 1 .. m : s[i] \in BR!Bytes
    BY <1>1
  <2>2. /\ t \in Seq(BR!Bytes) /\ Len(t) = IF 1 <= m THEN m - 1 + 1 ELSE 0
        /\ \A i \in 1 .. m - 1 + 1 : t[i] = s[1 + i - 1]
    BY <1>1, <2>1, SubSeqProperties
  <2> QED
    BY <1>1, <2>2 DEF Messages
<1>3. u \in Messages /\ Len(u) = Len(s) - m /\ \A i \in 1 .. Len(u) : u[i] = s[m + i]
  <2>1. \A i \in m + 1 .. Len(s) : s[i] \in BR!Bytes
    BY <1>1
  <2>2. /\ u \in Seq(BR!Bytes) /\ Len(u) = IF m + 1 <= Len(s) THEN Len(s) - (m + 1) + 1 ELSE 0
        /\ \A i \in 1 .. Len(s) - (m + 1) + 1 : u[i] = s[(m + 1) + i - 1]
    BY <1>1, <2>1, SubSeqProperties
  <2>3. Len(u) = Len(s) - m
    BY <1>1, <2>2
  <2> QED
    BY <1>1, <2>2, <2>3 DEF Messages
<1> HIDE DEF t, u
<1>4. Follows(t, n) /\ Follows(u, n + m)
  BY <1>1, <1>2, <1>3 DEF Follows
<1> QED
  BY <1>2, <1>3, <1>4 DEF t, u

\* The bytes of a message more, or less
LEMMA LoadsMoved ==
    ASSUME NEW s \in Seq(Letter)
    PROVE  /\ Loads(s) \in Seq(Messages) /\ Len(Loads(s)) = Len(s)
           /\ \A m \in Letter : Loads(Append(s, m)) = Append(Loads(s), m.bytes)
           /\ s # << >> => /\ Loads(s) # << >> /\ Head(Loads(s)) = Head(s).bytes
                           /\ Loads(Tail(s)) = Tail(Loads(s))
<1>1. Len(s) \in Nat /\ \A i \in 1 .. Len(s) : s[i] \in Letter
  BY LenProperties, ElementOfSeq
<1>2. ASSUME NEW r \in Seq(Letter)
      PROVE  /\ Loads(r) \in Seq(Messages) /\ Len(Loads(r)) = Len(r)
             /\ \A i \in 1 .. Len(r) : Loads(r)[i] = r[i].bytes
  <2>1. Len(r) \in Nat /\ \A i \in 1 .. Len(r) : r[i].bytes \in Messages
    <3>1. Len(r) \in Nat /\ \A i \in 1 .. Len(r) : r[i] \in Letter
      BY LenProperties, ElementOfSeq
    <3>2. \A m \in Letter : m.bytes \in Messages
      BY DEF Letter
    <3> QED
      BY <3>1, <3>2
  <2>2. Loads(r) \in [1 .. Len(r) -> Messages]
    BY <2>1 DEF Loads
  <2>3. Loads(r) \in Seq(Messages)
    BY <2>1, <2>2, SeqDef
  <2>4. DOMAIN Loads(r) = 1 .. Len(Loads(r)) /\ Len(Loads(r)) \in Nat
    BY <2>3, LenProperties
  <2>5. DOMAIN Loads(r) = 1 .. Len(r)
    BY DEF Loads
  <2>6. Len(Loads(r)) = Len(r)
    BY <2>1, <2>4, <2>5
  <2> QED
    BY <2>3, <2>6 DEF Loads
<1>3. ASSUME NEW m \in Letter PROVE Loads(Append(s, m)) = Append(Loads(s), m.bytes)
  <2>0. m.bytes \in Messages
    BY DEF Letter
  <2> DEFINE u == Append(s, m)
             v == Append(Loads(s), m.bytes)
  <2>1. /\ u \in Seq(Letter) /\ Len(u) = Len(s) + 1 /\ u[Len(s) + 1] = m
        /\ \A i \in 1 .. Len(s) : u[i] = s[i]
    BY AppendProperties
  <2>2. /\ Loads(s) \in Seq(Messages) /\ Len(Loads(s)) = Len(s)
        /\ \A i \in 1 .. Len(s) : Loads(s)[i] = s[i].bytes
    BY <1>2
  <2>3. /\ v \in Seq(Messages) /\ Len(v) = Len(s) + 1 /\ v[Len(s) + 1] = m.bytes
        /\ \A i \in 1 .. Len(s) : v[i] = s[i].bytes
    BY <2>0, <2>2, AppendProperties
  <2> HIDE DEF u, v
  <2>4. /\ Loads(u) \in Seq(Messages) /\ Len(Loads(u)) = Len(s) + 1
        /\ \A i \in 1 .. Len(s) + 1 : Loads(u)[i] = u[i].bytes
    BY <1>2, <2>1
  <2>5. ASSUME NEW i \in 1 .. Len(s) + 1 PROVE Loads(u)[i] = v[i]
    <3>1. CASE i = Len(s) + 1
      BY <2>1, <2>3, <2>4, <3>1
    <3>2. CASE i # Len(s) + 1
      <4>1. i \in 1 .. Len(s)
        BY <1>1, <3>2
      <4> QED
        BY <2>1, <2>3, <2>4, <4>1
    <3> QED
      BY <3>1, <3>2
  <2>6. Loads(u) = v
    BY <2>3, <2>4, <2>5, SeqEqual
  <2> QED
    BY <2>6 DEF u, v
<1>4. ASSUME s # << >>
      PROVE  /\ Loads(s) # << >> /\ Head(Loads(s)) = Head(s).bytes
             /\ Loads(Tail(s)) = Tail(Loads(s))
  <2> DEFINE u == Tail(s)
             v == Tail(Loads(s))
  <2>1. /\ u \in Seq(Letter) /\ Len(u) = Len(s) - 1 /\ Len(s) > 0
        /\ \A i \in 1 .. Len(u) : u[i] = s[i + 1]
    BY <1>1, <1>4, HeadTailProperties, EmptySeq
  <2>2. /\ Loads(s) \in Seq(Messages) /\ Len(Loads(s)) = Len(s)
        /\ \A i \in 1 .. Len(s) : Loads(s)[i] = s[i].bytes
    BY <1>2
  <2>3. Loads(s) # << >> /\ Head(Loads(s)) = Loads(s)[1] /\ Head(s) = s[1]
    BY <2>1, <2>2, EmptySeq
  <2>4. /\ v \in Seq(Messages) /\ Len(v) = Len(s) - 1
        /\ \A i \in 1 .. Len(v) : v[i] = Loads(s)[i + 1]
    BY <2>2, <2>3, HeadTailProperties
  <2> HIDE DEF u, v
  <2>5. /\ Loads(u) \in Seq(Messages) /\ Len(Loads(u)) = Len(u)
        /\ \A i \in 1 .. Len(u) : Loads(u)[i] = u[i].bytes
    BY <1>2, <2>1
  <2>6. ASSUME NEW i \in 1 .. Len(u) PROVE Loads(u)[i] = v[i]
    <3>1. i + 1 \in 1 .. Len(s) /\ i \in 1 .. Len(v)
      BY <1>1, <2>1, <2>4
    <3> QED
      BY <2>1, <2>2, <2>4, <2>5, <3>1
  <2>7. Loads(u) = v
    BY <2>1, <2>4, <2>5, <2>6, SeqEqual
  <2>8. 1 \in 1 .. Len(s)
    BY <1>1, <2>1
  <2> QED
    BY <2>2, <2>3, <2>7, <2>8 DEF u, v
<1> QED
  BY <1>2, <1>3, <1>4

-----------------------------------------------------------------------------
LEMMA BridgeInit == BR!ConstantsAssumption /\ BR!Init => BridgeInv
<1> SUFFICES ASSUME BR!ConstantsAssumption, BR!Init PROVE BridgeInv
  OBVIOUS
<1>1. /\ \A S : << >> \in Seq(S)
      /\ Len(<< >>) = 0 /\ \A i \in 1 .. 0 : FALSE
  BY EmptySeq
<1>2. BridgeShaped
  <2>1. << >> \in Messages /\ << >> \in Seq(Messages) /\ << >> \in Seq(Letter)
    BY <1>1 DEF Messages
  <2> QED
    <3>1. /\ 0 \in 0 .. MaxBytes /\ 0 \in 0 .. MaxPings /\ 0 \in 0 .. StallLimit
          /\ 0 <= TcpRoom /\ 0 <= WireRoom /\ 0 <= 2 /\ 0 \in Nat
      BY DEF BR!ConstantsAssumption
    <3>2. /\ tcpIn = << >> /\ tcpOut = << >> /\ unsent = << >> /\ wire = << >> /\ pendingTcp = << >>
          /\ gotUp = << >> /\ gotDown = << >> /\ inbox = << >>
          /\ Len(tcpIn) = 0 /\ Len(tcpOut) = 0 /\ Len(wire) = 0 /\ Len(pendingTcp) = 0 /\ Len(inbox) = 0
      BY <1>1 DEF BR!Init
    <3>3. /\ tcpIn \in Messages /\ tcpOut \in Messages /\ pendingTcp \in Messages
          /\ gotUp \in Messages /\ gotDown \in Messages
          /\ unsent \in Seq(Messages) /\ wire \in Seq(Messages) /\ inbox \in Seq(Letter)
      BY <2>1, <3>2
    <3>4. \A i \in 1 .. Len(inbox) : FALSE
      BY <1>1, <3>2
    <3> QED
      BY <3>1, <3>2, <3>3, <3>4 DEF BR!Init, BridgeShaped, BR!Places
<1>3. HeldOnce
  BY <1>1 DEF BR!Init, HeldOnce
<1>4. Outbound = << >> /\ Inbound = << >>
  <2>1. << >> \in Seq(Letter) /\ << >> \in Seq(Messages)
    BY <1>1
  <2>2. Inbound = << >>
    <3>1. Loads(<< >>) \in Seq(Messages) /\ Len(Loads(<< >>)) = 0
      BY <1>1, <2>1, LoadsMoved
    <3> QED
      BY <3>1, EmptySeq DEF BR!Init, Inbound
  <2>3. Outbound = << >>
    BY <2>1, ConcatEmptySeq DEF BR!Init, Outbound
  <2> QED
    BY <2>2, <2>3
<1>5. Carries(<< >>, 0, 0) /\ \A x : Occurs(<< >>, x, 0, 0)
  BY CarriesNothing
<1>6. Upwards /\ Downwards
  BY <1>1, <1>4, <1>5 DEF BR!Init, Upwards, Downwards, Follows
<1>7. Answered
  BY <1>4, <1>5 DEF BR!Init, Answered
<1>8. Endings
  BY DEF BR!Init, Endings, BR!HangupLosesNothing, BR!GivesUpOnlyWhenStuck
<1> QED
  BY <1>2, <1>3, <1>6, <1>7, <1>8 DEF BridgeInv

\* The numbers of it
LEMMA BridgeNumbers ==
    ASSUME BR!ConstantsAssumption, BridgeInv
    PROVE  /\ Len(gotUp) \in Nat /\ Len(tcpIn) \in Nat /\ Len(gotDown) \in Nat
           /\ Len(tcpOut) \in Nat /\ Len(pendingTcp) \in Nat /\ Len(unsent) \in Nat
           /\ Len(wire) \in Nat /\ Len(inbox) \in Nat
           /\ Outbound \in Seq(Messages) /\ Len(Outbound) \in Nat
           /\ Inbound \in Seq(Messages) /\ Len(Inbound) \in Nat
           /\ sentUp - Len(tcpIn) \in Nat /\ sentUp \in Nat /\ sentDown \in Nat /\ pings \in Nat
           /\ MaxBytes \in Nat /\ MaxPings \in Nat
<1> USE DEF BridgeInv
<1>1. /\ Len(gotUp) \in Nat /\ Len(tcpIn) \in Nat /\ Len(gotDown) \in Nat
      /\ Len(tcpOut) \in Nat /\ Len(pendingTcp) \in Nat
  BY LenProperties DEF BridgeShaped, Messages
<1>2. /\ Len(unsent) \in Nat /\ Len(wire) \in Nat /\ Len(inbox) \in Nat
  BY LenProperties DEF BridgeShaped
<1>3. Outbound \in Seq(Messages) /\ Len(Outbound) \in Nat
  BY ConcatProperties, LenProperties DEF BridgeShaped, Outbound
<1>4. Inbound \in Seq(Messages) /\ Len(Inbound) \in Nat
  BY LoadsMoved, LenProperties DEF BridgeShaped, Inbound
<1>5. sentUp \in Nat /\ sentDown \in Nat /\ pings \in Nat /\ MaxBytes \in Nat /\ MaxPings \in Nat
  BY DEF BridgeShaped, BR!ConstantsAssumption
<1>6. sentUp - Len(tcpIn) \in Nat
  BY <1>1, <1>5 DEF Upwards
<1> QED
  BY <1>1, <1>2, <1>3, <1>4, <1>5, <1>6

\* What the network does not take of some messages is held, in order
LEMMA Pushing ==
    ASSUME BR!ConstantsAssumption, BridgeInv, NEW held \in Seq(Messages), BR!Push(held)
    PROVE  /\ wire' \in Seq(Messages) /\ Len(wire') <= WireRoom
           /\ unsent' \in Seq(Messages) /\ wire' \o unsent' = wire \o held
           /\ \E n \in 0 .. Len(held) : /\ Len(unsent') = Len(held) - n
                                        /\ \A i \in 1 .. Len(unsent') : unsent'[i] = held[n + i]
<1>1. /\ wire \in Seq(Messages) /\ Len(wire) \in Nat /\ Len(wire) <= WireRoom
      /\ Len(held) \in Nat /\ \A i \in 1 .. Len(held) : held[i] \in Messages
      /\ WireRoom \in Nat
  BY BridgeNumbers, LenProperties, ElementOfSeq DEF BridgeInv, BridgeShaped, BR!ConstantsAssumption
<1>2. PICK n \in 0 .. Len(held) : /\ n <= WireRoom - Len(wire)
                                  /\ wire' = wire \o SubSeq(held, 1, n)
                                  /\ unsent' = SubSeq(held, n + 1, Len(held))
  <2> DEFINE room == WireRoom - Len(wire)
             n == IF Len(held) < room THEN Len(held) ELSE room
  <2>1. n \in 0 .. Len(held) /\ n <= room
    BY <1>1
  <2>2. wire' = wire \o SubSeq(held, 1, n) /\ unsent' = SubSeq(held, n + 1, Len(held))
    BY DEF BR!Push
  <2> HIDE DEF n
  <2> QED
    BY <2>1, <2>2
<1>3. /\ SubSeq(held, 1, n) \in Seq(Messages) /\ Len(SubSeq(held, 1, n)) = n
  <2>1. \A i \in 1 .. n : held[i] \in Messages
    BY <1>1
  <2>2. /\ SubSeq(held, 1, n) \in Seq(Messages)
        /\ Len(SubSeq(held, 1, n)) = IF 1 <= n THEN n - 1 + 1 ELSE 0
    BY <2>1, SubSeqProperties
  <2> QED
    BY <2>2
<1>4. /\ unsent' \in Seq(Messages) /\ Len(unsent') = Len(held) - n
      /\ \A i \in 1 .. Len(unsent') : unsent'[i] = held[n + i]
  <2>1. \A i \in n + 1 .. Len(held) : held[i] \in Messages
    BY <1>1
  <2>2. /\ unsent' \in Seq(Messages)
        /\ Len(unsent') = IF n + 1 <= Len(held) THEN Len(held) - (n + 1) + 1 ELSE 0
        /\ \A i \in 1 .. Len(held) - (n + 1) + 1 : unsent'[i] = held[(n + 1) + i - 1]
    BY <1>1, <1>2, <2>1, SubSeqProperties
  <2>3. Len(unsent') = Len(held) - n
    BY <1>1, <2>2
  <2> QED
    BY <1>1, <2>2, <2>3
<1>5. SubSeq(held, 1, n) \o SubSeq(held, n + 1, Len(held)) = held
  <2>1. 1 \in 1 .. Len(held) + 1 /\ n \in 1 - 1 .. Len(held) /\ Len(held) \in n .. Len(held)
    BY <1>1
  <2>2. SubSeq(held, 1, n) \o SubSeq(held, n + 1, Len(held)) = SubSeq(held, 1, Len(held))
    BY <2>1, ConcatAdjacentSubSeq
  <2> QED
    BY <2>2, SubSeqFull
<1>6. wire' \in Seq(Messages) /\ Len(wire') <= WireRoom
  BY <1>1, <1>2, <1>3, ConcatProperties
<1>7. wire' \o unsent' = wire \o held
  <2>1. SubSeq(held, n + 1, Len(held)) \in Seq(Messages)
    BY <1>2, <1>4
  <2>2. (wire \o SubSeq(held, 1, n)) \o SubSeq(held, n + 1, Len(held))
          = wire \o (SubSeq(held, 1, n) \o SubSeq(held, n + 1, Len(held)))
    <3> DEFINE x == SubSeq(held, 1, n)
               y == SubSeq(held, n + 1, Len(held))
    <3>1. wire \in Seq(Messages) /\ x \in Seq(Messages) /\ y \in Seq(Messages)
      BY <1>1, <1>3, <2>1
    <3> HIDE DEF x, y
    <3>2. (wire \o x) \o y = wire \o (x \o y)
      BY SMTT(30), <3>1, ConcatAssociative
    <3> QED
      BY <3>2 DEF x, y
  <2> QED
    BY <1>2, <1>5, <2>2
<1> QED
  BY <1>4, <1>6, <1>7

-----------------------------------------------------------------------------
(* What each action keeps *)

LEMMA FlushKeeps ==
    ASSUME BR!ConstantsAssumption, BridgeInv, BR!Flush
    PROVE  BridgeInv'
<1> USE DEF BridgeInv
<1>1. /\ at = "flush" /\ at' = "read" /\ progressed' \in BOOLEAN /\ blocked' \in BOOLEAN
      /\ UNCHANGED << sentUp, tcpIn, gotUp, pongs, BR!downward, stalled, hangup, ended >>
  BY DEF BR!Flush, BridgeShaped
<1>2. /\ wire' \in Seq(Messages) /\ Len(wire') <= WireRoom /\ unsent' \in Seq(Messages)
      /\ Outbound' = Outbound
      /\ \A i, j \in 1 .. Len(unsent') : unsent'[i] # BR!Pong /\ unsent'[j] # BR!Pong => i = j
      /\ unsent' # << >> => blocked'
  <2>1. CASE blocked
    <3>1. BR!Push(unsent) /\ blocked' = (unsent' # << >>) /\ unsent \in Seq(Messages)
      BY <2>1 DEF BR!Flush, BridgeShaped
    <3>2. PICK n \in 0 .. Len(unsent) :
            /\ Len(unsent') = Len(unsent) - n
            /\ \A i \in 1 .. Len(unsent') : unsent'[i] = unsent[n + i]
      BY <3>1, Pushing
    <3>3. ASSUME NEW i \in 1 .. Len(unsent'), NEW j \in 1 .. Len(unsent'),
                 unsent'[i] # BR!Pong, unsent'[j] # BR!Pong
          PROVE  i = j
      <4>1. n + i \in 1 .. Len(unsent) /\ n + j \in 1 .. Len(unsent) /\ n \in Nat
        BY <3>2, BridgeNumbers
      <4>2. n + i = n + j
        BY <3>2, <3>3, <4>1 DEF HeldOnce
      <4> QED
        BY <4>1, <4>2
    <3> QED
      BY <3>1, <3>3, Pushing DEF Outbound
  <2>2. CASE ~blocked
    BY <2>2 DEF BR!Flush, BridgeShaped, HeldOnce, Outbound
  <2> QED
    BY <2>1, <2>2
<1>3. UNCHANGED << sentDown, inbox, pendingTcp, tcpOut, gotDown, pings, fresh >>
  BY <1>1 DEF BR!downward
<1>4. BridgeShaped'
  BY <1>1, <1>2, <1>3 DEF BridgeShaped, BR!Places
<1>5. HeldOnce'
  BY <1>2 DEF HeldOnce
<1>6. Upwards' /\ Downwards' /\ Answered'
  BY <1>1, <1>2, <1>3 DEF Upwards, Downwards, Answered, Inbound
<1>7. Endings'
  BY <1>1 DEF Endings, BR!HangupLosesNothing, BR!GivesUpOnlyWhenStuck
<1> QED
  BY <1>4, <1>5, <1>6, <1>7

LEMMA ReadTcpKeeps ==
    ASSUME BR!ConstantsAssumption, BridgeInv, BR!ReadTcp
    PROVE  BridgeInv'
<1> USE DEF BridgeInv
<1>1. /\ at = "read" /\ ended = "no"
      /\ UNCHANGED << sentUp, gotUp, pongs, stalled, hangup >>
      /\ UNCHANGED << sentDown, inbox, pendingTcp, tcpOut, gotDown, pings, fresh >>
  BY DEF BR!ReadTcp, Endings, BR!downward
<1>2. CASE ~blocked /\ tcpIn # << >>
  <2>1. /\ BR!Push(<< tcpIn >>) /\ tcpIn' = << >> /\ blocked' = (unsent' # << >>)
        /\ progressed' = TRUE /\ at' = "pull" /\ ended' = ended
    BY <1>2 DEF BR!ReadTcp
  <2>2. unsent = << >> /\ tcpIn \in Messages /\ << tcpIn >> \in Seq(Messages) /\ Len(<< tcpIn >>) = 1
    BY <1>2 DEF HeldOnce, BridgeShaped
  <2>3. /\ wire' \in Seq(Messages) /\ Len(wire') <= WireRoom /\ unsent' \in Seq(Messages)
        /\ wire' \o unsent' = wire \o << tcpIn >>
        /\ \E n \in 0 .. 1 : Len(unsent') = 1 - n
    BY <2>1, <2>2, Pushing
  <2>4. Outbound = wire /\ Outbound' = Append(Outbound, tcpIn)
    <3>1. wire \o << >> = wire /\ Append(wire, tcpIn) = wire \o << tcpIn >>
      BY <2>2, ConcatEmptySeq, AppendIsConcat DEF BridgeShaped
    <3> QED
      BY <2>2, <2>3, <3>1 DEF Outbound
  <2>5. BridgeShaped'
    <3>1. << >> \in Messages /\ Len(<< >>) = 0 /\ TcpRoom \in Nat
      BY EmptySeq DEF Messages, BR!ConstantsAssumption
    <3>2. blocked' \in BOOLEAN /\ progressed' \in BOOLEAN
      BY <2>1, Zenon
    <3>3. tcpIn' \in Messages /\ Len(tcpIn') <= TcpRoom
      BY <2>1, <3>1 DEF BR!ConstantsAssumption
    <3> QED
      BY <1>1, <2>1, <2>3, <3>2, <3>3 DEF BridgeShaped, BR!Places
  <2>6. HeldOnce'
    <3>1. \A i, j \in 1 .. Len(unsent') : i = j
      BY <2>3
    <3>2. unsent' # << >> => blocked'
      BY <2>1, Zenon
    <3> QED
      BY <3>1, <3>2 DEF HeldOnce
  <2>7. Upwards'
    <3>1. /\ Len(gotUp) \in Nat /\ Len(tcpIn) \in Nat /\ sentUp - Len(tcpIn) \in Nat /\ sentUp \in Nat
          /\ Outbound \in Seq(Messages)
      BY BridgeNumbers
    <3>2. Carries(Outbound', Len(gotUp), sentUp - Len(tcpIn) + Len(tcpIn))
      BY <2>2, <2>4, <3>1, CarriesMore DEF Upwards
    <3>3. sentUp - Len(tcpIn) + Len(tcpIn) = sentUp /\ sentUp - 0 = sentUp /\ 0 <= sentUp
      BY <3>1
    <3>4. Len(tcpIn') = 0 /\ \A k \in 1 .. 0 : FALSE
      BY <2>1, EmptySeq
    <3>5. Follows(tcpIn', sentUp)
      BY <3>4 DEF Follows
    <3>6. Follows(gotUp', 0)
      BY <1>1 DEF Upwards
    <3> QED
      BY <1>1, <3>2, <3>3, <3>4, <3>5, <3>6 DEF Upwards
  <2>8. Downwards'
    BY <1>1 DEF Downwards, Inbound
  <2>9. Answered'
    <3>1. PICK n \in Nat : Occurs(inbox, PingSent, n, pings) /\ Occurs(Outbound, BR!Pong, pongs, n)
      BY DEF Answered
    <3>2. Outbound \in Seq(Messages) /\ pongs \in Nat /\ tcpIn # BR!Pong
      BY <1>2, BridgeNumbers DEF BridgeShaped, BR!Pong
    <3>3. Occurs(Append(Outbound, tcpIn), BR!Pong, pongs, n)
      BY <2>2, <3>1, <3>2, OccursMore
    <3> QED
      BY <1>1, <2>4, <3>1, <3>3 DEF Answered
  <2>10. Endings'
    BY <1>1, <2>1 DEF Endings, BR!HangupLosesNothing, BR!GivesUpOnlyWhenStuck
  <2> QED
    BY <2>5, <2>6, <2>7, <2>8, <2>9, <2>10
<1>3. CASE ~(~blocked /\ tcpIn # << >>)
  <2>1. /\ UNCHANGED << wire, unsent, tcpIn, blocked, progressed >>
        /\ \/ at' = "pull" /\ ended' = ended
           \/ ~blocked /\ at' = "ended" /\ ended' = "hangup"
    BY <1>3 DEF BR!ReadTcp, BR!Break
  <2>2. BridgeShaped' /\ HeldOnce'
    BY <1>1, <2>1 DEF BridgeShaped, HeldOnce, BR!Places
  <2>3. Upwards' /\ Downwards' /\ Answered'
    BY <1>1, <2>1 DEF Upwards, Downwards, Answered, Inbound, Outbound
  <2>4. Endings'
    BY <1>1, <1>3, <2>1 DEF Endings, BR!HangupLosesNothing, BR!GivesUpOnlyWhenStuck, HeldOnce
  <2> QED
    BY <2>2, <2>3, <2>4
<1> QED
  BY <1>2, <1>3

LEMMA PullKeeps ==
    ASSUME BR!ConstantsAssumption, BridgeInv, BR!Pull
    PROVE  BridgeInv'
<1> USE DEF BridgeInv
<1>1. /\ at = "pull" /\ ended = "no" /\ fresh' = FALSE
      /\ UNCHANGED << sentUp, tcpIn, wire, gotUp, pongs >>
      /\ UNCHANGED << sentDown, tcpOut, gotDown, pings, stalled, hangup >>
  BY DEF BR!Pull, Endings
<1>2. CASE pendingTcp = << >> /\ inbox # << >>
  <2> DEFINE m == Head(inbox)
  <2>1. /\ m \in Letter /\ inbox' = Tail(inbox) /\ progressed' = TRUE
        /\ inbox' \in Seq(Letter) /\ Len(inbox') = Len(inbox) - 1 /\ Len(inbox) \in Nat
        /\ \A i \in 1 .. Len(inbox') : inbox'[i] = inbox[i + 1]
        /\ m = inbox[1] /\ Len(inbox) > 0
    <3>1. inbox' = Tail(inbox) /\ progressed' = TRUE
      BY <1>2 DEF BR!Pull
    <3>2. inbox \in Seq(Letter) /\ inbox # << >> /\ Len(inbox) \in Nat /\ Len(inbox) > 0
      BY <1>2, EmptySeq DEF BridgeShaped
    <3>3. m \in Letter /\ m = inbox[1]
      BY <3>2, HeadTailProperties
    <3>4. /\ Tail(inbox) \in Seq(Letter) /\ Len(Tail(inbox)) = Len(inbox) - 1
          /\ \A i \in 1 .. Len(Tail(inbox)) : Tail(inbox)[i] = inbox[i + 1]
      BY <3>2, HeadTailProperties
    <3> QED
      BY <3>1, <3>2, <3>3, <3>4
  <2>2. /\ m.bytes \in Messages /\ Len(m.bytes) <= 2
        /\ m.kind # "binary" => m.bytes = << >>
        /\ m.kind = "ping" <=> m = PingSent
        /\ m.kind \in {"binary", "ping", "close"}
    BY <2>1 DEF BridgeShaped, Letter, PingSent
  <2>3. /\ Inbound # << >> /\ Head(Inbound) = m.bytes /\ Inbound' = Tail(Inbound)
        /\ Inbound \in Seq(Messages)
    BY <1>2, <2>1, LoadsMoved DEF BridgeShaped, Inbound
  <2>4. \A i \in 1 .. Len(inbox') : /\ Len(inbox'[i].bytes) <= 2
                                    /\ inbox'[i].kind # "binary" => inbox'[i].bytes = << >>
    BY <2>1 DEF BridgeShaped
  <2> DEFINE g == Len(gotDown) + Len(tcpOut)
  <2>5. /\ Len(m.bytes) \in Nat /\ Follows(m.bytes, g)
        /\ Carries(Inbound', g + Len(m.bytes), sentDown) /\ g \in Nat
    <3>1. Len(pendingTcp) = 0 /\ g \in Nat /\ g + 0 = g /\ sentDown \in Nat
      BY <1>2, BridgeNumbers, EmptySeq
    <3>2. Carries(Inbound, g, sentDown)
      BY <3>1 DEF Downwards
    <3> HIDE DEF g, m
    <3> QED
      BY <2>3, <3>1, <3>2, CarriesLess
  <2>6. PICK n \in Nat : Occurs(inbox, PingSent, n, pings) /\ Occurs(Outbound, BR!Pong, pongs, n)
    BY DEF Answered
  <2>7. Occurs(inbox', PingSent, IF m = PingSent THEN n + 1 ELSE n, pings)
    <3>1. inbox \in Seq(Letter) /\ pings \in Nat
      BY BridgeNumbers DEF BridgeShaped
    <3> QED
      BY <1>2, <2>1, <2>6, <3>1, OccursLess
  <2>8. /\ << >> \in Messages /\ Len(<< >>) = 0
        /\ sentUp - Len(tcpIn) \in Nat /\ Len(gotUp) \in Nat /\ Outbound \in Seq(Messages)
    BY BridgeNumbers, EmptySeq DEF Messages
  <2> HIDE DEF m
  <2>a. CASE m.kind = "binary"
    <3>1. /\ pendingTcp' = m.bytes /\ at' = "push" /\ UNCHANGED << unsent, blocked, ended >>
      BY <1>2, <2>a DEF BR!Pull, m
    <3>2. BridgeShaped' /\ HeldOnce' /\ Upwards'
      BY <1>1, <2>1, <2>2, <2>4, <3>1 DEF BridgeShaped, HeldOnce, Upwards, Outbound, BR!Places
    <3>3. Downwards'
      BY <1>1, <2>5, <3>1 DEF Downwards
    <3>4. m # PingSent
      BY <2>2, <2>a
    <3>5. Answered'
      BY <1>1, <2>6, <2>7, <3>1, <3>4 DEF Answered, Outbound
    <3>6. Endings'
      BY <1>1, <2>1, <3>1 DEF Endings, BR!HangupLosesNothing, BR!GivesUpOnlyWhenStuck
    <3> QED
      BY <3>2, <3>3, <3>5, <3>6
  <2>b. CASE m.kind = "ping"
    <3>1. /\ unsent' = Append(unsent, BR!Pong) /\ blocked' = TRUE /\ at' = "push"
          /\ UNCHANGED << pendingTcp, ended >>
      BY <1>2, <2>b DEF BR!Pull, m
    <3>2. m = PingSent /\ m.bytes = << >>
      BY <2>2, <2>b
    <3>3. /\ unsent' \in Seq(Messages) /\ Len(unsent') = Len(unsent) + 1 /\ Len(unsent) \in Nat
          /\ \A i \in 1 .. Len(unsent) : unsent'[i] = unsent[i]
          /\ unsent'[Len(unsent) + 1] = BR!Pong
      BY <2>8, <3>1, AppendProperties, LenProperties DEF BridgeShaped, BR!Pong
    <3>4. BridgeShaped'
      BY <1>1, <2>1, <2>4, <3>1, <3>3 DEF BridgeShaped, BR!Places
    <3>5. HeldOnce'
      <4>1. ASSUME NEW i \in 1 .. Len(unsent'), unsent'[i] # BR!Pong
            PROVE  i \in 1 .. Len(unsent) /\ unsent[i] # BR!Pong
        BY <3>3, <4>1
      <4>2. blocked'
        BY <3>1
      <4> QED
        BY <4>1, <4>2 DEF HeldOnce
    <3>6. Outbound' = Append(Outbound, << >>)
      <4>1. wire \in Seq(Messages) /\ unsent \in Seq(Messages) /\ << << >> >> \in Seq(Messages)
        BY <2>8 DEF BridgeShaped
      <4>2. Append(unsent, << >>) = unsent \o << << >> >>
        BY <2>8, <4>1, AppendIsConcat
      <4>3. Append(wire \o unsent, << >>) = (wire \o unsent) \o << << >> >>
        BY <2>8, <4>1, ConcatProperties, AppendIsConcat
      <4>4. (wire \o unsent) \o << << >> >> = wire \o (unsent \o << << >> >>)
        BY <4>1, ConcatAssociative
      <4> QED
        BY <1>1, <3>1, <4>2, <4>3, <4>4 DEF Outbound, BR!Pong
    <3>7. Upwards'
      <4>1. Follows(<< >>, sentUp - Len(tcpIn))
        BY <2>8 DEF Follows
      <4>2. sentUp - Len(tcpIn) + 0 = sentUp - Len(tcpIn)
        BY <2>8
      <4>3. Carries(Append(Outbound, << >>), Len(gotUp), sentUp - Len(tcpIn))
        BY <2>8, <4>1, <4>2, CarriesMore DEF Upwards
      <4> QED
        BY <1>1, <3>6, <4>3 DEF Upwards
    <3>8. Downwards'
      BY <1>1, <1>2, <2>5, <2>8, <3>1, <3>2 DEF Downwards
    <3>9. Answered'
      <4>1. Occurs(Append(Outbound, << >>), BR!Pong, pongs, n + 1)
        BY <2>6, <2>8, OccursMore DEF BR!Pong, BridgeShaped
      <4> QED
        BY <1>1, <2>7, <3>2, <3>6, <4>1 DEF Answered
    <3>10. Endings'
      BY <1>1, <2>1, <3>1 DEF Endings, BR!HangupLosesNothing, BR!GivesUpOnlyWhenStuck
    <3> QED
      BY <3>4, <3>5, <3>7, <3>8, <3>9, <3>10
  <2>c. CASE m.kind = "close"
    <3>1. /\ at' = "ended" /\ ended' = "service" /\ UNCHANGED << pendingTcp, unsent, blocked >>
      BY <1>2, <2>c DEF BR!Pull, BR!Break, m
    <3>2. m # PingSent /\ m.bytes = << >>
      BY <2>2, <2>c
    <3>3. BridgeShaped' /\ HeldOnce' /\ Upwards'
      BY <1>1, <2>1, <2>4, <3>1 DEF BridgeShaped, HeldOnce, Upwards, Outbound, BR!Places
    <3>4. Downwards'
      BY <1>1, <1>2, <2>5, <2>8, <3>1, <3>2 DEF Downwards
    <3>5. Answered'
      BY <1>1, <2>6, <2>7, <3>1, <3>2 DEF Answered, Outbound
    <3>6. Endings'
      BY <1>1, <2>1, <3>1 DEF Endings, BR!HangupLosesNothing, BR!GivesUpOnlyWhenStuck
    <3> QED
      BY <3>3, <3>4, <3>5, <3>6
  <2> QED
    BY <2>2, <2>a, <2>b, <2>c
<1>3. CASE ~(pendingTcp = << >> /\ inbox # << >>)
  <2>1. at' = "push" /\ UNCHANGED << inbox, pendingTcp, unsent, blocked, progressed, ended >>
    BY <1>3 DEF BR!Pull
  <2>2. BridgeShaped' /\ HeldOnce'
    BY <1>1, <2>1 DEF BridgeShaped, HeldOnce, BR!Places
  <2>3. Upwards' /\ Downwards' /\ Answered'
    BY <1>1, <2>1 DEF Upwards, Downwards, Answered, Inbound, Outbound
  <2>4. Endings'
    BY <1>1, <1>3, <2>1 DEF Endings, BR!HangupLosesNothing, BR!GivesUpOnlyWhenStuck
  <2> QED
    BY <2>2, <2>3, <2>4
<1> QED
  BY <1>2, <1>3

LEMMA PushTcpKeeps ==
    ASSUME BR!ConstantsAssumption, BridgeInv, BR!PushTcp
    PROVE  BridgeInv'
<1> USE DEF BridgeInv
<1>1. /\ at = "push" /\ ended = "no"
      /\ UNCHANGED << sentUp, tcpIn, unsent, blocked, wire, gotUp, pongs >>
      /\ UNCHANGED << sentDown, inbox, gotDown, pings, fresh, stalled, hangup >>
  BY DEF BR!PushTcp, Endings, BR!upward
<1>2. UNCHANGED << Outbound, Inbound >>
  BY <1>1 DEF Outbound, Inbound
<1>3. HeldOnce' /\ Upwards' /\ Answered'
  BY <1>1, <1>2 DEF HeldOnce, Upwards, Answered
<1>4. CASE pendingTcp # << >> /\ hangup
  <2>1. /\ at' = "ended" /\ ended' = "error" /\ UNCHANGED << tcpOut, pendingTcp, progressed >>
    BY <1>4 DEF BR!PushTcp, BR!Break
  <2>2. BridgeShaped' /\ Downwards' /\ Endings'
    BY <1>1, <1>2, <2>1 DEF BridgeShaped, Downwards, Endings, BR!Places, BR!HangupLosesNothing,
       BR!GivesUpOnlyWhenStuck
  <2> QED
    BY <1>3, <2>2
<1>5. CASE ~(pendingTcp # << >> /\ hangup)
  <2>1. PICK n \in 0 .. Len(pendingTcp) :
          /\ n <= TcpRoom - Len(tcpOut)
          /\ tcpOut' = tcpOut \o SubSeq(pendingTcp, 1, n)
          /\ pendingTcp' = SubSeq(pendingTcp, n + 1, Len(pendingTcp))
          /\ progressed' = (progressed \/ n > 0)
    <3> DEFINE room == TcpRoom - Len(tcpOut)
               n == IF Len(pendingTcp) < room THEN Len(pendingTcp) ELSE room
    <3>1. n \in 0 .. Len(pendingTcp) /\ n <= room
      BY BridgeNumbers DEF BridgeShaped, BR!ConstantsAssumption
    <3>2. /\ tcpOut' = tcpOut \o SubSeq(pendingTcp, 1, n)
          /\ pendingTcp' = SubSeq(pendingTcp, n + 1, Len(pendingTcp))
          /\ progressed' = (progressed \/ n > 0)
      BY <1>5 DEF BR!PushTcp
    <3> HIDE DEF n
    <3> QED
      BY <3>1, <3>2
  <2>2. at' = "account" /\ ended' = ended /\ progressed' \in BOOLEAN
    BY <1>5, <2>1 DEF BR!PushTcp
  <2> DEFINE t == SubSeq(pendingTcp, 1, n)
             g == Len(gotDown)
  <2>3. /\ tcpOut \in Messages /\ pendingTcp \in Messages /\ Len(tcpOut) <= TcpRoom
        /\ Len(tcpOut) \in Nat /\ Len(pendingTcp) \in Nat /\ g \in Nat /\ sentDown \in Nat
        /\ Len(pendingTcp) <= 2 /\ TcpRoom \in Nat
        /\ Follows(tcpOut, g) /\ Follows(pendingTcp, g + Len(tcpOut))
        /\ Carries(Inbound, g + Len(tcpOut) + Len(pendingTcp), sentDown)
    BY BridgeNumbers DEF BridgeShaped, Downwards, BR!ConstantsAssumption
  <2> HIDE DEF g
  <2>4. /\ t \in Messages /\ Len(t) = n /\ Follows(t, g + Len(tcpOut))
        /\ pendingTcp' \in Messages /\ Len(pendingTcp') = Len(pendingTcp) - n
        /\ Follows(pendingTcp', (g + Len(tcpOut)) + n)
    BY <2>1, <2>3, FollowsCut
  <2> HIDE DEF t
  <2>5. /\ tcpOut' \in Messages /\ Len(tcpOut') = Len(tcpOut) + n /\ Follows(tcpOut', g)
    BY <2>1, <2>3, <2>4, FollowsJoined DEF t
  <2>6. /\ g + Len(tcpOut') = (g + Len(tcpOut)) + n
        /\ g + Len(tcpOut') + Len(pendingTcp') = g + Len(tcpOut) + Len(pendingTcp)
        /\ Len(tcpOut') <= TcpRoom /\ Len(pendingTcp') <= 2
    <3>1. n \in Nat /\ n <= TcpRoom - Len(tcpOut) /\ n <= Len(pendingTcp)
      BY <2>1, <2>3
    <3>2. /\ Len(tcpOut) \in Nat /\ Len(pendingTcp) \in Nat /\ g \in Nat
          /\ Len(pendingTcp) <= 2 /\ TcpRoom \in Nat
      BY <2>3
    <3>3. Len(tcpOut') = Len(tcpOut) + n /\ Len(pendingTcp') = Len(pendingTcp) - n
      BY <2>4, <2>5
    <3> QED
      BY <3>1, <3>2, <3>3
  <2>7. Downwards'
    BY <1>1, <1>2, <2>3, <2>4, <2>5, <2>6 DEF Downwards, g
  <2>8. BridgeShaped'
    BY <1>1, <2>2, <2>4, <2>5, <2>6 DEF BridgeShaped, BR!Places
  <2>9. ~fresh' /\ ~progressed' => inbox' = << >> \/ pendingTcp' # << >>
    <3>1. CASE n > 0
      <4>1. progressed'
        BY <2>1, <3>1
      <4> QED
        BY <4>1
    <3>2. CASE n = 0
      <4>1. ~fresh /\ ~progressed => inbox = << >> \/ pendingTcp # << >>
        BY <1>1 DEF Endings
      <4>2. pendingTcp # << >> => pendingTcp' # << >>
        BY <2>3, <2>4, <3>2, EmptySeq DEF Messages
      <4>3. progressed' = progressed
        <5>1. progressed \in BOOLEAN /\ ~(n > 0)
          BY <3>2 DEF BridgeShaped
        <5> QED
          BY <2>1, <5>1
      <4> QED
        BY <1>1, <4>1, <4>2, <4>3
    <3> QED
      BY <2>1, <3>1, <3>2
  <2>10. Endings'
    BY <1>1, <2>2, <2>9 DEF Endings, BR!HangupLosesNothing, BR!GivesUpOnlyWhenStuck
  <2> QED
    BY <1>3, <2>7, <2>8, <2>10
<1> QED
  BY <1>4, <1>5

LEMMA AccountKeeps ==
    ASSUME BR!ConstantsAssumption, BridgeInv, BR!Account
    PROVE  BridgeInv'
<1> USE DEF BridgeInv
<1>1. /\ at = "account" /\ ended = "no"
      /\ UNCHANGED << sentUp, tcpIn, unsent, blocked, wire, gotUp, pongs >>
      /\ UNCHANGED << sentDown, inbox, pendingTcp, tcpOut, gotDown, pings, fresh >>
      /\ UNCHANGED << progressed, hangup >>
      /\ \/ at' = "flush" /\ ended' = "no"
         \/ at' = "ended" /\ ended' = "stalled" /\ ~progressed
  <2>1. /\ at = "account" /\ ended = "no"
        /\ UNCHANGED << BR!upward, BR!downward, progressed, hangup >>
    BY DEF BR!Account, Endings
  <2>2. \/ at' = "flush" /\ ended' = ended
        \/ at' = "ended" /\ ended' = "stalled" /\ ~progressed
    BY DEF BR!Account, BR!Break
  <2> QED
    BY <2>1, <2>2 DEF BR!upward, BR!downward
<1>s. stalled' \in 0 .. StallLimit
  <2>1. stalled' = 0 \/ stalled' = stalled \/ (stalled < StallLimit /\ stalled' = stalled + 1)
    BY DEF BR!Account
  <2> QED
    BY <2>1 DEF BridgeShaped, BR!ConstantsAssumption
<1>2. UNCHANGED << Outbound, Inbound >>
  BY <1>1 DEF Outbound, Inbound
<1>3. HeldOnce' /\ Upwards' /\ Downwards' /\ Answered'
  BY <1>1, <1>2 DEF HeldOnce, Upwards, Downwards, Answered
<1>4. BridgeShaped'
  BY <1>1, <1>s DEF BridgeShaped, BR!Places
<1>5. Endings'
  BY <1>1 DEF Endings, BR!HangupLosesNothing, BR!GivesUpOnlyWhenStuck
<1> QED
  BY <1>3, <1>4, <1>5

LEMMA FailingKeeps ==
    ASSUME BR!ConstantsAssumption, BridgeInv, BR!BridgeFails \/ BR!ProgramCloses
    PROVE  BridgeInv'
<1> USE DEF BridgeInv
<1>1. /\ UNCHANGED << sentUp, tcpIn, unsent, blocked, wire, gotUp, pongs >>
      /\ UNCHANGED << sentDown, inbox, pendingTcp, tcpOut, gotDown, pings, fresh >>
      /\ UNCHANGED << progressed, stalled >>
      /\ hangup' \in BOOLEAN
      /\ \/ at' = at /\ ended' = ended
         \/ at' = "ended" /\ ended' = "error"
  BY DEF BR!BridgeFails, BR!ProgramCloses, BR!upward, BR!downward, BR!Break, BridgeShaped
<1>2. UNCHANGED << Outbound, Inbound >>
  BY <1>1 DEF Outbound, Inbound
<1>3. HeldOnce' /\ Upwards' /\ Downwards' /\ Answered'
  BY <1>1, <1>2 DEF HeldOnce, Upwards, Downwards, Answered
<1>4. BridgeShaped'
  BY <1>1 DEF BridgeShaped, BR!Places
<1>5. Endings'
  BY <1>1 DEF Endings, BR!HangupLosesNothing, BR!GivesUpOnlyWhenStuck
<1> QED
  BY <1>3, <1>4, <1>5

LEMMA WritingKeeps ==
    ASSUME BR!ConstantsAssumption, BridgeInv, BR!ProgramWrites
    PROVE  BridgeInv'
<1> USE DEF BridgeInv
<1>1. /\ ended = "no" /\ sentUp < MaxBytes /\ Len(tcpIn) < TcpRoom
      /\ sentUp' = sentUp + 1 /\ tcpIn' = Append(tcpIn, sentUp + 1)
      /\ UNCHANGED << at, unsent, blocked, wire, gotUp, pongs, progressed, stalled, hangup, ended >>
      /\ UNCHANGED << sentDown, inbox, pendingTcp, tcpOut, gotDown, pings, fresh >>
  BY DEF BR!ProgramWrites, BR!downward
<1>2. UNCHANGED << Outbound, Inbound >>
  BY <1>1 DEF Outbound, Inbound
<1>3. sentUp \in Nat /\ Len(tcpIn) \in Nat /\ MaxBytes \in Nat /\ sentUp - Len(tcpIn) \in Nat
  BY BridgeNumbers
<1>4. sentUp + 1 \in BR!Bytes /\ TcpRoom \in Nat
  BY <1>1, <1>3 DEF BR!Bytes, BR!ConstantsAssumption
<1>5. /\ tcpIn' \in Messages /\ Len(tcpIn') = Len(tcpIn) + 1
      /\ tcpIn'[Len(tcpIn) + 1] = sentUp + 1
      /\ \A k \in 1 .. Len(tcpIn) : tcpIn'[k] = tcpIn[k]
  BY <1>1, <1>4, AppendProperties DEF BridgeShaped, Messages
<1>6. sentUp' - Len(tcpIn') = sentUp - Len(tcpIn) /\ Len(tcpIn') <= sentUp' /\ Len(tcpIn') <= TcpRoom
  BY <1>1, <1>3, <1>4, <1>5 DEF Upwards
<1>7. Follows(tcpIn', sentUp - Len(tcpIn))
  <2> SUFFICES ASSUME NEW k \in 1 .. Len(tcpIn') PROVE tcpIn'[k] = (sentUp - Len(tcpIn)) + k
    BY DEF Follows
  <2>1. CASE k = Len(tcpIn) + 1
    BY <1>3, <1>5, <2>1
  <2>2. CASE k # Len(tcpIn) + 1
    <3>1. k \in 1 .. Len(tcpIn)
      BY <1>3, <1>5, <2>2
    <3> QED
      BY <1>5, <3>1 DEF Upwards, Follows
  <2> QED
    BY <2>1, <2>2
<1>8. Upwards'
  BY <1>1, <1>2, <1>6, <1>7 DEF Upwards
<1>9. HeldOnce' /\ Downwards' /\ Answered'
  BY <1>1, <1>2 DEF HeldOnce, Downwards, Answered
<1>10. BridgeShaped'
  <2>1. sentUp' \in 0 .. MaxBytes
    BY <1>1, <1>3
  <2> QED
    BY <1>1, <1>5, <1>6, <2>1 DEF BridgeShaped
<1>11. Endings'
  BY <1>1 DEF Endings, BR!HangupLosesNothing, BR!GivesUpOnlyWhenStuck
<1> QED
  BY <1>8, <1>9, <1>10, <1>11

LEMMA ReadingKeeps ==
    ASSUME BR!ConstantsAssumption, BridgeInv, BR!ProgramReads
    PROVE  BridgeInv'
<1> USE DEF BridgeInv
<1>1. /\ gotDown' = gotDown \o tcpOut /\ tcpOut' = << >>
      /\ UNCHANGED << at, sentUp, tcpIn, unsent, blocked, wire, gotUp, pongs >>
      /\ UNCHANGED << sentDown, inbox, pendingTcp, pings, fresh, progressed, stalled, hangup, ended >>
  BY DEF BR!ProgramReads, BR!upward
<1>2. UNCHANGED << Outbound, Inbound >>
  BY <1>1 DEF Outbound, Inbound
<1>3. /\ gotDown \in Messages /\ tcpOut \in Messages /\ Follows(gotDown, 0)
      /\ Follows(tcpOut, Len(gotDown)) /\ Len(gotDown) \in Nat /\ Len(tcpOut) \in Nat
      /\ Len(pendingTcp) \in Nat
  BY BridgeNumbers DEF BridgeShaped, Downwards
<1>4. gotDown' \in Messages /\ Len(gotDown') = Len(gotDown) + Len(tcpOut) /\ Follows(gotDown', 0)
  BY <1>1, <1>3, FollowsJoined
<1>5. tcpOut' \in Messages /\ Len(tcpOut') = 0 /\ Follows(tcpOut', Len(gotDown')) /\ 0 <= TcpRoom
  BY <1>1, EmptySeq DEF Messages, Follows, BR!ConstantsAssumption
<1>6. Downwards'
  <2>1. Len(gotDown') + Len(tcpOut') = Len(gotDown) + Len(tcpOut)
    BY <1>3, <1>4, <1>5
  <2> QED
    BY <1>1, <1>2, <1>4, <1>5, <2>1 DEF Downwards
<1>7. HeldOnce' /\ Upwards' /\ Answered'
  BY <1>1, <1>2 DEF HeldOnce, Upwards, Answered
<1>8. BridgeShaped'
  BY <1>1, <1>4, <1>5 DEF BridgeShaped
<1>9. Endings'
  BY <1>1 DEF Endings, BR!HangupLosesNothing, BR!GivesUpOnlyWhenStuck
<1> QED
  BY <1>6, <1>7, <1>8, <1>9

LEMMA ServiceReadsKeeps ==
    ASSUME BR!ConstantsAssumption, BridgeInv, BR!ServiceReads
    PROVE  BridgeInv'
<1> USE DEF BridgeInv
<1>1. /\ wire # << >> /\ gotUp' = gotUp \o Head(wire) /\ wire' = Tail(wire)
      /\ pongs' = (IF Head(wire) = BR!Pong THEN pongs + 1 ELSE pongs)
      /\ UNCHANGED << at, sentUp, tcpIn, unsent, blocked, progressed, stalled, hangup, ended >>
      /\ UNCHANGED << sentDown, inbox, pendingTcp, tcpOut, gotDown, pings, fresh >>
  BY DEF BR!ServiceReads, BR!downward
<1>2. /\ wire \in Seq(Messages) /\ Tail(wire) \in Seq(Messages) /\ Len(Tail(wire)) = Len(wire) - 1
      /\ Len(wire) \in Nat /\ Len(wire) > 0 /\ Len(wire) <= WireRoom /\ Head(wire) = wire[1]
      /\ \A i \in 1 .. Len(Tail(wire)) : Tail(wire)[i] = wire[i + 1]
      /\ unsent \in Seq(Messages) /\ Len(unsent) \in Nat
  BY <1>1, HeadTailProperties, EmptySeq, LenProperties DEF BridgeShaped
<1>3. Outbound # << >> /\ Head(Outbound) = Head(wire) /\ Tail(Outbound) = Outbound'
  <2> DEFINE o == wire \o unsent
             t == Tail(wire) \o unsent
  <2>1. /\ o \in Seq(Messages) /\ Len(o) = Len(wire) + Len(unsent)
        /\ \A i \in 1 .. Len(wire) + Len(unsent) :
              o[i] = IF i <= Len(wire) THEN wire[i] ELSE unsent[i - Len(wire)]
    BY <1>2, ConcatProperties
  <2>2. /\ t \in Seq(Messages) /\ Len(t) = Len(wire) - 1 + Len(unsent)
        /\ \A i \in 1 .. Len(wire) - 1 + Len(unsent) :
              t[i] = IF i <= Len(wire) - 1 THEN Tail(wire)[i] ELSE unsent[i - (Len(wire) - 1)]
    BY <1>2, ConcatProperties
  <2> HIDE DEF o, t
  <2>3. o # << >> /\ Len(o) > 0
    BY <1>2, <2>1, EmptySeq
  <2>4. /\ Tail(o) \in Seq(Messages) /\ Len(Tail(o)) = Len(o) - 1 /\ Head(o) = o[1]
        /\ \A i \in 1 .. Len(Tail(o)) : Tail(o)[i] = o[i + 1]
    BY <2>1, <2>3, HeadTailProperties
  <2>5. ASSUME NEW i \in 1 .. Len(t) PROVE Tail(o)[i] = t[i]
    <3>1. /\ i \in 1 .. Len(Tail(o)) /\ i + 1 \in 1 .. Len(wire) + Len(unsent)
          /\ i \in 1 .. Len(wire) - 1 + Len(unsent)
      BY <1>2, <2>1, <2>2, <2>4
    <3>2. Tail(o)[i] = IF i + 1 <= Len(wire) THEN wire[i + 1] ELSE unsent[(i + 1) - Len(wire)]
      BY <2>1, <2>4, <3>1
    <3>3. t[i] = IF i <= Len(wire) - 1 THEN Tail(wire)[i] ELSE unsent[i - (Len(wire) - 1)]
      BY <2>2, <3>1
    <3>4. (i + 1) - Len(wire) = i - (Len(wire) - 1) /\ (i + 1 <= Len(wire) <=> i <= Len(wire) - 1)
      BY <1>2, <3>1
    <3>5. i <= Len(wire) - 1 => Tail(wire)[i] = wire[i + 1]
      BY <1>2, <3>1
    <3> QED
      BY <3>2, <3>3, <3>4, <3>5
  <2>6. Tail(o) = t
    <3>1. Len(Tail(o)) = Len(t)
      BY <1>2, <2>1, <2>2, <2>4
    <3> QED
      BY <2>2, <2>4, <2>5, <3>1, SeqEqual
  <2>7. o[1] = wire[1]
    BY <1>2, <2>1
  <2> QED
    BY <1>1, <1>2, <2>3, <2>4, <2>6, <2>7 DEF Outbound, o, t
<1>4. /\ Outbound \in Seq(Messages) /\ Len(gotUp) \in Nat /\ sentUp - Len(tcpIn) \in Nat
      /\ gotUp \in Messages /\ Follows(gotUp, 0)
  BY BridgeNumbers DEF BridgeShaped, Upwards
<1>5. /\ Head(wire) \in Messages /\ Len(Head(wire)) \in Nat /\ Follows(Head(wire), Len(gotUp))
      /\ Carries(Outbound', Len(gotUp) + Len(Head(wire)), sentUp - Len(tcpIn))
  BY <1>3, <1>4, CarriesLess DEF Upwards
<1>6. gotUp' \in Messages /\ Len(gotUp') = Len(gotUp) + Len(Head(wire)) /\ Follows(gotUp', 0)
  BY <1>1, <1>4, <1>5, FollowsJoined
<1>7. Upwards'
  BY <1>1, <1>5, <1>6 DEF Upwards
<1>8. HeldOnce' /\ Downwards'
  BY <1>1 DEF HeldOnce, Downwards, Inbound
<1>9. Answered'
  <2>1. PICK n \in Nat : Occurs(inbox, PingSent, n, pings) /\ Occurs(Outbound, BR!Pong, pongs, n)
    BY DEF Answered
  <2>2. pongs \in Nat
    BY DEF BridgeShaped
  <2>3. Occurs(Outbound', BR!Pong, pongs', n)
    BY <1>1, <1>3, <1>4, <2>1, <2>2, OccursLess
  <2> QED
    BY <1>1, <2>1, <2>3 DEF Answered
<1>10. BridgeShaped'
  <2>1. wire' \in Seq(Messages) /\ Len(wire') <= WireRoom
    BY <1>1, <1>2 DEF BR!ConstantsAssumption
  <2>2. pongs' \in Nat
    BY <1>1 DEF BridgeShaped
  <2> QED
    BY <1>1, <1>6, <2>1, <2>2 DEF BridgeShaped
<1>11. Endings'
  BY <1>1 DEF Endings, BR!HangupLosesNothing, BR!GivesUpOnlyWhenStuck
<1> QED
  BY <1>7, <1>8, <1>9, <1>10, <1>11

LEMMA SendingKeeps ==
    ASSUME BR!ConstantsAssumption, BridgeInv, BR!ServiceSends
    PROVE  BridgeInv'
<1> USE DEF BridgeInv
<1>1. /\ UNCHANGED << at, sentUp, tcpIn, unsent, blocked, wire, gotUp, pongs >>
      /\ UNCHANGED << pendingTcp, tcpOut, gotDown, progressed, stalled, hangup, ended >>
      /\ fresh' = TRUE
  BY DEF BR!ServiceSends, BR!upward
<1>2. /\ inbox \in Seq(Letter) /\ Len(inbox) \in Nat /\ Inbound \in Seq(Messages)
      /\ sentDown \in Nat /\ pings \in Nat /\ MaxBytes \in Nat /\ MaxPings \in Nat
  BY BridgeNumbers DEF BridgeShaped
<1>3. << >> \in Messages /\ Len(<< >>) = 0 /\ \A n : Follows(<< >>, n)
  BY EmptySeq DEF Messages, Follows
<1>4. PICK m \in Letter :
        /\ inbox' = Append(inbox, m) /\ Len(m.bytes) \in Nat /\ Len(m.bytes) <= 2 /\ Follows(m.bytes, sentDown)
        /\ m.kind # "binary" => m.bytes = << >>
        /\ sentDown' = sentDown + Len(m.bytes) /\ sentDown' <= MaxBytes
        /\ pings' = (IF m = PingSent THEN pings + 1 ELSE pings) /\ pings' <= MaxPings
  <2>1. CASE \E n \in 1 .. 2 :
               /\ sentDown + n <= MaxBytes /\ sentDown' = sentDown + n
               /\ inbox' = Append(inbox, [kind |-> "binary", bytes |-> [k \in 1 .. n |-> sentDown + k]])
               /\ pings' = pings
    <3>1. PICK n \in 1 .. 2 :
            /\ sentDown + n <= MaxBytes /\ sentDown' = sentDown + n
            /\ inbox' = Append(inbox, [kind |-> "binary", bytes |-> [k \in 1 .. n |-> sentDown + k]])
            /\ pings' = pings
      BY <2>1
    <3> DEFINE b == [k \in 1 .. n |-> sentDown + k]
               m == [kind |-> "binary", bytes |-> b]
    <3>2. b \in [1 .. n -> BR!Bytes] /\ n \in Nat
      BY <1>2, <3>1 DEF BR!Bytes
    <3>3. b \in Messages
      BY <3>2, SeqDef DEF Messages
    <3>4. Len(b) = n
      <4>1. DOMAIN b = 1 .. Len(b) /\ Len(b) \in Nat
        BY <3>3, LenProperties DEF Messages
      <4>2. DOMAIN b = 1 .. n
        OBVIOUS
      <4> HIDE DEF b
      <4> QED
        BY <3>2, <4>1, <4>2
    <3>5. Follows(b, sentDown)
      BY <3>4 DEF Follows
    <3> HIDE DEF b
    <3>6. m \in Letter /\ m # PingSent /\ m.kind = "binary" /\ m.bytes = b
      BY <3>3 DEF Letter, PingSent
    <3>7. inbox' = Append(inbox, m)
      BY <3>1 DEF b
    <3>8. pings' <= MaxPings /\ sentDown' = sentDown + Len(b) /\ sentDown' <= MaxBytes /\ Len(b) \in Nat /\ Len(b) <= 2
      BY <3>1, <3>4 DEF BridgeShaped
    <3> HIDE DEF m
    <3> QED
      BY <3>1, <3>5, <3>6, <3>7, <3>8
  <2>2. CASE /\ pings < MaxPings /\ pings' = pings + 1 /\ sentDown' = sentDown
             /\ inbox' = Append(inbox, [kind |-> "ping", bytes |-> << >>])
    <3> DEFINE m == [kind |-> "ping", bytes |-> << >>]
    <3>1. m \in Letter /\ m = PingSent /\ m.bytes = << >>
      BY <1>3 DEF Letter, PingSent
    <3>2. sentDown' = sentDown + 0 /\ sentDown' <= MaxBytes /\ pings' <= MaxPings /\ 0 \in Nat /\ 0 <= 2
      BY <1>2, <2>2 DEF BridgeShaped
    <3>3. inbox' = Append(inbox, m) /\ pings' = pings + 1
      BY <2>2
    <3> HIDE DEF m
    <3> QED
      BY <1>3, <3>1, <3>2, <3>3
  <2>3. CASE /\ pings' = pings /\ sentDown' = sentDown
             /\ inbox' = Append(inbox, [kind |-> "close", bytes |-> << >>])
    <3> DEFINE m == [kind |-> "close", bytes |-> << >>]
    <3>1. m \in Letter /\ m # PingSent /\ m.bytes = << >>
      BY <1>3 DEF Letter, PingSent
    <3>2. sentDown' = sentDown + 0 /\ sentDown' <= MaxBytes /\ pings' <= MaxPings /\ 0 \in Nat /\ 0 <= 2
      BY <1>2, <2>3 DEF BridgeShaped
    <3>3. inbox' = Append(inbox, m) /\ pings' = pings
      BY <2>3
    <3> HIDE DEF m
    <3> QED
      BY <1>3, <3>1, <3>2, <3>3
  <2> QED
    BY <2>1, <2>2, <2>3 DEF BR!ServiceSends
<1>5. /\ inbox' \in Seq(Letter) /\ Len(inbox') = Len(inbox) + 1 /\ inbox'[Len(inbox) + 1] = m
      /\ \A i \in 1 .. Len(inbox) : inbox'[i] = inbox[i]
  BY <1>2, <1>4, AppendProperties
<1>6. Inbound' = Append(Inbound, m.bytes) /\ m.bytes \in Messages
  BY <1>2, <1>4, LoadsMoved DEF Inbound, Letter
<1>7. Downwards'
  <2>1. /\ Len(gotDown) + Len(tcpOut) + Len(pendingTcp) \in Nat
    BY BridgeNumbers
  <2>2. Carries(Inbound', Len(gotDown) + Len(tcpOut) + Len(pendingTcp), sentDown')
    BY <1>2, <1>4, <1>6, <2>1, CarriesMore DEF Downwards
  <2> QED
    BY <1>1, <2>2 DEF Downwards
<1>8. HeldOnce' /\ Upwards'
  BY <1>1 DEF HeldOnce, Upwards, Outbound
<1>9. Answered'
  <2>1. PICK n \in Nat : Occurs(inbox, PingSent, n, pings) /\ Occurs(Outbound, BR!Pong, pongs, n)
    BY DEF Answered
  <2>2. Occurs(inbox', PingSent, n, pings')
    BY <1>2, <1>4, <2>1, OccursMore
  <2> QED
    BY <1>1, <2>1, <2>2 DEF Answered, Outbound
<1>10. BridgeShaped'
  <2>1. sentDown' \in 0 .. MaxBytes /\ pings' \in 0 .. MaxPings
    <3>1. sentDown' \in Nat /\ pings' \in Nat
      BY <1>2, <1>4
    <3> QED
      BY <1>2, <1>4, <3>1
  <2>2. ASSUME NEW i \in 1 .. Len(inbox')
        PROVE  Len(inbox'[i].bytes) <= 2 /\ (inbox'[i].kind # "binary" => inbox'[i].bytes = << >>)
    <3>1. CASE i = Len(inbox) + 1
      <4>1. inbox'[i] = m
        BY <1>5, <3>1
      <4>2. Len(m.bytes) <= 2 /\ (m.kind # "binary" => m.bytes = << >>)
        BY <1>4
      <4> QED
        BY <4>1, <4>2
    <3>2. CASE i # Len(inbox) + 1
      <4>1. i \in 1 .. Len(inbox)
        BY <1>2, <1>5, <3>2
      <4> QED
        BY <1>5, <4>1 DEF BridgeShaped
    <3> QED
      BY <3>1, <3>2
  <2> QED
    BY <1>1, <1>5, <2>1, <2>2 DEF BridgeShaped
<1>11. Endings'
  BY <1>1 DEF Endings, BR!HangupLosesNothing, BR!GivesUpOnlyWhenStuck
<1> QED
  BY <1>7, <1>8, <1>9, <1>10, <1>11

LEMMA BridgeStep == BR!ConstantsAssumption /\ BridgeInv /\ [BR!Next]_(BR!vars) => BridgeInv'
<1>1. ASSUME BridgeInv, UNCHANGED BR!vars PROVE BridgeInv'
  BY <1>1 DEF BR!vars, BR!upward, BR!downward, BridgeInv, BridgeShaped, HeldOnce, Upwards,
     Downwards, Answered, Endings, Outbound, Inbound, BR!HangupLosesNothing, BR!GivesUpOnlyWhenStuck
<1> QED
  BY <1>1, FlushKeeps, ReadTcpKeeps, PullKeeps, PushTcpKeeps, AccountKeeps, FailingKeeps,
     WritingKeeps, ReadingKeeps, ServiceReadsKeeps, SendingKeeps
     DEF BR!Next, BR!Pass

\* What the invariant says of the properties
LEMMA BridgeIsSafe ==
    ASSUME BR!ConstantsAssumption, BridgeInv
    PROVE  /\ BR!TypeOK /\ BR!InOrder
           /\ BR!HangupLosesNothing /\ BR!GivesUpOnlyWhenStuck
<1> USE DEF BridgeInv
<1>1. /\ Len(Outbound) \in Nat /\ Len(Inbound) \in Nat /\ Len(inbox) \in Nat
      /\ Len(gotUp) \in Nat /\ Len(tcpIn) \in Nat /\ sentUp \in Nat
      /\ Len(gotDown) \in Nat /\ Len(tcpOut) \in Nat /\ Len(pendingTcp) \in Nat /\ sentDown \in Nat
  BY BridgeNumbers
<1>2. BR!InOrder
  <2>1. DOMAIN gotUp = 1 .. Len(gotUp) /\ DOMAIN gotDown = 1 .. Len(gotDown)
    BY LenProperties DEF BridgeShaped, Messages
  <2>2. Len(gotUp) <= sentUp - Len(tcpIn)
    BY <1>1, Forward DEF Upwards
  <2>3. Len(gotDown) + Len(tcpOut) + Len(pendingTcp) <= sentDown
    BY <1>1, Forward DEF Downwards
  <2>4. Len(gotUp) <= sentUp /\ Len(gotDown) <= sentDown
    BY <1>1, <2>2, <2>3
  <2>5. (\A k \in 1 .. Len(gotUp) : gotUp[k] = k) /\ (\A k \in 1 .. Len(gotDown) : gotDown[k] = k)
    <3>1. (\A k \in 1 .. Len(gotUp) : gotUp[k] = 0 + k) /\ (\A k \in 1 .. Len(gotDown) : gotDown[k] = 0 + k)
      BY DEF Upwards, Downwards, Follows
    <3> QED
      BY <3>1
  <2> QED
    BY <2>1, <2>4, <2>5 DEF BR!InOrder
<1>3. pongs \in 0 .. MaxPings
  <2>1. PICK n \in Nat : Occurs(inbox, PingSent, n, pings) /\ Occurs(Outbound, BR!Pong, pongs, n)
    BY DEF Answered
  <2>2. n <= pings /\ pongs <= n
    BY <1>1, <2>1, Forward
  <2> QED
    BY <2>1, <2>2 DEF BridgeShaped, BR!ConstantsAssumption
<1>4. BR!TypeOK
  <2>1. DOMAIN unsent = 1 .. Len(unsent)
    BY LenProperties DEF BridgeShaped
  <2> QED
    BY <1>3, <2>1 DEF BR!TypeOK, BridgeShaped, HeldOnce, Messages
<1> QED
  BY <1>2, <1>4 DEF Endings

-----------------------------------------------------------------------------
(* The secure channel *)

Initiator == "initiator"
Responder == "responder"
Hellos    == [from : SC!Identities, target : [id : DeviceIds, key : Keys \cup {Zero}]]
Frames    == [kind : {"clientHello", "serverHello", "record"}, whole : BOOLEAN, sequence : Nat,
              body : Nat \cup Hellos \cup (Hellos \X SC!Identities)]

\* The one hello and the one transcript there can be
TheHello == [from |-> me[Initiator], target |-> expected[Initiator]]
Agreed   == << TheHello, me[Responder] >>

\* What end e can have written; a record carries the message of its number
Genuine(e) ==
    {f \in Frames :
        /\ f.kind = "clientHello" => f.body = TheHello
        /\ f.kind = "serverHello" => f.body = Agreed
        /\ f.kind = "record" => f.body = f.sequence /\ f.sequence < sealing[e]}

\* The types, but for the bounds that follow from Counted and Room
ChannelShaped ==
    /\ me \in [SC!Ends -> SC!Identities]
    /\ expected[Initiator] \in [id : DeviceIds, key : Keys \cup {Zero}]
    /\ phase \in [SC!Ends -> SC!Phases[Initiator] \cup SC!Phases[Responder]]
    /\ \A e \in SC!Ends : phase[e] \in SC!Phases[e]
    /\ peer \in [SC!Ends -> SC!Identities \cup {None}]
    /\ transcript = [e \in SC!Ends |-> transcript[e]]
    /\ stream = [e \in SC!Ends |-> stream[e]]
    /\ shut \in [SC!Ends -> BOOLEAN]
    /\ sealing \in [SC!Ends -> Nat] /\ opening \in [SC!Ends -> Nat] /\ late \in [SC!Ends -> Nat]
    /\ writer \in [SC!Ends -> {"idle", "sealed", "half", "dropped"}]
    /\ reader \in [SC!Ends -> {"idle", "reading", "whole", "dropped"}]
    /\ taken = [e \in SC!Ends |-> taken[e]]
    /\ failed \in [SC!Ends -> BOOLEAN]
    /\ \A e \in SC!Ends : failed[e] => shut[e]
    /\ sent \in [SC!Ends -> Seq(Nat)] /\ delivered \in [SC!Ends -> Seq(Nat)]
    /\ disturbed \in 0 .. MaxDisturbances

OnlyGenuine ==
    \A e \in SC!Ends :
        /\ stream[e] \in Seq(Genuine(e))
        /\ reader[e] = "whole" => taken[e] \in Genuine(SC!Other(e))

\* A frame more than the writers left room for is one the relay repeated
Room == \A e \in SC!Ends : Len(stream[e]) <= FrameRoom + disturbed

\* Sequence numbers count what was sent and what was received
Counted ==
    \A e \in SC!Ends :
        /\ sealing[e] = IF sealing[e] = 0 THEN Len(sent[e]) ELSE Len(sent[e]) + 1
        /\ opening[e] = IF opening[e] = 0 THEN Len(delivered[e]) ELSE Len(delivered[e]) + 1
        /\ Len(sent[e]) <= MaxSends
        /\ \A k \in 1 .. Len(sent[e]) : sent[e][k] = k
        /\ opening[e] <= sealing[SC!Other(e)]

\* The halves work once the handshake has made the keys
AfterHandshake ==
    \A e \in SC!Ends :
        /\ SC!Open(e) => sealing[e] > 0 /\ opening[e] > 0
        /\ writer[e] \in {"sealed", "half"} => sealing[e] > 0
        /\ reader[e] \in {"reading", "whole"} => opening[e] > 0

\* How far the ends are, and what each knows of the other by then
Handshaken ==
    /\ phase[Initiator] \in {"hello", "serverHello", "finish"} => sealing[Initiator] = 0
    /\ phase[Initiator] \in {"hello", "serverHello", "finish", "awaitFinish"} => opening[Initiator] = 0
    /\ phase[Responder] \in {"clientHello", "reply", "awaitFinish", "finish"} => sealing[Responder] = 0
    /\ phase[Responder] \in {"clientHello", "reply", "awaitFinish"} => opening[Responder] = 0
    /\ phase[Responder] \in {"reply", "awaitFinish", "finish", "established", "split"} \/ sealing[Responder] > 0 =>
        /\ transcript[Responder] = Agreed
        /\ peer[Responder] = me[Initiator]
        /\ expected[Responder] \in {Unpinned, me[Initiator]}
    /\ phase[Initiator] \in {"finish", "awaitFinish", "established", "split"} \/ sealing[Initiator] > 0 =>
        /\ transcript[Initiator] = Agreed
        /\ peer[Initiator] = me[Responder]
        /\ expected[Initiator].id = me[Responder].id
        /\ expected[Initiator].key \in {Zero, me[Responder].key}
    /\ phase[Initiator] = "awaitFinish" => sealing[Initiator] > 0
    /\ phase[Responder] = "finish" => opening[Responder] > 0
    /\ SC!Open(Initiator) => transcript[Responder] = Agreed /\ sealing[Responder] > 0
    /\ phase[Responder] \in {"finish", "established", "split"} =>
        transcript[Initiator] = Agreed /\ sealing[Initiator] > 0

\* What comes after a failure is what was being read
LateOnce ==
    \A e \in SC!Ends : late[e] <= 1 /\ (late[e] = 1 => failed[e] /\ reader[e] \in {"idle", "dropped"})

ChannelInv ==
    /\ ChannelShaped /\ OnlyGenuine /\ Room /\ Counted /\ AfterHandshake /\ Handshaken /\ LateOnce

-----------------------------------------------------------------------------
\* There are two ends.
LEMMA TwoEnds ==
    ASSUME NEW e \in SC!Ends
    PROVE  /\ SC!Other(e) \in SC!Ends /\ SC!Other(e) # e /\ SC!Other(SC!Other(e)) = e
           /\ \A f \in SC!Ends : f = e \/ f = SC!Other(e)
<1>1. \A f \in SC!Ends : SC!Other(f) \in SC!Ends /\ SC!Other(f) # f
  BY DEF SC!Ends, SC!Other
<1> QED
  BY <1>1 DEF SC!Ends

\* A sequence over a set is one over a larger set.
LEMMA SeqGrows ==
    ASSUME NEW S, NEW T, S \subseteq T, NEW s \in Seq(S)
    PROVE  s \in Seq(T)
<1>1. \A k \in 1 .. Len(s) : s[k] \in T
  BY ElementOfSeq
<1> QED
  BY <1>1, SeqDef

\* What was genuine stays so.
LEMMA GenuineStays ==
    ASSUME ChannelInv, UNCHANGED << me, expected >>,
           sealing' \in [SC!Ends -> Nat], \A e \in SC!Ends : sealing[e] <= sealing'[e]
    PROVE  \A e \in SC!Ends : Genuine(e) \subseteq Genuine(e)'
<1>1. \A e \in SC!Ends, n \in Nat : n < sealing[e] => n < sealing'[e]
  BY DEF ChannelInv, ChannelShaped
<1> QED
  BY <1>1 DEF Genuine, Frames, TheHello, Agreed, Hellos

\* Reading a frame leaves the others, and it is genuine.
LEMMA Reading ==
    ASSUME SC!ConstantsAssumption, ChannelInv, UNCHANGED << me, expected, disturbed >>,
           sealing' \in [SC!Ends -> Nat], \A f \in SC!Ends : sealing[f] <= sealing'[f],
           NEW e \in SC!Ends, SC!Arrives(e), SC!ReadFrame(e)
    PROVE  /\ stream' = [f \in SC!Ends |-> stream'[f]]
           /\ \A f \in SC!Ends : stream'[f] \in Seq(Genuine(f)')
           /\ Room'
           /\ SC!Arriving(e) \in Genuine(SC!Other(e))
<1>1. SC!Other(e) \in SC!Ends /\ stream[SC!Other(e)] \in Seq(Genuine(SC!Other(e))) /\ stream[SC!Other(e)] # << >>
  BY TwoEnds DEF ChannelInv, OnlyGenuine, SC!Arrives
<1>2. /\ Head(stream[SC!Other(e)]) \in Genuine(SC!Other(e))
      /\ Tail(stream[SC!Other(e)]) \in Seq(Genuine(SC!Other(e)))
      /\ Len(Tail(stream[SC!Other(e)])) = Len(stream[SC!Other(e)]) - 1
      /\ Len(stream[SC!Other(e)]) \in Nat
  BY <1>1, HeadTailProperties
<1>3. /\ stream' = [f \in SC!Ends |-> IF f = SC!Other(e) THEN Tail(stream[f]) ELSE stream[f]]
  BY <1>1 DEF SC!ReadFrame, ChannelInv, ChannelShaped
<1>4. \A f \in SC!Ends : Genuine(f) \subseteq Genuine(f)' /\ stream'[f] \in Seq(Genuine(f))
  BY <1>2, <1>3, GenuineStays DEF ChannelInv, OnlyGenuine
<1>5. \A f \in SC!Ends : stream'[f] \in Seq(Genuine(f)')
  BY <1>4, SeqGrows
<1>6. \A f \in SC!Ends : Len(stream'[f]) <= Len(stream[f])
  <2>1. Len(Tail(stream[SC!Other(e)])) <= Len(stream[SC!Other(e)])
    BY <1>2
  <2>2. \A f \in SC!Ends : Len(stream[f]) \in Nat
    BY DEF ChannelInv, OnlyGenuine
  <2> QED
    BY <1>3, <2>1, <2>2
<1>7. Room'
  <2>1. \A f \in SC!Ends : Len(stream[f]) \in Nat /\ Len(stream'[f]) \in Nat
    BY <1>5 DEF ChannelInv, OnlyGenuine
  <2> QED
    BY SMTT(30), <1>6, <2>1 DEF ChannelInv, ChannelShaped, Room, SC!ConstantsAssumption
<1> QED
  BY <1>2, <1>3, <1>5, <1>7 DEF SC!Arriving

\* Writing a genuine frame where there is room.
LEMMA Writing ==
    ASSUME SC!ConstantsAssumption, ChannelInv, UNCHANGED << me, expected, disturbed >>,
           sealing' \in [SC!Ends -> Nat], \A f \in SC!Ends : sealing[f] <= sealing'[f],
           NEW e \in SC!Ends, NEW frame, frame \in Genuine(e)', SC!CanWrite(e), SC!WriteFrame(e, frame)
    PROVE  /\ stream' = [f \in SC!Ends |-> stream'[f]]
           /\ \A f \in SC!Ends : stream'[f] \in Seq(Genuine(f)')
           /\ Room'
<1>1. \A f \in SC!Ends : stream[f] \in Seq(Genuine(f)')
  BY GenuineStays, SeqGrows DEF ChannelInv, OnlyGenuine
<1>2. /\ Append(stream[e], frame) \in Seq(Genuine(e)')
      /\ Len(Append(stream[e], frame)) = Len(stream[e]) + 1
  BY <1>1, AppendProperties
<1>3. stream' = [f \in SC!Ends |-> IF f = e THEN Append(stream[f], frame) ELSE stream[f]]
  BY DEF SC!WriteFrame, ChannelInv, ChannelShaped
<1>4. Room'
  <2>1. \A f \in SC!Ends : Len(stream[f]) \in Nat
    BY <1>1
  <2>2. Len(stream'[e]) <= FrameRoom
    BY <1>2, <1>3, <2>1 DEF SC!CanWrite, SC!ConstantsAssumption
  <2>3. \A f \in SC!Ends : f # e => Len(stream'[f]) = Len(stream[f])
    BY <1>3
  <2>4. disturbed \in Nat /\ disturbed' = disturbed /\ FrameRoom \in Nat /\ Len(stream'[e]) \in Nat
    BY <1>2, <1>3, <2>1 DEF ChannelInv, ChannelShaped, SC!ConstantsAssumption
  <2> QED
    BY <2>2, <2>3, <2>4 DEF ChannelInv, Room
<1> QED
  BY <1>1, <1>2, <1>3, <1>4

\* Losing, repeating or swapping frames makes no new ones.
LEMMA Disturbing ==
    ASSUME NEW G, NEW s \in Seq(G), NEW k \in DOMAIN s
    PROVE  /\ SubSeq(s, 1, k - 1) \o SubSeq(s, k + 1, Len(s)) \in Seq(G)
           /\ Len(SubSeq(s, 1, k - 1) \o SubSeq(s, k + 1, Len(s))) <= Len(s) + 1
           /\ SubSeq(s, 1, k) \o SubSeq(s, k, Len(s)) \in Seq(G)
           /\ Len(SubSeq(s, 1, k) \o SubSeq(s, k, Len(s))) <= Len(s) + 1
<1>1. k \in 1 .. Len(s) /\ Len(s) \in Nat /\ \A i \in 1 .. Len(s) : s[i] \in G
  BY ElementOfSeq, LenProperties
<1>2. /\ SubSeq(s, 1, k - 1) \in Seq(G) /\ Len(SubSeq(s, 1, k - 1)) = k - 1
      /\ SubSeq(s, 1, k) \in Seq(G) /\ Len(SubSeq(s, 1, k)) = k
  <2>1. k - 1 \in Nat /\ \A i \in 1 .. k - 1 : s[i] \in G
    BY <1>1
  <2>2. \A i \in 1 .. k : s[i] \in G
    BY <1>1
  <2>3. (IF 1 <= k - 1 THEN k - 1 - 1 + 1 ELSE 0) = k - 1
    BY <1>1
  <2> QED
    BY <1>1, <2>1, <2>2, <2>3, SubSeqProperties
<1>3. /\ SubSeq(s, k + 1, Len(s)) \in Seq(G) /\ Len(SubSeq(s, k + 1, Len(s))) = Len(s) - k
      /\ SubSeq(s, k, Len(s)) \in Seq(G) /\ Len(SubSeq(s, k, Len(s))) = Len(s) - k + 1
  <2>1. (\A i \in k + 1 .. Len(s) : s[i] \in G) /\ (\A i \in k .. Len(s) : s[i] \in G)
    BY <1>1
  <2>2. (IF k + 1 <= Len(s) THEN Len(s) - (k + 1) + 1 ELSE 0) = Len(s) - k
    BY <1>1
  <2> QED
    BY <1>1, <2>1, <2>2, SubSeqProperties
<1> QED
  BY SMTT(30), <1>1, <1>2, <1>3, ConcatProperties

\* Changing frames of a sequence into frames leaves it one.
LEMMA Changing ==
    ASSUME NEW G, NEW s \in Seq(G), NEW t, DOMAIN t = DOMAIN s, t = [k \in DOMAIN t |-> t[k]],
           \A k \in DOMAIN s : t[k] \in G
    PROVE  t \in Seq(G) /\ Len(t) = Len(s)
<1>1. Len(s) \in Nat /\ DOMAIN s = 1 .. Len(s)
  BY LenProperties
<1>2. t \in [1 .. Len(s) -> G]
  BY <1>1
<1> QED
  BY <1>1, <1>2, SeqDef, LenProperties

\* A step counts on if each end it changes counts again.
LEMMA CountsOn ==
    ASSUME ChannelInv, sealing' \in [SC!Ends -> Nat], opening' \in [SC!Ends -> Nat],
           sent' \in [SC!Ends -> Seq(Nat)], delivered' \in [SC!Ends -> Seq(Nat)],
           \A f \in SC!Ends :
               \/ sealing'[f] = sealing[f] /\ sent'[f] = sent[f]
               \/ /\ sealing'[f] = Len(sent'[f]) + 1 /\ sealing[f] <= sealing'[f]
                  /\ Len(sent'[f]) <= MaxSends
                  /\ \A k \in 1 .. Len(sent'[f]) : sent'[f][k] = k,
           \A f \in SC!Ends :
               \/ opening'[f] = opening[f] /\ delivered'[f] = delivered[f]
               \/ opening'[f] = Len(delivered'[f]) + 1 /\ opening'[f] <= sealing[SC!Other(f)]
    PROVE  Counted'
<1> SUFFICES ASSUME NEW f \in SC!Ends
             PROVE  /\ sealing'[f] = IF sealing'[f] = 0 THEN Len(sent'[f]) ELSE Len(sent'[f]) + 1
                    /\ opening'[f] = IF opening'[f] = 0 THEN Len(delivered'[f]) ELSE Len(delivered'[f]) + 1
                    /\ Len(sent'[f]) <= MaxSends
                    /\ \A k \in 1 .. Len(sent'[f]) : sent'[f][k] = k
                    /\ opening'[f] <= sealing'[SC!Other(f)]
  BY DEF Counted
<1>1. SC!Other(f) \in SC!Ends /\ Counted /\ ChannelShaped
  BY TwoEnds DEF ChannelInv
<1>2. /\ Len(sent'[f]) \in Nat /\ Len(delivered'[f]) \in Nat
      /\ sealing'[f] \in Nat /\ opening'[f] \in Nat
  OBVIOUS
<1>a. /\ sealing[f] = IF sealing[f] = 0 THEN Len(sent[f]) ELSE Len(sent[f]) + 1
      /\ opening[f] = IF opening[f] = 0 THEN Len(delivered[f]) ELSE Len(delivered[f]) + 1
      /\ Len(sent[f]) <= MaxSends /\ \A k \in 1 .. Len(sent[f]) : sent[f][k] = k
      /\ opening[f] <= sealing[SC!Other(f)]
  BY <1>1 DEF Counted
<1>3. /\ sealing'[f] = IF sealing'[f] = 0 THEN Len(sent'[f]) ELSE Len(sent'[f]) + 1
      /\ Len(sent'[f]) <= MaxSends
      /\ \A k \in 1 .. Len(sent'[f]) : sent'[f][k] = k
  <2>1. CASE sealing'[f] = sealing[f] /\ sent'[f] = sent[f]
    BY <1>a, <2>1
  <2>2. CASE /\ sealing'[f] = Len(sent'[f]) + 1 /\ Len(sent'[f]) <= MaxSends
             /\ \A k \in 1 .. Len(sent'[f]) : sent'[f][k] = k
    BY <1>2, <2>2
  <2> QED
    BY <2>1, <2>2
<1>4. opening'[f] = IF opening'[f] = 0 THEN Len(delivered'[f]) ELSE Len(delivered'[f]) + 1
  <2>1. CASE opening'[f] = opening[f] /\ delivered'[f] = delivered[f]
    BY <1>a, <2>1
  <2>2. CASE opening'[f] = Len(delivered'[f]) + 1
    BY <1>2, <2>2
  <2> QED
    BY <2>1, <2>2
<1>5. opening'[f] <= sealing[SC!Other(f)]
  BY <1>a
<1>6. sealing[SC!Other(f)] <= sealing'[SC!Other(f)]
  BY <1>1 DEF ChannelShaped
<1> QED
  <2>1. sealing[SC!Other(f)] \in Nat /\ sealing'[SC!Other(f)] \in Nat
    BY <1>1 DEF ChannelShaped
  <2>2. opening'[f] <= sealing'[SC!Other(f)]
    BY <1>2, <1>5, <1>6, <2>1
  <2> QED
    BY <1>3, <1>4, <2>2

LEMMA SendClientHelloKeeps ==
    ASSUME SC!ConstantsAssumption, ChannelInv, SC!SendClientHello
    PROVE  ChannelInv'
<1> USE DEF SC!SendClientHello, SC!handshake, SC!threads, SC!history, SC!GoesTo, SC!WriterAt,
   SC!ReaderAt, SC!Fail, SC!Open, Initiator, Responder
<1>i. ChannelShaped /\ OnlyGenuine /\ Room /\ Counted /\ AfterHandshake /\ Handshaken /\ LateOnce
  BY DEF ChannelInv
<1>o. \A f \in SC!Ends : SC!Other(f) \in SC!Ends /\ SC!Other(f) # f /\ SC!Other(SC!Other(f)) = f
  BY TwoEnds
<1>s. \A f \in SC!Ends : stream[f] \in Seq(Genuine(f)) /\ Len(stream[f]) \in Nat
  BY <1>i DEF OnlyGenuine
<1>g. SC!Hello("clientHello", TheHello) \in Genuine(Initiator)'
  BY <1>i DEF ChannelShaped, Genuine, Frames, SC!Hello, Hellos, TheHello, SC!Ends
<1>f. /\ stream' = [f \in SC!Ends |-> stream'[f]]
      /\ \A f \in SC!Ends : stream'[f] \in Seq(Genuine(f)')
      /\ Room'
  BY <1>i, <1>g, Writing DEF TheHello, ChannelShaped, SC!Ends
<1>1. ChannelShaped'
  BY <1>f, <1>i DEF ChannelShaped, SC!Ends, SC!Phases
<1>2. OnlyGenuine'
  <2>1. \A f \in SC!Ends : Genuine(f) \subseteq Genuine(f)'
    BY <1>i, GenuineStays DEF ChannelShaped
  <2> QED
    BY <1>f, <1>i, <1>o, <2>1 DEF OnlyGenuine, ChannelShaped
<1>3. Room'
  BY <1>f
<1>4. Counted'
  BY <1>i DEF Counted, ChannelShaped
<1>5. AfterHandshake'
  BY <1>i DEF AfterHandshake, ChannelShaped
<1>6. Handshaken'
  BY <1>i DEF Handshaken, ChannelShaped, Agreed, TheHello, SC!Ends
<1>7. LateOnce'
  BY <1>i DEF LateOnce, ChannelShaped
<1> QED
  BY <1>1, <1>2, <1>3, <1>4, <1>5, <1>6, <1>7 DEF ChannelInv

LEMMA ReceiveClientHelloKeeps ==
    ASSUME SC!ConstantsAssumption, ChannelInv, SC!ReceiveClientHello
    PROVE  ChannelInv'
<1> USE DEF SC!ReceiveClientHello, SC!handshake, SC!threads, SC!history, SC!GoesTo, SC!WriterAt,
   SC!ReaderAt, SC!Fail, SC!Open, Initiator, Responder
<1>i. ChannelShaped /\ OnlyGenuine /\ Room /\ Counted /\ AfterHandshake /\ Handshaken /\ LateOnce
  BY DEF ChannelInv
<1>o. \A f \in SC!Ends : SC!Other(f) \in SC!Ends /\ SC!Other(f) # f /\ SC!Other(SC!Other(f)) = f
  BY TwoEnds
<1>s. \A f \in SC!Ends : stream[f] \in Seq(Genuine(f)) /\ Len(stream[f]) \in Nat
  BY <1>i DEF OnlyGenuine
<1>f. /\ stream' = [f \in SC!Ends |-> stream'[f]]
      /\ \A f \in SC!Ends : stream'[f] \in Seq(Genuine(f)')
      /\ Room' /\ SC!Arriving(Responder) \in Genuine(SC!Other(Responder))
  BY <1>i, Reading DEF ChannelShaped, SC!Ends
<1>b. /\ SC!Arriving(Responder).body = TheHello /\ TheHello.from = me[Initiator]
      /\ me[Initiator] \in SC!Identities
  BY <1>f, <1>i DEF Genuine, TheHello, ChannelShaped, SC!Ends
<1>p. /\ peer' = [peer EXCEPT ![Responder] = me[Initiator]]
      /\ transcript' = [transcript EXCEPT ![Responder] = Agreed]
      /\ phase' = [phase EXCEPT ![Responder] = "reply"]
  BY <1>b DEF Agreed
<1>1. ChannelShaped'
  <2> HIDE DEF SC!ReceiveClientHello
  <2>1. UNCHANGED << me, expected, shut, sealing, opening, SC!threads, SC!history, disturbed >>
    BY DEF SC!ReceiveClientHello
  <2> QED
    <3>1. peer' \in [SC!Ends -> SC!Identities \cup {None}] /\ transcript' = [f \in SC!Ends |-> transcript'[f]]
      BY <1>b, <1>i, <1>p DEF ChannelShaped
    <3>2. /\ phase' \in [SC!Ends -> SC!Phases["initiator"] \cup SC!Phases["responder"]]
          /\ \A f \in SC!Ends : phase'[f] \in SC!Phases[f]
      BY <1>i, <1>p DEF ChannelShaped, SC!Ends, SC!Phases
    <3> QED
      BY <1>f, <1>i, <2>1, <3>1, <3>2 DEF ChannelShaped
<1>2. OnlyGenuine'
  <2>1. \A f \in SC!Ends : Genuine(f) \subseteq Genuine(f)'
    BY <1>i, GenuineStays DEF ChannelShaped
  <2> QED
    BY <1>f, <1>i, <1>o, <2>1 DEF OnlyGenuine, ChannelShaped
<1>3. Room'
  BY <1>f
<1>4. Counted'
  BY <1>i DEF Counted, ChannelShaped
<1>5. AfterHandshake'
  BY <1>i DEF AfterHandshake, ChannelShaped
<1>6. Handshaken'
  BY <1>b, <1>i DEF Handshaken, SC!AcceptHello, ChannelShaped, Agreed, TheHello, SC!Ends
<1>7. LateOnce'
  BY <1>i DEF LateOnce, ChannelShaped
<1> QED
  BY <1>1, <1>2, <1>3, <1>4, <1>5, <1>6, <1>7 DEF ChannelInv

LEMMA SendServerHelloKeeps ==
    ASSUME SC!ConstantsAssumption, ChannelInv, SC!SendServerHello
    PROVE  ChannelInv'
<1> USE DEF SC!SendServerHello, SC!handshake, SC!threads, SC!history, SC!GoesTo, SC!WriterAt,
   SC!ReaderAt, SC!Fail, SC!Open, Initiator, Responder
<1>i. ChannelShaped /\ OnlyGenuine /\ Room /\ Counted /\ AfterHandshake /\ Handshaken /\ LateOnce
  BY DEF ChannelInv
<1>o. \A f \in SC!Ends : SC!Other(f) \in SC!Ends /\ SC!Other(f) # f /\ SC!Other(SC!Other(f)) = f
  BY TwoEnds
<1>s. \A f \in SC!Ends : stream[f] \in Seq(Genuine(f)) /\ Len(stream[f]) \in Nat
  BY <1>i DEF OnlyGenuine
<1>g. SC!Hello("serverHello", transcript[Responder]) \in Genuine(Responder)'
  <2>1. transcript[Responder] = Agreed /\ Agreed \in Hellos \X SC!Identities
    BY <1>i DEF ChannelShaped, Handshaken, Hellos, TheHello, Agreed, SC!Ends
  <2> QED
    BY <2>1 DEF Genuine, Frames, SC!Hello, TheHello, Agreed
<1>f. /\ stream' = [f \in SC!Ends |-> stream'[f]]
      /\ \A f \in SC!Ends : stream'[f] \in Seq(Genuine(f)')
      /\ Room'
  BY <1>i, <1>g, Writing DEF ChannelShaped, SC!Ends
<1>1. ChannelShaped'
  BY <1>f, <1>i DEF ChannelShaped, SC!Ends, SC!Phases
<1>2. OnlyGenuine'
  <2>1. \A f \in SC!Ends : Genuine(f) \subseteq Genuine(f)'
    BY <1>i, GenuineStays DEF ChannelShaped
  <2> QED
    BY <1>f, <1>i, <1>o, <2>1 DEF OnlyGenuine, ChannelShaped
<1>3. Room'
  BY <1>f
<1>4. Counted'
  BY <1>i DEF Counted, ChannelShaped
<1>5. AfterHandshake'
  BY <1>i DEF AfterHandshake, ChannelShaped
<1>6. Handshaken'
  BY <1>i DEF Handshaken, ChannelShaped, Agreed, TheHello, SC!Ends
<1>7. LateOnce'
  BY <1>i DEF LateOnce, ChannelShaped
<1> QED
  BY <1>1, <1>2, <1>3, <1>4, <1>5, <1>6, <1>7 DEF ChannelInv

LEMMA ReceiveServerHelloKeeps ==
    ASSUME SC!ConstantsAssumption, ChannelInv, SC!ReceiveServerHello
    PROVE  ChannelInv'
<1> USE DEF SC!ReceiveServerHello, SC!handshake, SC!threads, SC!history, SC!GoesTo, SC!WriterAt,
   SC!ReaderAt, SC!Fail, SC!Open, Initiator, Responder
<1>i. ChannelShaped /\ OnlyGenuine /\ Room /\ Counted /\ AfterHandshake /\ Handshaken /\ LateOnce
  BY DEF ChannelInv
<1>o. \A f \in SC!Ends : SC!Other(f) \in SC!Ends /\ SC!Other(f) # f /\ SC!Other(SC!Other(f)) = f
  BY TwoEnds
<1>s. \A f \in SC!Ends : stream[f] \in Seq(Genuine(f)) /\ Len(stream[f]) \in Nat
  BY <1>i DEF OnlyGenuine
<1>f. /\ stream' = [f \in SC!Ends |-> stream'[f]]
      /\ \A f \in SC!Ends : stream'[f] \in Seq(Genuine(f)')
      /\ Room' /\ SC!Arriving(Initiator) \in Genuine(SC!Other(Initiator))
  BY <1>i, Reading DEF ChannelShaped, SC!Ends
<1>b. /\ SC!Arriving(Initiator).body = Agreed /\ Agreed[2] = me[Responder]
      /\ me[Responder] \in SC!Identities
  BY <1>f, <1>i DEF Genuine, Agreed, ChannelShaped, SC!Ends
<1>p. /\ peer' = [peer EXCEPT ![Initiator] = me[Responder]]
      /\ transcript' = [transcript EXCEPT ![Initiator] = Agreed]
      /\ phase' = [phase EXCEPT ![Initiator] = "finish"]
      /\ expected[Initiator].id = me[Responder].id
      /\ expected[Initiator].key \in {Zero, me[Responder].key}
  BY <1>b
<1>u. UNCHANGED << me, expected, shut, sealing, opening, SC!threads, SC!history, disturbed >>
  OBVIOUS
<1>1. ChannelShaped'
  <2> HIDE DEF SC!ReceiveServerHello
  <2> QED
    <3>1. peer' \in [SC!Ends -> SC!Identities \cup {None}] /\ transcript' = [f \in SC!Ends |-> transcript'[f]]
      BY <1>b, <1>i, <1>p DEF ChannelShaped
    <3>2. /\ phase' \in [SC!Ends -> SC!Phases["initiator"] \cup SC!Phases["responder"]]
          /\ \A f \in SC!Ends : phase'[f] \in SC!Phases[f]
      BY <1>i, <1>p DEF ChannelShaped, SC!Ends, SC!Phases
    <3> QED
      BY <1>f, <1>i, <1>u, <3>1, <3>2 DEF ChannelShaped
<1>2. OnlyGenuine'
  <2>1. \A f \in SC!Ends : Genuine(f) \subseteq Genuine(f)'
    BY <1>i, GenuineStays DEF ChannelShaped
  <2> QED
    BY <1>f, <1>i, <1>o, <2>1 DEF OnlyGenuine, ChannelShaped
<1>3. Room'
  BY <1>f
<1>4. Counted'
  BY <1>i DEF Counted, ChannelShaped
<1>5. AfterHandshake'
  BY <1>i DEF AfterHandshake, ChannelShaped
<1>6. Handshaken'
  <2>1. phase[Initiator] = "serverHello" /\ Agreed' = Agreed /\ Initiator # Responder
    BY <1>u DEF Agreed, TheHello
  <2> HIDE DEF SC!ReceiveServerHello, Initiator, Responder
  <2>2. /\ phase'[Responder] = phase[Responder] /\ phase'[Initiator] = "finish"
        /\ transcript'[Responder] = transcript[Responder] /\ transcript'[Initiator] = Agreed
        /\ peer'[Responder] = peer[Responder] /\ peer'[Initiator] = me[Responder]
    BY <1>i, <1>p, <2>1 DEF ChannelShaped, SC!Ends, Initiator, Responder
  <2> QED
    BY <1>i, <1>p, <1>u, <2>1, <2>2 DEF Handshaken
<1>7. LateOnce'
  BY <1>i DEF LateOnce, ChannelShaped
<1> QED
  BY <1>1, <1>2, <1>3, <1>4, <1>5, <1>6, <1>7 DEF ChannelInv

LEMMA SendFinishKeeps ==
    ASSUME SC!ConstantsAssumption, ChannelInv, NEW e \in SC!Ends, SC!SendFinish(e)
    PROVE  ChannelInv'
<1> USE DEF SC!SendFinish, SC!handshake, SC!threads, SC!history, SC!GoesTo, SC!WriterAt,
   SC!ReaderAt, SC!Fail, SC!Open, Initiator, Responder
<1>i. ChannelShaped /\ OnlyGenuine /\ Room /\ Counted /\ AfterHandshake /\ Handshaken /\ LateOnce
  BY DEF ChannelInv
<1>o. \A f \in SC!Ends : SC!Other(f) \in SC!Ends /\ SC!Other(f) # f /\ SC!Other(SC!Other(f)) = f
  BY TwoEnds
<1>s. \A f \in SC!Ends : stream[f] \in Seq(Genuine(f)) /\ Len(stream[f]) \in Nat
  BY <1>i DEF OnlyGenuine
<1>z. sealing[e] = 0
  BY <1>i DEF Handshaken, ChannelShaped, SC!Phases, SC!Ends
<1>n. sealing' \in [SC!Ends -> Nat] /\ sealing'[e] = 1 /\ \A f \in SC!Ends : sealing[f] <= sealing'[f]
  BY <1>i, <1>z DEF ChannelShaped
<1>g. SC!Record(sealing[e], SC!Finish) \in Genuine(e)'
  BY <1>n, <1>z DEF Genuine, Frames, SC!Record, SC!Finish
<1>f. /\ stream' = [f \in SC!Ends |-> stream'[f]]
      /\ \A f \in SC!Ends : stream'[f] \in Seq(Genuine(f)')
      /\ Room'
  BY <1>i, <1>g, <1>n, Writing DEF ChannelShaped, SC!Ends
<1>1. ChannelShaped'
  BY SMTT(30), <1>f, <1>i DEF ChannelShaped, SC!Ends, SC!Phases
<1>2. OnlyGenuine'
  <2>1. \A f \in SC!Ends : Genuine(f) \subseteq Genuine(f)'
    BY SMTT(30), <1>i, GenuineStays DEF ChannelShaped
  <2> QED
    BY <1>f, <1>i, <1>o, <2>1 DEF OnlyGenuine, ChannelShaped
<1>3. Room'
  BY <1>f
<1>4. Counted'
  <2>1. Len(sent[e]) = 0 /\ MaxSends \in Nat
    BY <1>i, <1>z DEF Counted, SC!ConstantsAssumption
  <2>2. /\ sealing' = [sealing EXCEPT ![e] = sealing[e] + 1]
        /\ UNCHANGED << opening, sent, delivered >>
    OBVIOUS
  <2> HIDE DEF SC!SendFinish
  <2>3. \A f \in SC!Ends :
          \/ sealing'[f] = sealing[f] /\ sent'[f] = sent[f]
          \/ /\ sealing'[f] = Len(sent'[f]) + 1 /\ sealing[f] <= sealing'[f]
             /\ Len(sent'[f]) <= MaxSends
             /\ \A k \in 1 .. Len(sent'[f]) : sent'[f][k] = k
    BY <1>i, <1>n, <1>z, <2>1, <2>2 DEF ChannelShaped, Counted
  <2> QED
    BY <1>i, <1>n, <2>2, <2>3, CountsOn DEF ChannelShaped
<1>5. AfterHandshake'
  BY <1>i, <1>n DEF SC!Ends, Handshaken, AfterHandshake, ChannelShaped
<1>6. Handshaken'
  BY <1>i DEF Handshaken, ChannelShaped, Agreed, TheHello, SC!Ends
<1>7. LateOnce'
  BY <1>i DEF LateOnce, ChannelShaped
<1> QED
  BY <1>1, <1>2, <1>3, <1>4, <1>5, <1>6, <1>7 DEF ChannelInv

LEMMA ReceiveFinishKeeps ==
    ASSUME SC!ConstantsAssumption, ChannelInv, NEW e \in SC!Ends, SC!ReceiveFinish(e)
    PROVE  ChannelInv'
<1> USE DEF SC!ReceiveFinish, SC!handshake, SC!threads, SC!history, SC!GoesTo, SC!WriterAt,
   SC!ReaderAt, SC!Fail, SC!Open, Initiator, Responder
<1>i. ChannelShaped /\ OnlyGenuine /\ Room /\ Counted /\ AfterHandshake /\ Handshaken /\ LateOnce
  BY DEF ChannelInv
<1>o. \A f \in SC!Ends : SC!Other(f) \in SC!Ends /\ SC!Other(f) # f /\ SC!Other(SC!Other(f)) = f
  BY TwoEnds
<1>s. \A f \in SC!Ends : stream[f] \in Seq(Genuine(f)) /\ Len(stream[f]) \in Nat
  BY <1>i DEF OnlyGenuine
<1>f. /\ stream' = [f \in SC!Ends |-> stream'[f]]
      /\ \A f \in SC!Ends : stream'[f] \in Seq(Genuine(f)')
      /\ Room' /\ SC!Arriving(e) \in Genuine(SC!Other(e))
  BY <1>i, Reading DEF ChannelShaped, SC!Ends
<1>1. ChannelShaped'
  BY SMTT(30), <1>f, <1>i DEF ChannelShaped, SC!Ends, SC!Phases
<1>2. OnlyGenuine'
  <2>1. \A f \in SC!Ends : Genuine(f) \subseteq Genuine(f)'
    BY <1>i, GenuineStays DEF ChannelShaped
  <2> QED
    BY <1>f, <1>i, <1>o, <2>1 DEF OnlyGenuine, ChannelShaped
<1>3. Room'
  BY <1>f
<1>z. /\ opening[e] = 0 /\ opening' = [opening EXCEPT ![e] = 1] /\ sealing[SC!Other(e)] > 0
      /\ transcript[e] = transcript[SC!Other(e)]
  <2>1. opening[e] = 0
    BY <1>i DEF Handshaken, ChannelShaped, SC!Phases, SC!Ends
  <2>2. 0 < sealing[SC!Other(e)]
    BY <1>f, <2>1 DEF SC!Opens, Genuine
  <2> QED
    BY <1>i, <1>o, <2>1, <2>2 DEF ChannelShaped, SC!Opens
<1>4. Counted'
  <2>1. Len(delivered[e]) = 0 /\ sealing[SC!Other(e)] \in Nat
    BY <1>i, <1>o, <1>z DEF Counted, ChannelShaped
  <2> HIDE DEF SC!ReceiveFinish
  <2>2. UNCHANGED << sealing, sent, delivered >>
    BY DEF SC!ReceiveFinish
  <2> QED
    BY <1>i, <1>o, <1>z, <2>1, <2>2, CountsOn DEF ChannelShaped
<1>5. AfterHandshake'
  BY <1>i, <1>z DEF SC!Ends, Handshaken, AfterHandshake, ChannelShaped
<1>6. Handshaken'
  <2>1. SC!Other(Initiator) = Responder /\ SC!Other(Responder) = Initiator
    BY TwoEnds DEF SC!Ends
  <2> QED
    BY <1>i, <1>z, <2>1 DEF Handshaken, ChannelShaped, Agreed, TheHello, SC!Ends
<1>7. LateOnce'
  BY <1>i DEF LateOnce, ChannelShaped
<1> QED
  BY <1>1, <1>2, <1>3, <1>4, <1>5, <1>6, <1>7 DEF ChannelInv

LEMMA HandshakeFailsKeeps ==
    ASSUME SC!ConstantsAssumption, ChannelInv, NEW e \in SC!Ends, SC!HandshakeFails(e)
    PROVE  ChannelInv'
<1> USE DEF SC!HandshakeFails, SC!handshake, SC!threads, SC!history, SC!GoesTo, SC!WriterAt,
   SC!ReaderAt, SC!Fail, SC!Open, Initiator, Responder
<1>i. ChannelShaped /\ OnlyGenuine /\ Room /\ Counted /\ AfterHandshake /\ Handshaken /\ LateOnce
  BY DEF ChannelInv
<1>o. \A f \in SC!Ends : SC!Other(f) \in SC!Ends /\ SC!Other(f) # f /\ SC!Other(SC!Other(f)) = f
  BY TwoEnds
<1>s. \A f \in SC!Ends : stream[f] \in Seq(Genuine(f)) /\ Len(stream[f]) \in Nat
  BY <1>i DEF OnlyGenuine
<1>1. ChannelShaped'
  BY <1>i DEF ChannelShaped, SC!Ends, SC!Phases
<1>2. OnlyGenuine'
  <2>1. \A f \in SC!Ends : Genuine(f) \subseteq Genuine(f)'
    BY <1>i, GenuineStays DEF ChannelShaped
  <2> QED
    BY <1>i, <1>o, <1>s, <2>1, SeqGrows DEF OnlyGenuine, ChannelShaped
<1>3. Room'
  BY <1>i, <1>s DEF Room, ChannelShaped
<1>4. Counted'
  BY <1>i DEF Counted, ChannelShaped
<1>5. AfterHandshake'
  BY <1>i DEF AfterHandshake, ChannelShaped
<1>6. Handshaken'
  BY <1>i DEF Handshaken, ChannelShaped, Agreed, TheHello, SC!Ends
<1>7. LateOnce'
  BY <1>i DEF LateOnce, ChannelShaped
<1> QED
  BY <1>1, <1>2, <1>3, <1>4, <1>5, <1>6, <1>7 DEF ChannelInv

LEMMA SplitKeeps ==
    ASSUME SC!ConstantsAssumption, ChannelInv, NEW e \in SC!Ends, SC!Split(e)
    PROVE  ChannelInv'
<1> USE DEF SC!Split, SC!handshake, SC!threads, SC!history, SC!GoesTo, SC!WriterAt, SC!ReaderAt,
   SC!Fail, SC!Open, Initiator, Responder
<1>i. ChannelShaped /\ OnlyGenuine /\ Room /\ Counted /\ AfterHandshake /\ Handshaken /\ LateOnce
  BY DEF ChannelInv
<1>o. \A f \in SC!Ends : SC!Other(f) \in SC!Ends /\ SC!Other(f) # f /\ SC!Other(SC!Other(f)) = f
  BY TwoEnds
<1>s. \A f \in SC!Ends : stream[f] \in Seq(Genuine(f)) /\ Len(stream[f]) \in Nat
  BY <1>i DEF OnlyGenuine
<1>1. ChannelShaped'
  BY <1>i DEF ChannelShaped, SC!Ends, SC!Phases
<1>2. OnlyGenuine'
  <2>1. \A f \in SC!Ends : Genuine(f) \subseteq Genuine(f)'
    BY <1>i, GenuineStays DEF ChannelShaped
  <2> QED
    BY <1>i, <1>o, <1>s, <2>1, SeqGrows DEF OnlyGenuine, ChannelShaped
<1>3. Room'
  BY <1>i, <1>s DEF Room, ChannelShaped
<1>4. Counted'
  BY <1>i DEF Counted, ChannelShaped
<1>5. AfterHandshake'
  BY <1>i DEF AfterHandshake, ChannelShaped
<1>6. Handshaken'
  BY <1>i DEF Handshaken, ChannelShaped, Agreed, TheHello, SC!Ends
<1>7. LateOnce'
  BY <1>i DEF LateOnce, ChannelShaped
<1> QED
  BY <1>1, <1>2, <1>3, <1>4, <1>5, <1>6, <1>7 DEF ChannelInv

LEMMA SealKeeps ==
    ASSUME SC!ConstantsAssumption, ChannelInv, NEW e \in SC!Ends, SC!Seal(e)
    PROVE  ChannelInv'
<1> USE DEF SC!Seal, SC!handshake, SC!threads, SC!history, SC!GoesTo, SC!WriterAt, SC!ReaderAt,
   SC!Fail, SC!Open, Initiator, Responder
<1>i. ChannelShaped /\ OnlyGenuine /\ Room /\ Counted /\ AfterHandshake /\ Handshaken /\ LateOnce
  BY DEF ChannelInv
<1>o. \A f \in SC!Ends : SC!Other(f) \in SC!Ends /\ SC!Other(f) # f /\ SC!Other(SC!Other(f)) = f
  BY TwoEnds
<1>s. \A f \in SC!Ends : stream[f] \in Seq(Genuine(f)) /\ Len(stream[f]) \in Nat
  BY <1>i DEF OnlyGenuine
<1>1. ChannelShaped'
  BY SMTT(30), <1>i DEF ChannelShaped, SC!Ends, SC!Phases
<1>2. OnlyGenuine'
  <2>1. \A f \in SC!Ends : Genuine(f) \subseteq Genuine(f)'
    BY SMTT(30), <1>i, GenuineStays DEF ChannelShaped
  <2> QED
    BY <1>i, <1>o, <1>s, <2>1, SeqGrows DEF OnlyGenuine, ChannelShaped
<1>3. Room'
  BY <1>i, <1>s DEF Room, ChannelShaped
<1>n. /\ sealing[e] > 0 /\ sealing[e] = Len(sent[e]) + 1 /\ Len(sent[e]) \in Nat
      /\ sent' = [sent EXCEPT ![e] = Append(sent[e], Len(sent[e]) + 1)]
      /\ sealing' = [sealing EXCEPT ![e] = sealing[e] + 1]
  BY <1>i DEF Counted, AfterHandshake, ChannelShaped
<1>4. Counted'
  <2>1. /\ Len(sent'[e]) = Len(sent[e]) + 1 /\ Len(sent'[e]) <= MaxSends
        /\ \A k \in 1 .. Len(sent'[e]) : sent'[e][k] = k
    <3>1. /\ Append(sent[e], Len(sent[e]) + 1)[Len(sent[e]) + 1] = Len(sent[e]) + 1
          /\ \A k \in 1 .. Len(sent[e]) : Append(sent[e], Len(sent[e]) + 1)[k] = sent[e][k]
          /\ Len(Append(sent[e], Len(sent[e]) + 1)) = Len(sent[e]) + 1
      BY <1>i, <1>n, AppendProperties DEF ChannelShaped
    <3>2. Len(sent[e]) + 1 <= MaxSends
      BY <1>n DEF SC!ConstantsAssumption
    <3> QED
      BY <1>i, <1>n, <3>1, <3>2 DEF Counted, ChannelShaped
  <2>2. UNCHANGED << opening, delivered >> /\ \A f \in SC!Ends : f # e => sent'[f] = sent[f] /\ sealing'[f] = sealing[f]
    BY <1>i, <1>n DEF ChannelShaped
  <2>3. sealing'[e] = Len(sent'[e]) + 1 /\ sealing'[e] \in Nat /\ sealing'[e] # 0 /\ sealing'[e] >= sealing[e]
    BY <1>i, <1>n, <2>1 DEF ChannelShaped
  <2> HIDE DEF SC!Seal
  <2> QED
    BY <1>i, <1>1, <2>1, <2>2, <2>3, CountsOn DEF ChannelShaped
<1>5. AfterHandshake'
  BY <1>i DEF AfterHandshake, ChannelShaped
<1>6. Handshaken'
  BY <1>i, <1>n DEF Handshaken, ChannelShaped, Agreed, TheHello, SC!Ends
<1>7. LateOnce'
  BY <1>i DEF LateOnce, ChannelShaped
<1> QED
  BY <1>1, <1>2, <1>3, <1>4, <1>5, <1>6, <1>7 DEF ChannelInv

LEMMA WriteStartKeeps ==
    ASSUME SC!ConstantsAssumption, ChannelInv, NEW e \in SC!Ends, SC!WriteStart(e)
    PROVE  ChannelInv'
<1> USE DEF SC!WriteStart, SC!handshake, SC!threads, SC!history, SC!GoesTo, SC!WriterAt,
   SC!ReaderAt, SC!Fail, SC!Open, Initiator, Responder
<1>i. ChannelShaped /\ OnlyGenuine /\ Room /\ Counted /\ AfterHandshake /\ Handshaken /\ LateOnce
  BY DEF ChannelInv
<1>o. \A f \in SC!Ends : SC!Other(f) \in SC!Ends /\ SC!Other(f) # f /\ SC!Other(SC!Other(f)) = f
  BY TwoEnds
<1>s. \A f \in SC!Ends : stream[f] \in Seq(Genuine(f)) /\ Len(stream[f]) \in Nat
  BY <1>i DEF OnlyGenuine
<1>g. [SC!Record(sealing[e] - 1, Len(sent[e])) EXCEPT !.whole = FALSE] \in Genuine(e)'
  <2>1. sealing[e] - 1 = Len(sent[e]) /\ Len(sent[e]) \in Nat /\ Len(sent[e]) < sealing[e]
    BY <1>i DEF Counted, AfterHandshake, ChannelShaped
  <2> QED
    BY <2>1 DEF Genuine, Frames, SC!Record
<1>f. /\ stream' = [f \in SC!Ends |-> stream'[f]]
      /\ \A f \in SC!Ends : stream'[f] \in Seq(Genuine(f)')
      /\ Room'
  BY <1>i, <1>g, Writing DEF ChannelShaped, SC!Ends
<1>1. ChannelShaped'
  BY <1>f, <1>i DEF ChannelShaped, SC!Ends, SC!Phases
<1>2. OnlyGenuine'
  <2>1. \A f \in SC!Ends : Genuine(f) \subseteq Genuine(f)'
    BY <1>i, GenuineStays DEF ChannelShaped
  <2> QED
    BY <1>f, <1>i, <1>o, <2>1 DEF OnlyGenuine, ChannelShaped
<1>3. Room'
  BY <1>f
<1>4. Counted'
  BY <1>i DEF Counted, ChannelShaped
<1>5. AfterHandshake'
  BY <1>i DEF AfterHandshake, ChannelShaped
<1>6. Handshaken'
  BY <1>i DEF Handshaken, ChannelShaped, Agreed, TheHello, SC!Ends
<1>7. LateOnce'
  BY <1>i DEF LateOnce, ChannelShaped
<1> QED
  BY <1>1, <1>2, <1>3, <1>4, <1>5, <1>6, <1>7 DEF ChannelInv

LEMMA WriteEndKeeps ==
    ASSUME SC!ConstantsAssumption, ChannelInv, NEW e \in SC!Ends, SC!WriteEnd(e)
    PROVE  ChannelInv'
<1> USE DEF SC!WriteEnd, SC!handshake, SC!threads, SC!history, SC!GoesTo, SC!WriterAt, SC!ReaderAt,
   SC!Fail, SC!Open, Initiator, Responder
<1>i. ChannelShaped /\ OnlyGenuine /\ Room /\ Counted /\ AfterHandshake /\ Handshaken /\ LateOnce
  BY DEF ChannelInv
<1>o. \A f \in SC!Ends : SC!Other(f) \in SC!Ends /\ SC!Other(f) # f /\ SC!Other(SC!Other(f)) = f
  BY TwoEnds
<1>s. \A f \in SC!Ends : stream[f] \in Seq(Genuine(f)) /\ Len(stream[f]) \in Nat
  BY <1>i DEF OnlyGenuine
<1>1. ChannelShaped'
  BY <1>i DEF ChannelShaped, SC!Ends, SC!Phases
<1>e. /\ stream'[e] \in Seq(Genuine(e)) /\ \A f \in SC!Ends \ {e} : stream'[f] = stream[f]
  <2> DEFINE n == Len(stream[e])
             t == [stream[e] EXCEPT ![n] = [stream[e][n] EXCEPT !.whole = TRUE]]
  <2>1. stream'[e] = t /\ \A f \in SC!Ends \ {e} : stream'[f] = stream[f]
    BY <1>i DEF ChannelShaped
  <2>2. ASSUME NEW g \in Genuine(e) PROVE [g EXCEPT !.whole = TRUE] \in Genuine(e)
    BY DEF Genuine, Frames
  <2>3. DOMAIN t = DOMAIN stream[e] /\ \A k \in DOMAIN stream[e] : t[k] \in Genuine(e)
    BY <1>s, <2>2, ElementOfSeq, LenProperties
  <2>4. t \in Seq(Genuine(e))
    <3>1. t = [k \in DOMAIN t |-> t[k]]
      OBVIOUS
    <3> HIDE DEF t
    <3> QED
      BY <1>s, <2>3, <3>1, Changing
  <2> QED
    BY <2>1, <2>4
<1>2. OnlyGenuine'
  <2>1. \A f \in SC!Ends : Genuine(f) \subseteq Genuine(f)'
    BY <1>i, GenuineStays DEF ChannelShaped
  <2> QED
    BY <1>e, <1>i, <1>o, <1>s, <2>1, SeqGrows DEF OnlyGenuine, ChannelShaped
<1>3. Room'
  BY <1>i, <1>s DEF Room, ChannelShaped
<1>4. Counted'
  BY <1>i DEF Counted, ChannelShaped
<1>5. AfterHandshake'
  BY <1>i DEF AfterHandshake, ChannelShaped
<1>6. Handshaken'
  BY <1>i DEF Handshaken, ChannelShaped, Agreed, TheHello, SC!Ends
<1>7. LateOnce'
  BY <1>i DEF LateOnce, ChannelShaped
<1> QED
  BY <1>1, <1>2, <1>3, <1>4, <1>5, <1>6, <1>7 DEF ChannelInv

LEMMA WriteFailsKeeps ==
    ASSUME SC!ConstantsAssumption, ChannelInv, NEW e \in SC!Ends, SC!WriteFails(e)
    PROVE  ChannelInv'
<1> USE DEF SC!WriteFails, SC!handshake, SC!threads, SC!history, SC!GoesTo, SC!WriterAt,
   SC!ReaderAt, SC!Fail, SC!Open, Initiator, Responder
<1>i. ChannelShaped /\ OnlyGenuine /\ Room /\ Counted /\ AfterHandshake /\ Handshaken /\ LateOnce
  BY DEF ChannelInv
<1>o. \A f \in SC!Ends : SC!Other(f) \in SC!Ends /\ SC!Other(f) # f /\ SC!Other(SC!Other(f)) = f
  BY TwoEnds
<1>s. \A f \in SC!Ends : stream[f] \in Seq(Genuine(f)) /\ Len(stream[f]) \in Nat
  BY <1>i DEF OnlyGenuine
<1>1. ChannelShaped'
  BY <1>i DEF ChannelShaped, SC!Ends, SC!Phases
<1>2. OnlyGenuine'
  <2>1. \A f \in SC!Ends : Genuine(f) \subseteq Genuine(f)'
    BY <1>i, GenuineStays DEF ChannelShaped
  <2> QED
    BY <1>i, <1>o, <1>s, <2>1, SeqGrows DEF OnlyGenuine, ChannelShaped
<1>3. Room'
  BY <1>i, <1>s DEF Room, ChannelShaped
<1>4. Counted'
  BY <1>i DEF Counted, ChannelShaped
<1>5. AfterHandshake'
  BY <1>i DEF AfterHandshake, ChannelShaped
<1>6. Handshaken'
  BY <1>i DEF Handshaken, ChannelShaped, Agreed, TheHello, SC!Ends
<1>7. LateOnce'
  BY <1>i DEF LateOnce, ChannelShaped
<1> QED
  BY <1>1, <1>2, <1>3, <1>4, <1>5, <1>6, <1>7 DEF ChannelInv

LEMMA StartReadingKeeps ==
    ASSUME SC!ConstantsAssumption, ChannelInv, NEW e \in SC!Ends, SC!StartReading(e)
    PROVE  ChannelInv'
<1> USE DEF SC!StartReading, SC!handshake, SC!threads, SC!history, SC!GoesTo, SC!WriterAt,
   SC!ReaderAt, SC!Fail, SC!Open, Initiator, Responder
<1>i. ChannelShaped /\ OnlyGenuine /\ Room /\ Counted /\ AfterHandshake /\ Handshaken /\ LateOnce
  BY DEF ChannelInv
<1>o. \A f \in SC!Ends : SC!Other(f) \in SC!Ends /\ SC!Other(f) # f /\ SC!Other(SC!Other(f)) = f
  BY TwoEnds
<1>s. \A f \in SC!Ends : stream[f] \in Seq(Genuine(f)) /\ Len(stream[f]) \in Nat
  BY <1>i DEF OnlyGenuine
<1>1. ChannelShaped'
  BY <1>i DEF ChannelShaped, SC!Ends, SC!Phases
<1>2. OnlyGenuine'
  <2>1. \A f \in SC!Ends : Genuine(f) \subseteq Genuine(f)'
    BY <1>i, GenuineStays DEF ChannelShaped
  <2> QED
    BY <1>i, <1>o, <1>s, <2>1, SeqGrows DEF OnlyGenuine, ChannelShaped
<1>3. Room'
  BY <1>i, <1>s DEF Room, ChannelShaped
<1>4. Counted'
  BY <1>i DEF Counted, ChannelShaped
<1>5. AfterHandshake'
  BY <1>i DEF AfterHandshake, ChannelShaped
<1>6. Handshaken'
  BY <1>i DEF Handshaken, ChannelShaped, Agreed, TheHello, SC!Ends
<1>7. LateOnce'
  BY <1>i DEF LateOnce, ChannelShaped
<1> QED
  BY <1>1, <1>2, <1>3, <1>4, <1>5, <1>6, <1>7 DEF ChannelInv

LEMMA TakeFrameKeeps ==
    ASSUME SC!ConstantsAssumption, ChannelInv, NEW e \in SC!Ends, SC!TakeFrame(e)
    PROVE  ChannelInv'
<1> USE DEF SC!TakeFrame, SC!handshake, SC!threads, SC!history, SC!GoesTo, SC!WriterAt, SC!ReaderAt,
   SC!Fail, SC!Open, Initiator, Responder
<1>i. ChannelShaped /\ OnlyGenuine /\ Room /\ Counted /\ AfterHandshake /\ Handshaken /\ LateOnce
  BY DEF ChannelInv
<1>o. \A f \in SC!Ends : SC!Other(f) \in SC!Ends /\ SC!Other(f) # f /\ SC!Other(SC!Other(f)) = f
  BY TwoEnds
<1>s. \A f \in SC!Ends : stream[f] \in Seq(Genuine(f)) /\ Len(stream[f]) \in Nat
  BY <1>i DEF OnlyGenuine
<1>f. /\ stream' = [f \in SC!Ends |-> stream'[f]]
      /\ \A f \in SC!Ends : stream'[f] \in Seq(Genuine(f)')
      /\ Room' /\ SC!Arriving(e) \in Genuine(SC!Other(e))
  BY <1>i, Reading DEF ChannelShaped, SC!Ends
<1>1. ChannelShaped'
  BY <1>f, <1>i DEF ChannelShaped, SC!Ends, SC!Phases
<1>2. OnlyGenuine'
  <2>1. \A f \in SC!Ends : Genuine(f) \subseteq Genuine(f)'
    BY <1>i, GenuineStays DEF ChannelShaped
  <2> QED
    BY <1>f, <1>i, <1>o, <2>1 DEF OnlyGenuine, ChannelShaped
<1>3. Room'
  BY <1>f
<1>4. Counted'
  BY <1>i DEF Counted, ChannelShaped
<1>5. AfterHandshake'
  BY <1>i DEF AfterHandshake, ChannelShaped
<1>6. Handshaken'
  BY <1>i DEF Handshaken, ChannelShaped, Agreed, TheHello, SC!Ends
<1>7. LateOnce'
  BY <1>i DEF LateOnce, ChannelShaped
<1> QED
  BY <1>1, <1>2, <1>3, <1>4, <1>5, <1>6, <1>7 DEF ChannelInv

LEMMA DeliverKeeps ==
    ASSUME SC!ConstantsAssumption, ChannelInv, NEW e \in SC!Ends, SC!Deliver(e)
    PROVE  ChannelInv'
<1> USE DEF SC!Deliver, SC!handshake, SC!threads, SC!history, SC!GoesTo, SC!WriterAt, SC!ReaderAt,
   SC!Fail, SC!Open, Initiator, Responder
<1>i. ChannelShaped /\ OnlyGenuine /\ Room /\ Counted /\ AfterHandshake /\ Handshaken /\ LateOnce
  BY DEF ChannelInv
<1>o. \A f \in SC!Ends : SC!Other(f) \in SC!Ends /\ SC!Other(f) # f /\ SC!Other(SC!Other(f)) = f
  BY TwoEnds
<1>s. \A f \in SC!Ends : stream[f] \in Seq(Genuine(f)) /\ Len(stream[f]) \in Nat
  BY <1>i DEF OnlyGenuine
<1>g. /\ taken[e].sequence = opening[e] /\ taken[e].body = opening[e] /\ opening[e] < sealing[SC!Other(e)]
      /\ opening[e] > 0 /\ opening[e] \in Nat
  BY <1>i DEF OnlyGenuine, Genuine, SC!Opens, AfterHandshake, ChannelShaped
<1>n. /\ delivered' = [delivered EXCEPT ![e] = Append(delivered[e], opening[e])]
      /\ opening' = [opening EXCEPT ![e] = opening[e] + 1]
  BY <1>g, <1>i DEF ChannelShaped
<1>a. /\ Append(delivered[e], opening[e]) \in Seq(Nat)
      /\ Len(Append(delivered[e], opening[e])) = Len(delivered[e]) + 1
      /\ Len(delivered[e]) \in Nat
  BY <1>g, <1>i, AppendProperties DEF ChannelShaped
<1>1. ChannelShaped'
  <2>1. delivered' \in [SC!Ends -> Seq(Nat)] /\ opening' \in [SC!Ends -> Nat] /\ late' \in [SC!Ends -> Nat]
    BY <1>a, <1>g, <1>i, <1>n DEF ChannelShaped
  <2>2. /\ taken' = [f \in SC!Ends |-> taken'[f]]
        /\ reader' \in [SC!Ends -> {"idle", "reading", "whole", "dropped"}]
        /\ UNCHANGED << SC!handshake, stream, shut, sealing, writer, failed, sent, disturbed >>
    BY <1>i DEF ChannelShaped
  <2> HIDE DEF SC!Deliver
  <2> QED
    BY <1>i, <2>1, <2>2 DEF ChannelShaped
<1>2. OnlyGenuine'
  <2>1. \A f \in SC!Ends : Genuine(f) \subseteq Genuine(f)'
    BY <1>i, GenuineStays DEF ChannelShaped
  <2> QED
    BY <1>i, <1>o, <1>s, <2>1, SeqGrows DEF OnlyGenuine, ChannelShaped
<1>3. Room'
  BY <1>i, <1>s DEF Room, ChannelShaped
<1>4. Counted'
  <2>1. Len(delivered'[e]) = Len(delivered[e]) + 1 /\ Len(delivered[e]) \in Nat
    BY <1>a, <1>i, <1>n DEF ChannelShaped
  <2>2. opening'[e] = Len(delivered'[e]) + 1 /\ opening'[e] # 0
    <3>1. opening[e] = Len(delivered[e]) + 1 /\ opening'[e] = opening[e] + 1
      BY <1>g, <1>i, <1>n DEF ChannelShaped, Counted
    <3> QED
      BY <2>1, <3>1
  <2>3. opening'[e] <= sealing[SC!Other(e)]
    BY <1>g, <1>i, <1>n, <1>o DEF ChannelShaped
  <2>4. UNCHANGED << sealing, sent >> /\ \A f \in SC!Ends : f # e => delivered'[f] = delivered[f] /\ opening'[f] = opening[f]
    BY <1>i, <1>n DEF ChannelShaped
  <2> HIDE DEF SC!Deliver
  <2> QED
    BY <1>1, <1>i, <2>1, <2>2, <2>3, <2>4, CountsOn DEF ChannelShaped
<1>5. AfterHandshake'
  BY SMTT(30), <1>g, <1>i, <1>n DEF AfterHandshake, ChannelShaped
<1>6. Handshaken'
  BY SMTT(30), <1>g, <1>i, <1>n DEF Handshaken, ChannelShaped, Agreed, TheHello, SC!Ends
<1>7. LateOnce'
  BY <1>i DEF LateOnce, ChannelShaped
<1> QED
  BY <1>1, <1>2, <1>3, <1>4, <1>5, <1>6, <1>7 DEF ChannelInv

LEMMA RejectKeeps ==
    ASSUME SC!ConstantsAssumption, ChannelInv, NEW e \in SC!Ends, SC!Reject(e)
    PROVE  ChannelInv'
<1> USE DEF SC!Reject, SC!handshake, SC!threads, SC!history, SC!GoesTo, SC!WriterAt, SC!ReaderAt,
   SC!Fail, SC!Open, Initiator, Responder
<1>i. ChannelShaped /\ OnlyGenuine /\ Room /\ Counted /\ AfterHandshake /\ Handshaken /\ LateOnce
  BY DEF ChannelInv
<1>o. \A f \in SC!Ends : SC!Other(f) \in SC!Ends /\ SC!Other(f) # f /\ SC!Other(SC!Other(f)) = f
  BY TwoEnds
<1>s. \A f \in SC!Ends : stream[f] \in Seq(Genuine(f)) /\ Len(stream[f]) \in Nat
  BY <1>i DEF OnlyGenuine
<1>1. ChannelShaped'
  BY <1>i DEF ChannelShaped, SC!Ends, SC!Phases
<1>2. OnlyGenuine'
  <2>1. \A f \in SC!Ends : Genuine(f) \subseteq Genuine(f)'
    BY <1>i, GenuineStays DEF ChannelShaped
  <2> QED
    BY <1>i, <1>o, <1>s, <2>1, SeqGrows DEF OnlyGenuine, ChannelShaped
<1>3. Room'
  BY <1>i, <1>s DEF Room, ChannelShaped
<1>4. Counted'
  BY <1>i DEF Counted, ChannelShaped
<1>5. AfterHandshake'
  BY <1>i DEF AfterHandshake, ChannelShaped
<1>6. Handshaken'
  BY <1>i DEF Handshaken, ChannelShaped, Agreed, TheHello, SC!Ends
<1>7. LateOnce'
  BY <1>i DEF LateOnce, ChannelShaped
<1> QED
  BY <1>1, <1>2, <1>3, <1>4, <1>5, <1>6, <1>7 DEF ChannelInv

LEMMA SeeEndKeeps ==
    ASSUME SC!ConstantsAssumption, ChannelInv, NEW e \in SC!Ends, SC!SeeEnd(e)
    PROVE  ChannelInv'
<1> USE DEF SC!SeeEnd, SC!handshake, SC!threads, SC!history, SC!GoesTo, SC!WriterAt, SC!ReaderAt,
   SC!Fail, SC!Open, Initiator, Responder
<1>i. ChannelShaped /\ OnlyGenuine /\ Room /\ Counted /\ AfterHandshake /\ Handshaken /\ LateOnce
  BY DEF ChannelInv
<1>o. \A f \in SC!Ends : SC!Other(f) \in SC!Ends /\ SC!Other(f) # f /\ SC!Other(SC!Other(f)) = f
  BY TwoEnds
<1>s. \A f \in SC!Ends : stream[f] \in Seq(Genuine(f)) /\ Len(stream[f]) \in Nat
  BY <1>i DEF OnlyGenuine
<1>1. ChannelShaped'
  BY <1>i DEF ChannelShaped, SC!Ends, SC!Phases
<1>2. OnlyGenuine'
  <2>1. \A f \in SC!Ends : Genuine(f) \subseteq Genuine(f)'
    BY <1>i, GenuineStays DEF ChannelShaped
  <2> QED
    BY <1>i, <1>o, <1>s, <2>1, SeqGrows DEF OnlyGenuine, ChannelShaped
<1>3. Room'
  BY <1>i, <1>s DEF Room, ChannelShaped
<1>4. Counted'
  BY <1>i DEF Counted, ChannelShaped
<1>5. AfterHandshake'
  BY <1>i DEF AfterHandshake, ChannelShaped
<1>6. Handshaken'
  BY <1>i DEF Handshaken, ChannelShaped, Agreed, TheHello, SC!Ends
<1>7. LateOnce'
  BY <1>i DEF LateOnce, ChannelShaped
<1> QED
  BY <1>1, <1>2, <1>3, <1>4, <1>5, <1>6, <1>7 DEF ChannelInv

LEMMA ReadTimesOutKeeps ==
    ASSUME SC!ConstantsAssumption, ChannelInv, NEW e \in SC!Ends, SC!ReadTimesOut(e)
    PROVE  ChannelInv'
<1> USE DEF SC!ReadTimesOut, SC!handshake, SC!threads, SC!history, SC!GoesTo, SC!WriterAt,
   SC!ReaderAt, SC!Fail, SC!Open, Initiator, Responder
<1>i. ChannelShaped /\ OnlyGenuine /\ Room /\ Counted /\ AfterHandshake /\ Handshaken /\ LateOnce
  BY DEF ChannelInv
<1>o. \A f \in SC!Ends : SC!Other(f) \in SC!Ends /\ SC!Other(f) # f /\ SC!Other(SC!Other(f)) = f
  BY TwoEnds
<1>s. \A f \in SC!Ends : stream[f] \in Seq(Genuine(f)) /\ Len(stream[f]) \in Nat
  BY <1>i DEF OnlyGenuine
<1>1. ChannelShaped'
  BY <1>i DEF ChannelShaped, SC!Ends, SC!Phases
<1>2. OnlyGenuine'
  <2>1. \A f \in SC!Ends : Genuine(f) \subseteq Genuine(f)'
    BY <1>i, GenuineStays DEF ChannelShaped
  <2> QED
    BY <1>i, <1>o, <1>s, <2>1, SeqGrows DEF OnlyGenuine, ChannelShaped
<1>3. Room'
  BY <1>i, <1>s DEF Room, ChannelShaped
<1>4. Counted'
  BY <1>i DEF Counted, ChannelShaped
<1>5. AfterHandshake'
  BY <1>i DEF AfterHandshake, ChannelShaped
<1>6. Handshaken'
  BY <1>i DEF Handshaken, ChannelShaped, Agreed, TheHello, SC!Ends
<1>7. LateOnce'
  BY <1>i DEF LateOnce, ChannelShaped
<1> QED
  BY <1>1, <1>2, <1>3, <1>4, <1>5, <1>6, <1>7 DEF ChannelInv

LEMMA DropHalfKeeps ==
    ASSUME SC!ConstantsAssumption, ChannelInv, NEW e \in SC!Ends, SC!DropHalf(e)
    PROVE  ChannelInv'
<1> USE DEF SC!DropHalf, SC!handshake, SC!threads, SC!history, SC!GoesTo, SC!WriterAt, SC!ReaderAt,
   SC!Fail, SC!Open, Initiator, Responder
<1>i. ChannelShaped /\ OnlyGenuine /\ Room /\ Counted /\ AfterHandshake /\ Handshaken /\ LateOnce
  BY DEF ChannelInv
<1>o. \A f \in SC!Ends : SC!Other(f) \in SC!Ends /\ SC!Other(f) # f /\ SC!Other(SC!Other(f)) = f
  BY TwoEnds
<1>s. \A f \in SC!Ends : stream[f] \in Seq(Genuine(f)) /\ Len(stream[f]) \in Nat
  BY <1>i DEF OnlyGenuine
<1>1. ChannelShaped'
  BY <1>i DEF ChannelShaped, SC!Ends, SC!Phases
<1>2. OnlyGenuine'
  <2>1. \A f \in SC!Ends : Genuine(f) \subseteq Genuine(f)'
    BY <1>i, GenuineStays DEF ChannelShaped
  <2> QED
    BY <1>i, <1>o, <1>s, <2>1, SeqGrows DEF OnlyGenuine, ChannelShaped
<1>3. Room'
  BY <1>i, <1>s DEF Room, ChannelShaped
<1>4. Counted'
  BY <1>i DEF Counted, ChannelShaped
<1>5. AfterHandshake'
  BY <1>i DEF AfterHandshake, ChannelShaped
<1>6. Handshaken'
  BY <1>i DEF Handshaken, ChannelShaped, Agreed, TheHello, SC!Ends
<1>7. LateOnce'
  BY <1>i DEF LateOnce, ChannelShaped
<1> QED
  BY <1>1, <1>2, <1>3, <1>4, <1>5, <1>6, <1>7 DEF ChannelInv

LEMMA ResetKeeps ==
    ASSUME SC!ConstantsAssumption, ChannelInv, NEW e \in SC!Ends, SC!Reset(e)
    PROVE  ChannelInv'
<1> USE DEF SC!Reset, SC!handshake, SC!threads, SC!history, SC!GoesTo, SC!WriterAt, SC!ReaderAt,
   SC!Fail, SC!Open, Initiator, Responder
<1>i. ChannelShaped /\ OnlyGenuine /\ Room /\ Counted /\ AfterHandshake /\ Handshaken /\ LateOnce
  BY DEF ChannelInv
<1>o. \A f \in SC!Ends : SC!Other(f) \in SC!Ends /\ SC!Other(f) # f /\ SC!Other(SC!Other(f)) = f
  BY TwoEnds
<1>s. \A f \in SC!Ends : stream[f] \in Seq(Genuine(f)) /\ Len(stream[f]) \in Nat
  BY <1>i DEF OnlyGenuine
<1>1. ChannelShaped'
  BY <1>i DEF ChannelShaped, SC!Ends, SC!Phases
<1>2. OnlyGenuine'
  <2>1. \A f \in SC!Ends : Genuine(f) \subseteq Genuine(f)'
    BY <1>i, GenuineStays DEF ChannelShaped
  <2> QED
    BY SMTT(30), <1>i, <1>o, <1>s, <2>1, SeqGrows DEF OnlyGenuine, ChannelShaped
<1>3. Room'
  BY <1>i, <1>s DEF SC!ConstantsAssumption, Room, ChannelShaped
<1>4. Counted'
  BY <1>i DEF Counted, ChannelShaped
<1>5. AfterHandshake'
  BY <1>i DEF AfterHandshake, ChannelShaped
<1>6. Handshaken'
  BY <1>i DEF Handshaken, ChannelShaped, Agreed, TheHello, SC!Ends
<1>7. LateOnce'
  BY <1>i DEF LateOnce, ChannelShaped
<1> QED
  BY <1>1, <1>2, <1>3, <1>4, <1>5, <1>6, <1>7 DEF ChannelInv

LEMMA DisturbKeeps ==
    ASSUME SC!ConstantsAssumption, ChannelInv, NEW e \in SC!Ends, SC!Disturb(e)
    PROVE  ChannelInv'
<1> USE DEF SC!Disturb, SC!handshake, SC!threads, SC!history, SC!GoesTo, SC!WriterAt, SC!ReaderAt,
   SC!Fail, SC!Open, Initiator, Responder
<1>i. ChannelShaped /\ OnlyGenuine /\ Room /\ Counted /\ AfterHandshake /\ Handshaken /\ LateOnce
  BY DEF ChannelInv
<1>o. \A f \in SC!Ends : SC!Other(f) \in SC!Ends /\ SC!Other(f) # f /\ SC!Other(SC!Other(f)) = f
  BY TwoEnds
<1>s. \A f \in SC!Ends : stream[f] \in Seq(Genuine(f)) /\ Len(stream[f]) \in Nat
  BY <1>i DEF OnlyGenuine
<1>e. /\ stream' = [f \in SC!Ends |-> stream'[f]] /\ \A f \in SC!Ends \ {e} : stream'[f] = stream[f]
      /\ stream'[e] \in Seq(Genuine(e)) /\ Len(stream'[e]) <= Len(stream[e]) + 1
  <2> DEFINE s == stream[e]
  <2>1. s \in Seq(Genuine(e)) /\ DOMAIN s = 1 .. Len(s) /\ Len(s) \in Nat /\ \A j \in DOMAIN s : s[j] \in Genuine(e)
    BY <1>s, ElementOfSeq, LenProperties
  <2>2. PICK k \in DOMAIN s :
          \/ stream' = [stream EXCEPT ![e] = SubSeq(s, 1, k - 1) \o SubSeq(s, k + 1, Len(s))]
          \/ stream' = [stream EXCEPT ![e] = SubSeq(s, 1, k) \o SubSeq(s, k, Len(s))]
          \/ k < Len(s) /\ stream' = [stream EXCEPT ![e][k] = s[k + 1], ![e][k + 1] = s[k]]
    BY DEF SC!Disturb
  <2>3. CASE k < Len(s) /\ stream' = [stream EXCEPT ![e][k] = s[k + 1], ![e][k + 1] = s[k]]
    <3> DEFINE t == [[s EXCEPT ![k] = s[k + 1]] EXCEPT ![k + 1] = s[k]]
    <3>1. stream' = [f \in SC!Ends |-> IF f = e THEN t ELSE stream[f]]
      BY <1>i, <2>3 DEF ChannelShaped
    <3>2. k \in DOMAIN s /\ k + 1 \in DOMAIN s
      BY <2>1, <2>3
    <3>3. DOMAIN t = DOMAIN s /\ \A j \in DOMAIN s : t[j] \in Genuine(e)
      BY <2>1, <3>2
    <3>4. t \in Seq(Genuine(e)) /\ Len(t) = Len(s)
      <4>1. t = [j \in DOMAIN t |-> t[j]]
        OBVIOUS
      <4> HIDE DEF t
      <4> QED
        BY <2>1, <3>3, <4>1, Changing
    <3> QED
      BY <2>1, <3>1, <3>4
  <2>4. CASE stream' = [stream EXCEPT ![e] = SubSeq(s, 1, k - 1) \o SubSeq(s, k + 1, Len(s))]
    BY <1>i, <2>1, <2>4, Disturbing DEF ChannelShaped
  <2>5. CASE stream' = [stream EXCEPT ![e] = SubSeq(s, 1, k) \o SubSeq(s, k, Len(s))]
    BY <1>i, <2>1, <2>5, Disturbing DEF ChannelShaped
  <2> QED
    BY <2>2, <2>3, <2>4, <2>5
<1>1. ChannelShaped'
  <2>1. disturbed' \in 0 .. MaxDisturbances
    <3>1. disturbed' = disturbed + 1 /\ disturbed < MaxDisturbances
      OBVIOUS
    <3> HIDE DEF SC!Disturb
    <3>2. disturbed \in 0 .. MaxDisturbances
      BY <1>i DEF ChannelShaped
    <3> QED
      BY <3>1, <3>2 DEF SC!ConstantsAssumption
  <2>2. UNCHANGED << SC!handshake, shut, sealing, opening, SC!threads, SC!history >>
    OBVIOUS
  <2> HIDE DEF SC!Disturb
  <2> QED
    BY <1>e, <1>i, <2>1, <2>2 DEF ChannelShaped
<1>2. OnlyGenuine'
  <2>1. \A f \in SC!Ends : Genuine(f) \subseteq Genuine(f)'
    BY <1>i, GenuineStays DEF ChannelShaped
  <2> QED
    BY <1>e, <1>i, <1>o, <1>s, <2>1, SeqGrows DEF OnlyGenuine, ChannelShaped
<1>3. Room'
  <2>1. \A f \in SC!Ends : Len(stream'[f]) \in Nat /\ Len(stream'[f]) <= Len(stream[f]) + 1
    <3>1. Len(stream'[e]) \in Nat
      BY <1>e
    <3>2. \A f \in SC!Ends : f = e \/ stream'[f] = stream[f]
      BY <1>e
    <3> HIDE DEF SC!Disturb
    <3> QED
      BY <1>e, <1>s, <3>1, <3>2
  <2>2. disturbed' = disturbed + 1 /\ disturbed \in Nat /\ FrameRoom \in Nat
    BY <1>i DEF ChannelShaped, SC!ConstantsAssumption
  <2> HIDE DEF SC!Disturb
  <2> QED
    BY <1>i, <1>s, <2>1, <2>2 DEF Room
<1>4. Counted'
  BY <1>i DEF Counted, ChannelShaped
<1>5. AfterHandshake'
  BY <1>i DEF AfterHandshake, ChannelShaped
<1>6. Handshaken'
  BY <1>i DEF Handshaken, ChannelShaped, Agreed, TheHello, SC!Ends
<1>7. LateOnce'
  BY <1>i DEF LateOnce, ChannelShaped
<1> QED
  BY <1>1, <1>2, <1>3, <1>4, <1>5, <1>6, <1>7 DEF ChannelInv

-----------------------------------------------------------------------------
\* Nothing happens at the ends.
LEMMA StutterKeeps ==
    ASSUME ChannelInv, UNCHANGED SC!vars
    PROVE  ChannelInv'
<1> USE DEF SC!vars, SC!handshake, SC!threads, SC!history
<1>i. ChannelShaped /\ OnlyGenuine /\ Room /\ Counted /\ AfterHandshake /\ Handshaken /\ LateOnce
  BY DEF ChannelInv
<1>1. ChannelShaped' /\ Room' /\ Counted' /\ AfterHandshake' /\ LateOnce'
  BY <1>i DEF ChannelShaped, Room, Counted, AfterHandshake, LateOnce, SC!Open
<1>2. OnlyGenuine'
  BY <1>i DEF OnlyGenuine, Genuine, TheHello, Agreed
<1>3. Handshaken'
  BY <1>i DEF Handshaken, TheHello, Agreed, SC!Open
<1> QED
  BY <1>1, <1>2, <1>3 DEF ChannelInv

LEMMA ChannelStep == SC!ConstantsAssumption /\ ChannelInv /\ [SC!Next]_(SC!vars) => ChannelInv'
<1> SUFFICES ASSUME SC!ConstantsAssumption, ChannelInv, [SC!Next]_(SC!vars) PROVE ChannelInv'
  OBVIOUS
<1>1. ASSUME NEW e \in SC!Ends, SC!SendFinish(e) \/ SC!ReceiveFinish(e) \/ SC!HandshakeFails(e) \/ SC!Split(e)
      PROVE  ChannelInv'
  BY <1>1, SendFinishKeeps, ReceiveFinishKeeps, HandshakeFailsKeeps, SplitKeeps
<1>2. ASSUME NEW e \in SC!Ends, SC!Seal(e) \/ SC!Writes(e) PROVE ChannelInv'
  BY <1>2, SealKeeps, WriteStartKeeps, WriteEndKeeps, WriteFailsKeeps DEF SC!Writes
<1>3. ASSUME NEW e \in SC!Ends, SC!Reads(e) PROVE ChannelInv'
  BY <1>3, StartReadingKeeps, TakeFrameKeeps, DeliverKeeps, RejectKeeps, SeeEndKeeps DEF SC!Reads
<1>4. ASSUME NEW e \in SC!Ends, SC!ReadTimesOut(e) \/ SC!DropHalf(e) \/ SC!Reset(e) \/ SC!Disturb(e)
      PROVE  ChannelInv'
  BY <1>4, ReadTimesOutKeeps, DropHalfKeeps, ResetKeeps, DisturbKeeps
<1> QED
  BY <1>1, <1>2, <1>3, <1>4, StutterKeeps, SendClientHelloKeeps, ReceiveClientHelloKeeps,
     SendServerHelloKeeps, ReceiveServerHelloKeeps DEF SC!Next

LEMMA ChannelInit == SC!ConstantsAssumption /\ SC!Init => ChannelInv
<1> SUFFICES ASSUME SC!ConstantsAssumption, SC!Init PROVE ChannelInv
  OBVIOUS
<1>1. ChannelShaped
  <2>1. expected[Initiator] \in [id : DeviceIds, key : Keys \cup {Zero}]
    BY DEF SC!Init, Initiator
  <2>2. /\ phase \in [SC!Ends -> SC!Phases[Initiator] \cup SC!Phases[Responder]]
        /\ \A e \in SC!Ends : phase[e] \in SC!Phases[e]
    BY DEF SC!Init, SC!Ends, SC!Phases, Initiator, Responder
  <2>3. disturbed \in 0 .. MaxDisturbances
    BY DEF SC!Init, SC!ConstantsAssumption
  <2>4. sent \in [SC!Ends -> Seq(Nat)] /\ delivered \in [SC!Ends -> Seq(Nat)]
    BY DEF SC!Init
  <2> QED
    BY <2>1, <2>2, <2>3, <2>4 DEF SC!Init, ChannelShaped
<1>2. OnlyGenuine
  BY DEF SC!Init, OnlyGenuine
<1>3. Room
  BY DEF SC!Init, Room, SC!ConstantsAssumption
<1>4. Counted
  <2>1. \A e \in SC!Ends : SC!Other(e) \in SC!Ends
    BY TwoEnds
  <2>2. /\ sealing = [e \in SC!Ends |-> 0] /\ opening = [e \in SC!Ends |-> 0]
        /\ sent = [e \in SC!Ends |-> << >>] /\ delivered = [e \in SC!Ends |-> << >>]
    BY DEF SC!Init
  <2> QED
    BY <2>1, <2>2 DEF Counted, SC!ConstantsAssumption
<1>5. AfterHandshake
  BY DEF SC!Init, AfterHandshake, SC!Open, SC!Ends
<1>6. Handshaken
  BY DEF SC!Init, Handshaken, SC!Open, SC!Ends, Initiator, Responder
<1>7. LateOnce
  BY DEF SC!Init, LateOnce
<1> QED
  BY <1>1, <1>2, <1>3, <1>4, <1>5, <1>6, <1>7 DEF ChannelInv

\* What the invariant says of the properties
LEMMA ChannelIsSafe ==
    ASSUME SC!ConstantsAssumption, ChannelInv
    PROVE  SC!TypeOK /\ SC!AtMostOneLate /\ SC!Authentic /\ SC!Confirmed
<1>i. ChannelShaped /\ OnlyGenuine /\ Room /\ Counted /\ AfterHandshake /\ Handshaken /\ LateOnce
  BY DEF ChannelInv
<1>1. SC!TypeOK
  <2>1. ASSUME NEW e \in SC!Ends PROVE Len(stream[e]) <= FrameRoom + MaxDisturbances
    <3>1. Len(stream[e]) \in Nat /\ Len(stream[e]) <= FrameRoom + disturbed
      BY <1>i DEF OnlyGenuine, Room
    <3> QED
      BY <1>i, <3>1 DEF ChannelShaped, SC!ConstantsAssumption
  <2>2. ASSUME NEW e \in SC!Ends PROVE sealing[e] \in 0 .. MaxSends + 1
    <3>1. /\ sealing[e] \in Nat /\ Len(sent[e]) \in Nat /\ Len(sent[e]) <= MaxSends
          /\ sealing[e] = IF sealing[e] = 0 THEN Len(sent[e]) ELSE Len(sent[e]) + 1
      BY <1>i DEF ChannelShaped, Counted
    <3> QED
      BY <3>1 DEF SC!ConstantsAssumption
  <2>3. ASSUME NEW e \in SC!Ends PROVE opening[e] \in 0 .. MaxSends + 1
    <3>1. SC!Other(e) \in SC!Ends
      BY TwoEnds
    <3>2. sealing[SC!Other(e)] \in 0 .. MaxSends + 1
      BY <2>2, <3>1
    <3>3. opening[e] \in Nat /\ opening[e] <= sealing[SC!Other(e)]
      BY <1>i DEF ChannelShaped, Counted
    <3> QED
      BY <3>2, <3>3 DEF SC!ConstantsAssumption
  <2> QED
    BY <1>i, <2>1, <2>2, <2>3 DEF SC!TypeOK, ChannelShaped
<1>2. SC!AtMostOneLate
  BY <1>i DEF SC!AtMostOneLate, LateOnce
<1>3. SC!Authentic
  <2>1. SC!Other(Initiator) = Responder /\ SC!Other(Responder) = Initiator
    BY TwoEnds DEF SC!Ends, Initiator, Responder
  <2> QED
    BY <1>i, <2>1 DEF SC!Authentic, Handshaken, SC!Open, SC!Ends, Initiator, Responder
<1>4. SC!Confirmed
  BY <1>i DEF SC!Confirmed, Handshaken, ChannelShaped, SC!Open, SC!Ends, SC!Phases, Initiator,
     Responder
<1> QED
  BY <1>1, <1>2, <1>3, <1>4

-----------------------------------------------------------------------------
(* Each direction is a pipe *)

LEMMA ChannelSends ==
    ASSUME SC!ConstantsAssumption, ChannelInv, NEW e \in SC!Ends, SC!Seal(e)
    PROVE  SC!Channel!Next
<1> DEFINE m == Len(sent[e]) + 1
<1>1. m \in 1 .. MaxSends
  <2>1. Len(sent[e]) \in Nat
    BY DEF ChannelInv, ChannelShaped
  <2> QED
    BY <2>1 DEF SC!Seal, SC!ConstantsAssumption
<1>2. sent' = [sent EXCEPT ![e] = Append(sent[e], m)] /\ UNCHANGED delivered
  BY DEF SC!Seal
<1> QED
  BY <1>1, <1>2 DEF SC!Channel!Send, SC!Channel!Next

LEMMA ChannelDelivers ==
    ASSUME SC!ConstantsAssumption, ChannelInv, NEW e \in SC!Ends, SC!Deliver(e)
    PROVE  SC!Channel!Next
<1>i. ChannelShaped /\ OnlyGenuine /\ Counted /\ AfterHandshake
  BY DEF ChannelInv
<1>1. SC!Other(e) \in SC!Ends /\ SC!Other(e) = SC!Channel!Other(e)
  BY TwoEnds DEF SC!Other, SC!Channel!Other
<1>2. /\ taken[e].body = opening[e] /\ opening[e] > 0 /\ opening[e] \in Nat
      /\ opening[e] < sealing[SC!Other(e)]
  BY <1>i DEF SC!Deliver, OnlyGenuine, Genuine, SC!Opens, AfterHandshake, ChannelShaped
<1>3. opening[e] = Len(delivered[e]) + 1 /\ Len(delivered[e]) \in Nat
  BY <1>2, <1>i DEF Counted, ChannelShaped
<1>4. /\ sealing[SC!Other(e)] = Len(sent[SC!Other(e)]) + 1 /\ Len(sent[SC!Other(e)]) \in Nat
      /\ \A k \in 1 .. Len(sent[SC!Other(e)]) : sent[SC!Other(e)][k] = k
  BY <1>1, <1>2, <1>i DEF Counted, ChannelShaped
<1>5. Len(delivered[e]) < Len(sent[SC!Other(e)]) /\ opening[e] \in 1 .. Len(sent[SC!Other(e)])
  BY <1>2, <1>3, <1>4
<1>6. sent[SC!Other(e)][Len(delivered[e]) + 1] = taken[e].body
  BY <1>2, <1>3, <1>4, <1>5
<1>7. /\ delivered' = [delivered EXCEPT ![e] = Append(delivered[e], taken[e].body)]
      /\ UNCHANGED sent
  BY DEF SC!Deliver
<1>8. SC!Channel!Deliver(e)
  BY <1>1, <1>5, <1>6, <1>7 DEF SC!Channel!Deliver
<1> QED
  BY <1>8 DEF SC!Channel!Next

LEMMA ChannelImplements ==
    SC!ConstantsAssumption /\ ChannelInv /\ [SC!Next]_(SC!vars) => [SC!Channel!Next]_(SC!Channel!vars)
<1> SUFFICES ASSUME SC!ConstantsAssumption, ChannelInv, [SC!Next]_(SC!vars)
             PROVE  SC!Channel!Next \/ UNCHANGED << sent, delivered >>
  BY DEF SC!Channel!vars
<1>1. ASSUME NEW e \in SC!Ends, SC!SendFinish(e) \/ SC!ReceiveFinish(e) \/ SC!HandshakeFails(e) \/ SC!Split(e)
      PROVE  UNCHANGED << sent, delivered >>
  BY <1>1 DEF SC!SendFinish, SC!ReceiveFinish, SC!HandshakeFails, SC!Split, SC!history
<1>2. ASSUME NEW e \in SC!Ends, SC!Writes(e) PROVE UNCHANGED << sent, delivered >>
  BY <1>2 DEF SC!Writes, SC!WriteStart, SC!WriteEnd, SC!WriteFails, SC!history
<1>3. ASSUME NEW e \in SC!Ends, SC!Reads(e), ~SC!Deliver(e) PROVE UNCHANGED << sent, delivered >>
  BY <1>3 DEF SC!Reads, SC!StartReading, SC!TakeFrame, SC!Reject, SC!SeeEnd, SC!history
<1>4. ASSUME NEW e \in SC!Ends, SC!ReadTimesOut(e) \/ SC!DropHalf(e) \/ SC!Reset(e) \/ SC!Disturb(e)
      PROVE  UNCHANGED << sent, delivered >>
  BY <1>4 DEF SC!ReadTimesOut, SC!DropHalf, SC!Reset, SC!Disturb, SC!history
<1>5. ASSUME SC!SendClientHello \/ SC!ReceiveClientHello \/ SC!SendServerHello \/ SC!ReceiveServerHello
      PROVE  UNCHANGED << sent, delivered >>
  BY <1>5 DEF SC!SendClientHello, SC!ReceiveClientHello, SC!SendServerHello, SC!ReceiveServerHello,
     SC!history
<1>6. CASE UNCHANGED SC!vars
  BY <1>6 DEF SC!vars, SC!history
<1> QED
  BY <1>1, <1>2, <1>3, <1>4, <1>5, <1>6, ChannelSends, ChannelDelivers DEF SC!Next

LEMMA ChannelStarts == SC!Init => SC!Channel!Init
  BY DEF SC!Init, SC!Channel!Init

-----------------------------------------------------------------------------
(* All four in one program.  A behaviour moves one of them; the others keep *)
(* their invariants because none of their variables change.                 *)

ConnectionInv == JobsInv /\ PresenceInv /\ BridgeInv /\ ChannelInv

\* While one layer moves, the others stay as they are.
LEMMA OneMoves ==
    ASSUME [Next]_vars
    PROVE  /\ [RC!Next]_(RC!vars) /\ [PR!Next]_(PR!vars)
           /\ [BR!Next]_(BR!vars) /\ [SC!Next]_(SC!vars)
<1> USE DEF vars, renderVars, presenceVars, bridgeVars, channelVars
<1>1. [RC!Next]_(RC!vars)
  BY DEF Next, RC!vars, RC!job, RC!dns
<1>2. [PR!Next]_(PR!vars)
  BY DEF Next, PR!vars
<1>3. [BR!Next]_(BR!vars)
  BY DEF Next, BR!vars, BR!upward, BR!downward
<1>4. [SC!Next]_(SC!vars)
  BY DEF Next, SC!vars, SC!handshake, SC!threads, SC!history
<1> QED
  BY <1>1, <1>2, <1>3, <1>4

\* Every state a behaviour reaches has jobs, times, bytes and frames that agree.
THEOREM ConnectionInvariant == Spec => []ConnectionInv
<1>a. RC!ConstantsAssumption /\ PR!DurationsAssumption /\ BR!ConstantsAssumption /\ SC!ConstantsAssumption
  BY InstanceAssumption
<1>1. Init => ConnectionInv
  BY <1>a, JobsInit, PresenceInit, BridgeInit, ChannelInit DEF Init, ConnectionInv
<1>2. ConnectionInv /\ [Next]_vars => ConnectionInv'
  BY <1>a, OneMoves, JobsStep, PresenceStep, BridgeStep, ChannelStep DEF ConnectionInv
<1> QED
  BY <1>1, <1>2, PTL DEF Spec

\* DNS_IN_FLIGHT equals the resolver threads there are, whoever gave up meanwhile, and a stream
\* is handed over only after a registration the service confirmed and its word that the peer is
\* there (resolve, connect and wait_for_peer), for any number of jobs and addresses.
THEOREM JobsAccounted == Spec => []JobsAreAccounted
<1>1. ConnectionInv => JobsAreAccounted
  BY InstanceAssumption, JobsAreSafe DEF ConnectionInv, JobsAreAccounted
<1> QED
  BY <1>1, ConnectionInvariant, PTL

\* With any durations that leave room for a heartbeat and two delays: a client that lives stays
\* on the list, one that is gone leaves it, and a silence is noticed, each in its time
\* (HEARTBEAT, CONNECT_TIMEOUT, PRESENCE_TTL).
THEOREM PresenceIsKept == Spec => []PresenceHolds
<1>1. ConnectionInv => PresenceHolds
  BY InstanceAssumption, PresenceIsSafe DEF ConnectionInv, PresenceHolds
<1> QED
  BY <1>1, ConnectionInvariant, PTL

\* The bridge passes every byte on once and in order in both directions, loses none when the
\* program hangs up, and gives up only when it is stuck (bridge), whatever the sockets take.
THEOREM BridgePasses == Spec => []BytesArrive
<1>1. ConnectionInv => BytesArrive
  BY InstanceAssumption, BridgeIsSafe DEF ConnectionInv, BytesArrive
<1> QED
  BY <1>1, ConnectionInvariant, PTL

\* Each end of a channel talks to whom it expected, both agree, and after a failure nothing but
\* the message in hand is delivered (initiate, accept, receive), whatever the relay loses,
\* repeats or swaps.
THEOREM ChannelSound == Spec => []ChannelIsSound
<1>1. ConnectionInv => ChannelIsSound
  BY InstanceAssumption, ChannelIsSafe DEF ConnectionInv, ChannelIsSound
<1> QED
  BY <1>1, ConnectionInvariant, PTL

\* Both directions of a channel implement Pipe: what receive returns is a prefix of what send
\* was given, in order (seal, open, write_frame).
THEOREM ChannelDelivering == Spec => Delivers
<1>1. Init => SC!Channel!Init
  BY ChannelStarts DEF Init
<1>2. ConnectionInv /\ [Next]_vars => [SC!Channel!Next]_(SC!Channel!vars)
  BY InstanceAssumption, OneMoves, ChannelImplements DEF ConnectionInv
<1> QED
  BY <1>1, <1>2, ConnectionInvariant, PTL DEF Spec, Delivers, SC!Delivers, SC!Channel!Spec

=============================================================================
