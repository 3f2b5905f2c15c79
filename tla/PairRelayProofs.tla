-------------------------- MODULE PairRelayProofs --------------------------
(***************************************************************************)
(* Proofs about PairRelay for every set of clients, whatever keys they      *)
(* prove, and every number of rejections and bytes.                         *)
(***************************************************************************)
EXTENDS PairRelay, TLAPS

\* A client is being authenticated in one place only, and the two streams are complete once
\* "ready" is being written
Handled ==
    /\ relay = "authenticating" <=> handling # None
    /\ relay \in {"left", "right", "copying"} => \A r \in Roles : streams[r] # None
    /\ \A r \in Roles : streams[r] # None => streams[r] # handling

\* A copy that ended without a shutdown has read all there was, and there will be no more
ReadToTheEnd ==
    /\ relay # "copying" => ~cut /\ \A r \in Roles : copy[r] = "running"
    /\ cut => \E r \in Roles : copy[r] = "failed"
    /\ \A r \in Roles : copy[r] = "eof" /\ ~cut => inbox[streams[r]] = 0 /\ end[streams[r]] # "open"

IInv == TypeOK /\ NothingLeaked /\ Handled /\ ReadToTheEnd

-----------------------------------------------------------------------------
(* Lemmas *)

\* Whatever an attempt held, its end leaves nothing of it.
LEMMA EndAttemptKeeps ==
    ASSUME IInv,
           NEW next \in {"accepting", "stopped", "broken"},
           EndAttempt(next)
    PROVE  IInv'
<1>1. TypeOK'
  <2>1. 0 \in 0 .. MaxRejected - 1
    BY ConstantsAssumption
  <2>2. streams' \in [Roles -> Clients \cup {None}] /\ copy' \in [Roles -> {"running", "eof", "failed"}]
    BY DEF EndAttempt
  <2>3. conn' \in [Clients -> {"away", "queued", "held", "ready", "closed"}]
    BY DEF IInv, TypeOK, EndAttempt
  <2> QED
    BY <2>1, <2>2, <2>3 DEF IInv, TypeOK, EndAttempt
<1>2. NothingLeaked'
  <2>1. Held' = {}
    BY DEF IInv, TypeOK, EndAttempt, Held
  <2>2. {streams["left"], streams["right"], handling}' = {None}
    BY DEF EndAttempt, Roles
  <2> QED
    BY <2>1, <2>2 DEF EndAttempt, NothingLeaked
<1>3. Handled'
  BY DEF EndAttempt, Handled
<1>4. ReadToTheEnd'
  BY DEF EndAttempt, ReadToTheEnd
<1> QED
  BY <1>1, <1>2, <1>3, <1>4 DEF IInv

\* A client the relay writes to or reads from is one it holds.
LEMMA StreamsAreHeld ==
    ASSUME IInv, NEW r \in Roles, streams[r] # None
    PROVE  streams[r] \in Clients /\ streams[r] \in Held /\ streams[r] # streams[Other(r)]
BY ConstantsAssumption DEF IInv, TypeOK, NothingLeaked, Held, Roles, Other

\* A step that changes no socket, stream or client being handled leaks nothing.
LEMMA NothingLeakedKept ==
    ASSUME NothingLeaked, UNCHANGED << handling, streams >>, Held' = Held
    PROVE  NothingLeaked'
BY DEF NothingLeaked

-----------------------------------------------------------------------------
(* The clients *)

LEMMA ClientsKeep ==
    ASSUME IInv, NEW c \in Clients,
           \/ Dial(c) \/ Send(c)
           \/ \E how \in {"half", "closed", "reset"} : HangUp(c, how)
    PROVE  IInv'
<1>1. CASE Dial(c)
  <2>1. TypeOK'
    BY <1>1 DEF IInv, TypeOK, Dial
  <2>2. Held' = Held
    BY <1>1 DEF IInv, TypeOK, Dial, Held
  <2>3. NothingLeaked'
    BY <1>1, <2>2, NothingLeakedKept DEF IInv, Dial
  <2> QED
    BY <1>1, <2>1, <2>3 DEF IInv, Dial, Handled, ReadToTheEnd
<1>2. CASE Send(c)
  <2>1. TypeOK'
    BY <1>2, ConstantsAssumption DEF IInv, TypeOK, Send
  <2>2. NothingLeaked'
    BY <1>2, NothingLeakedKept DEF IInv, Send, Held
  <2>3. ReadToTheEnd'
    BY <1>2 DEF IInv, TypeOK, Send, ReadToTheEnd
  <2> QED
    BY <1>2, <2>1, <2>2, <2>3 DEF IInv, Send, Handled
<1>3. ASSUME NEW how \in {"half", "closed", "reset"}, HangUp(c, how) PROVE IInv'
  <2>1. TypeOK'
    BY <1>3 DEF IInv, TypeOK, HangUp
  <2>2. NothingLeaked'
    BY <1>3, NothingLeakedKept DEF IInv, HangUp, Held
  <2>3. ReadToTheEnd'
    BY <1>3 DEF IInv, TypeOK, HangUp, ReadToTheEnd
  <2> QED
    BY <1>3, <2>1, <2>2, <2>3 DEF IInv, HangUp, Handled
<1> QED
  BY <1>1, <1>2, <1>3

-----------------------------------------------------------------------------
(* Pairing *)

LEMMA AcceptKeeps ==
    ASSUME IInv, NEW c \in Clients, Accept(c)
    PROVE  IInv'
<1>1. TypeOK'
  BY DEF IInv, TypeOK, Accept
<1>2. Held' = Held \cup {c}
  BY DEF IInv, TypeOK, Accept, Held
<1>3. handling = None
  BY DEF IInv, Handled, Accept
<1>4. c \notin Held
  BY DEF Accept, Held
<1>5. NothingLeaked'
  BY <1>2, <1>3, ConstantsAssumption DEF IInv, NothingLeaked, Accept
<1>6. Handled'
  BY <1>4, ConstantsAssumption DEF IInv, NothingLeaked, Handled, Accept, Roles
<1> QED
  BY <1>1, <1>5, <1>6 DEF IInv, Accept, ReadToTheEnd

LEMMA AuthenticateKeeps ==
    ASSUME IInv, NEW r \in Roles, Authenticate(r)
    PROVE  IInv'
<1>1. handling \in Clients /\ handling # None
  BY DEF IInv, TypeOK, Handled, Authenticate
<1>2. TypeOK'
  BY <1>1 DEF IInv, TypeOK, Authenticate
<1>3. Held' = Held
  BY DEF Authenticate, Held
<1>4. NothingLeaked'
  BY <1>1, <1>3 DEF IInv, TypeOK, NothingLeaked, Authenticate, Roles
<1>5. Handled'
  BY <1>1 DEF IInv, TypeOK, Handled, Authenticate, Roles, Other
<1>6. ReadToTheEnd'
  BY DEF IInv, ReadToTheEnd, Authenticate
<1> QED
  BY <1>2, <1>4, <1>5, <1>6 DEF IInv

LEMMA RejectKeeps ==
    ASSUME IInv, Reject
    PROVE  IInv'
<1>1. CASE rejected + 1 >= MaxRejected
  BY <1>1, EndAttemptKeeps DEF Reject
<1>2. CASE ~(rejected + 1 >= MaxRejected)
  <2>1. handling \in Clients /\ handling # None
    BY DEF IInv, TypeOK, Handled, Reject
  <2>2. TypeOK'
    BY <1>2, <2>1, ConstantsAssumption DEF IInv, TypeOK, Reject
  <2>3. Held' = Held \ {handling}
    BY <1>2, <2>1 DEF IInv, TypeOK, Reject, Held
  <2>4. NothingLeaked'
    BY <1>2, <2>1, <2>3 DEF IInv, NothingLeaked, Handled, Reject, Roles
  <2>5. Handled'
    BY <1>2, <2>1 DEF IInv, Handled, Reject
  <2> QED
    BY <1>2, <2>2, <2>4, <2>5 DEF IInv, Reject, ReadToTheEnd
<1> QED
  BY <1>1, <1>2

-----------------------------------------------------------------------------
(* "Ready", and copying *)

LEMMA ReadyKeeps ==
    ASSUME IInv, NEW r \in Roles, Ready(r)
    PROVE  IInv'
<1>1. streams[r] \in Clients /\ streams[r] \in Held
  BY StreamsAreHeld DEF IInv, Handled, Ready, Roles
<1>2. TypeOK'
  BY <1>1 DEF IInv, TypeOK, Ready, Written
<1>3. Held' = Held
  BY <1>1 DEF IInv, TypeOK, Ready, Held
<1>4. NothingLeaked'
  BY <1>3, NothingLeakedKept DEF IInv, Ready
<1>5. Handled'
  BY DEF IInv, Handled, Ready, Roles
<1>6. ReadToTheEnd'
  BY DEF IInv, ReadToTheEnd, Ready, Roles
<1> QED
  BY <1>2, <1>4, <1>5, <1>6 DEF IInv

LEMMA CopyingKeeps ==
    ASSUME IInv, NEW r \in Roles, Copying(r)
    PROVE  IInv'
<1>1. relay = "copying" /\ \A q \in Roles : streams[q] \in Clients
  BY StreamsAreHeld DEF IInv, Handled, Copying, Forward, ForwardEof, ForwardFails
<1>2. Held' = Held /\ UNCHANGED << handling, streams, relay >>
  BY DEF Copying, Forward, ForwardEof, ForwardFails, Held
<1>3. NothingLeaked'
  BY <1>2, NothingLeakedKept DEF IInv
<1>4. Handled'
  BY <1>2 DEF IInv, Handled
<1>5. CASE Forward(r)
  <2>1. streams[r] # streams[Other(r)] /\ Other(r) \in Roles
    BY <1>1, StreamsAreHeld, ConstantsAssumption DEF Roles, Other
  <2>2. TypeOK'
    BY <1>1, <1>5, <2>1, ConstantsAssumption DEF IInv, TypeOK, Forward, Written
  <2>3. ReadToTheEnd'
    BY <1>1, <1>5, <2>1 DEF IInv, TypeOK, ReadToTheEnd, Forward, Written
  <2> QED
    BY <1>3, <1>4, <2>2, <2>3 DEF IInv
<1>6. CASE ForwardEof(r)
  <2>1. TypeOK'
    BY <1>6 DEF IInv, TypeOK, ForwardEof
  <2>2. ReadToTheEnd'
    BY <1>1, <1>6 DEF IInv, TypeOK, ReadToTheEnd, ForwardEof
  <2> QED
    BY <1>3, <1>4, <2>1, <2>2 DEF IInv
<1>7. CASE ForwardFails(r)
  <2>1. TypeOK'
    BY <1>7 DEF IInv, TypeOK, ForwardFails
  <2>2. ReadToTheEnd'
    BY <1>1, <1>7 DEF IInv, TypeOK, ReadToTheEnd, ForwardFails
  <2> QED
    BY <1>3, <1>4, <2>1, <2>2 DEF IInv
<1> QED
  BY <1>5, <1>6, <1>7 DEF Copying

-----------------------------------------------------------------------------
LEMMA InitInv == Init => IInv
<1> SUFFICES ASSUME Init PROVE IInv
  OBVIOUS
<1>1. TypeOK
  <2>1. 0 \in 0 .. MaxRejected - 1 /\ 0 \in 0 .. MaxSent
    BY ConstantsAssumption
  <2> QED
    BY <2>1 DEF Init, TypeOK
<1>2. NothingLeaked
  BY DEF Init, NothingLeaked, Held, Roles
<1> QED
  BY <1>1, <1>2 DEF IInv, Init, Handled, ReadToTheEnd

LEMMA StepInv == IInv /\ [Next]_vars => IInv'
<1> SUFFICES ASSUME IInv, [Next]_vars PROVE IInv'
  OBVIOUS
<1>1. CASE UNCHANGED vars
  BY <1>1 DEF vars, IInv, TypeOK, NothingLeaked, Held, Handled, ReadToTheEnd
<1>2. ASSUME NEW c \in Clients,
             Dial(c) \/ Send(c) \/ \E how \in {"half", "closed", "reset"} : HangUp(c, how)
      PROVE  IInv'
  BY <1>2, ClientsKeep
<1>3. CASE DeadlinePasses
  <2>1. TypeOK'
    BY <1>3 DEF IInv, TypeOK, DeadlinePasses
  <2>2. NothingLeaked'
    BY <1>3, NothingLeakedKept DEF IInv, DeadlinePasses, Held
  <2> QED
    BY <1>3, <2>1, <2>2 DEF IInv, DeadlinePasses, Handled, ReadToTheEnd
<1>4. CASE AcceptFails
  BY <1>4, EndAttemptKeeps DEF AcceptFails
<1>5. CASE Relay
  <2>1. CASE TimeOut
    BY <2>1, EndAttemptKeeps DEF TimeOut
  <2>2. ASSUME NEW r \in Roles, ReadyFails(r) PROVE IInv'
    BY <2>2, EndAttemptKeeps DEF ReadyFails
  <2>3. CASE PairEnds
    BY <2>3, EndAttemptKeeps DEF PairEnds
  <2> QED
    BY <1>5, <2>1, <2>2, <2>3, AcceptKeeps, AuthenticateKeeps, RejectKeeps, ReadyKeeps DEF Relay
<1>6. ASSUME NEW r \in Roles, Copying(r) PROVE IInv'
  BY <1>6, CopyingKeeps
<1> QED
  BY <1>1, <1>2, <1>3, <1>4, <1>5, <1>6 DEF Next

\* The strengthened invariant of the relay: what it holds, whom it handles and what its copies
\* have read (serve_forever, serve_pair).
THEOREM InductiveInvariant == Spec => []IInv
<1> QED
  BY InitInv, StepInv, PTL DEF Spec

\* An attempt that ends, in whatever way, leaves no socket behind, and no socket serves both
\* roles (serve_pair and the drop of its locals).
THEOREM LeavesNothing == Spec => []AttemptsLeaveNothing
<1>1. IInv => AttemptsLeaveNothing
  BY DEF IInv, AttemptsLeaveNothing
<1> QED
  BY <1>1, InductiveInvariant, PTL

\* A pair that ends without an error has forwarded every byte (bridge_pair's half-closes).
THEOREM CleanEndLosesNothing == Spec => CleanEndIsLossless
<1>1. IInv /\ [Next]_vars => [LosslessStep]_vars
  <2> SUFFICES ASSUME IInv, Next, relay = "copying", relay' = "accepting"
               PROVE  \A r \in Roles : inbox[streams[r]] = 0
    BY DEF LosslessStep
  <2>1. PairEnds
    BY DEF Next, Relay, Dial, Send, HangUp, DeadlinePasses, Accept, AcceptFails, TimeOut,
           Authenticate, Ready, ReadyFails, Reject, Copying, Forward, ForwardEof, ForwardFails, Roles
  <2>2. \A r \in Roles : copy[r] = "eof"
    BY <2>1 DEF PairEnds, EndAttempt, IInv, TypeOK
  <2>3. ~cut
    BY <2>2 DEF IInv, ReadToTheEnd
  <2> QED
    BY <2>2, <2>3 DEF IInv, ReadToTheEnd
<1> QED
  BY <1>1, InductiveInvariant, PTL DEF Spec, CleanEndIsLossless
=============================================================================
