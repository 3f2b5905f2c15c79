------------------------- MODULE HostDesktopProofs -------------------------
(***************************************************************************)
(* Proofs about HostDesktop for every set of monitors and keys, every       *)
(* channel size and any number of generations.                              *)
(***************************************************************************)
EXTENDS HostDesktop, TLAPS

Switching == {"advertise", "activate"}

\* What each thread holds between two of its steps
RequestKept ==
    /\ reader \in {"zero", "send"} => delivering \in Requests
    /\ main = "configure" => reconfigure # None

\* The target lags behind main's generation while main switches, and names the
\* monitor advertised for its own generation
TargetMatchesFormat ==
    /\ main = "setup" => /\ generation = 1
                         /\ target.display = First
    /\ target.generation <= generation
    /\ main \in Switching => target.generation < generation
    /\ main = "activate" => advertised[generation] = format.display
    /\ target.generation # 0 =>
         advertised[target.generation] \in {None, target.display}

\* Every generation a Select was received in is over
CutIsOver ==
    /\ cut <= generation
    /\ main \in Switching => cut < generation
    /\ target.generation # 0 => cut < target.generation

IInv ==
    /\ TypeOK
    /\ RequestKept
    /\ TargetMatchesFormat
    /\ CutIsOver
    /\ InputComesBack
    /\ HeldInOneGeneration

-----------------------------------------------------------------------------
(* Lemmas: the channel and the injector *)

InjectorState == [down : [Keys -> 0 .. MaxGeneration], held : SUBSET Keys, refused : BOOLEAN]

LEMMA InjectorTyped ==
    ASSUME TypeOK
    PROVE  /\ Injector \in InjectorState
           /\ Lifted(Injector) \in InjectorState
           /\ Refused(Injector) \in InjectorState
           /\ Released \subseteq InjectorState
           /\ BeforeInput \subseteq InjectorState
<1>1. Injector \in InjectorState
  BY DEF TypeOK, Injector, InjectorState
<1>2. ASSUME NEW i \in InjectorState PROVE Lifted(i) \in InjectorState
  <2>1. [k \in Keys |-> IF k \in i.held THEN 0 ELSE i.down[k]] \in [Keys -> 0 .. MaxGeneration]
    BY ConstantsAssumption DEF InjectorState
  <2> QED
    BY <2>1 DEF Lifted, InjectorState
<1>3. Refused(Injector) \in InjectorState
  BY <1>1 DEF Refused, InjectorState
<1> QED
  BY <1>1, <1>2, <1>3 DEF Released, BeforeInput

LEMMA PostTyped ==
    ASSUME TypeOK, NEW command \in Commands, NEW next \in ReaderState, Post(command, next)
    PROVE  /\ commands' \in Seq(Commands) /\ Len(commands') <= QueueSize
           /\ reader' \in ReaderState
           /\ stopped' \in BOOLEAN
<1>1. CASE CanPost
  <2>1. commands' = Append(commands, command) /\ reader' = next /\ stopped' = stopped
    BY <1>1 DEF Post
  <2>2. commands' \in Seq(Commands) /\ Len(commands') = Len(commands) + 1
    BY <2>1 DEF TypeOK
  <2>3. Len(commands') <= QueueSize
    BY <1>1, <2>2, ConstantsAssumption DEF TypeOK, CanPost
  <2> QED
    BY <2>1, <2>2, <2>3 DEF TypeOK
<1>2. CASE ~CanPost
  BY <1>2 DEF Post, TypeOK, ReaderState
<1> QED
  BY <1>1, <1>2

LEMMA TailTyped ==
    ASSUME TypeOK, commands # << >>
    PROVE  /\ Tail(commands) \in Seq(Commands) /\ Len(Tail(commands)) <= QueueSize
           /\ Head(commands) \in Commands
BY ConstantsAssumption DEF TypeOK

-----------------------------------------------------------------------------
(* Type correctness of a step *)

LEMMA TypeStep == TypeOK /\ RequestKept /\ TargetMatchesFormat /\ [Next]_vars => TypeOK'
<1> SUFFICES ASSUME TypeOK, RequestKept, TargetMatchesFormat, [Next]_vars PROVE TypeOK'
  OBVIOUS
<1> USE ConstantsAssumption
        DEF MainState, InLoop, ReaderState, Generations, mainVars, readerVars
<1>1. CASE Abort
  BY <1>1 DEF Abort, TypeOK
<1>2. ASSUME NEW g \in Generations, IgnoreInput(g) PROVE TypeOK'
  BY <1>2 DEF IgnoreInput, TypeOK
<1>3. ASSUME NEW g \in Generations, InjectReleaseAll(g) PROVE TypeOK'
  <2>1. PICK i \in BeforeInput : Becomes(Lifted(i))
    BY <1>3 DEF InjectReleaseAll
  <2>2. i \in InjectorState
    BY <2>1, InjectorTyped
  <2>3. [k \in Keys |-> IF k \in i.held THEN 0 ELSE i.down[k]] \in [Keys -> 0 .. MaxGeneration]
    BY <2>2 DEF InjectorState
  <2>4. /\ down' \in [Keys -> 0 .. MaxGeneration]
        /\ held' \in SUBSET Keys
        /\ refused' \in BOOLEAN
    BY <2>1, <2>2, <2>3 DEF Becomes, Lifted, InjectorState
  <2> QED
    BY <1>3, <2>4 DEF InjectReleaseAll, TypeOK
<1>4. ASSUME NEW g \in Generations, NEW k \in Keys, NEW press \in BOOLEAN, InjectKey(g, k, press)
      PROVE  TypeOK'
  <2>1. PICK i \in BeforeInput :
          Becomes([i EXCEPT !.down[k] = IF press THEN g ELSE 0,
                            !.held = IF press THEN @ \cup {k} ELSE @ \ {k}])
    BY <1>4 DEF InjectKey
  <2>2. i \in InjectorState
    BY <2>1, InjectorTyped
  <2>3. /\ down' \in [Keys -> 0 .. MaxGeneration]
        /\ held' \in SUBSET Keys
        /\ refused' \in BOOLEAN
    BY <2>1, <2>2 DEF Becomes, InjectorState
  <2> QED
    BY <1>4, <2>3 DEF InjectKey, TypeOK
<1>5. ASSUME NEW request \in Requests, ReceiveSelect(request) PROVE TypeOK'
  <2>1. Lifted(Injector) \in InjectorState
    BY InjectorTyped
  <2> QED
    BY <1>5, <2>1 DEF ReceiveSelect, Becomes, InjectorState, TypeOK
<1>6. CASE ReceiveOther
  BY <1>6, PostTyped DEF ReceiveOther, TypeOK, Commands
<1>7. CASE ReceiveClose
  <2>1. \E i \in InjectorState : Becomes(i)
    BY <1>7, InjectorTyped DEF ReceiveClose
  <2>2. /\ commands' \in Seq(Commands) /\ Len(commands') <= QueueSize
        /\ reader' \in ReaderState /\ stopped' \in BOOLEAN
    BY <1>7, PostTyped DEF ReceiveClose, Commands
  <2> QED
    BY <1>7, <2>1, <2>2 DEF ReceiveClose, Becomes, InjectorState, TypeOK
<1>8. CASE ReleaseRefused
  <2>1. Refused(Injector) \in InjectorState
    BY InjectorTyped
  <2>2. /\ commands' \in Seq(Commands) /\ Len(commands') <= QueueSize
        /\ reader' \in ReaderState /\ stopped' \in BOOLEAN
    BY <1>8, PostTyped DEF ReleaseRefused, Commands
  <2> QED
    BY <1>8, <2>1, <2>2 DEF ReleaseRefused, Becomes, InjectorState, TypeOK
<1>9. CASE ReceiveFails
  <2>1. /\ commands' \in Seq(Commands) /\ Len(commands') <= QueueSize
        /\ reader' \in ReaderState /\ stopped' \in BOOLEAN
    BY <1>9, PostTyped DEF ReceiveFails, Commands, TypeOK
  <2> QED
    BY <1>9, <2>1 DEF ReceiveFails, TypeOK
<1>10. CASE CheckStop \/ ZeroTarget \/ StopWaiting
  BY <1>10 DEF CheckStop, ZeroTarget, StopWaiting, TypeOK
<1>11. CASE SendSelect
  <2>1. delivering \in Commands
    BY <1>11 DEF SendSelect, RequestKept, Commands
  <2>2. /\ commands' \in Seq(Commands) /\ Len(commands') <= QueueSize
        /\ reader' \in ReaderState /\ stopped' \in BOOLEAN
    BY <1>11, <2>1, PostTyped DEF SendSelect
  <2> QED
    BY <1>11, <2>2 DEF SendSelect, TypeOK
<1>12. CASE Leave
  <2>1. \E i \in InjectorState : Becomes(i)
    BY <1>12, InjectorTyped DEF Leave
  <2> QED
    BY <1>12, <2>1 DEF Leave, Becomes, InjectorState, TypeOK
<1>13. CASE Start
  BY <1>13 DEF Start, TypeOK
<1>14. CASE StartFails \/ BeginPass \/ EndLoop \/ TakeEnd \/ StopDraining \/ Encode \/ Join
  <2>1. CASE StartFails \/ EndLoop \/ TakeEnd
    BY <2>1 DEF StartFails, EndLoop, TakeEnd, End, TypeOK
  <2>2. CASE BeginPass
    BY <2>2 DEF BeginPass, TypeOK
  <2>3. CASE StopDraining \/ Encode \/ Join
    BY <2>3 DEF StopDraining, Encode, Join, TypeOK
  <2> QED
    BY <1>14, <2>1, <2>2, <2>3
<1>15. CASE TakeRequest
  <2>1. /\ commands' \in Seq(Commands) /\ Len(commands') <= QueueSize
    BY <1>15, TailTyped DEF TakeRequest
  <2>2. reconfigure' \in Displays \cup {None} /\ chosen' \in Displays
    BY <1>15 DEF TakeRequest, Requests, TypeOK
  <2>3. drained' \in 0 .. DrainLimit
    BY <1>15 DEF TakeRequest, TypeOK
  <2> QED
    BY <1>15, <2>1, <2>2, <2>3 DEF TakeRequest, TypeOK
<1>16. CASE TakeOther
  BY <1>16, TailTyped DEF TakeOther, TypeOK
<1>17. CASE Observe \/ FallBack
  BY <1>17 DEF Observe, FallBack, TypeOK
<1>18. CASE Configure
  <2>1. reconfigure \in Displays
    BY <1>18 DEF Configure, RequestKept, TypeOK
  <2>2. generation' \in Generations
    BY <1>18 DEF Configure, TypeOK
  <2>3. format' \in [display : Displays, hardware : BOOLEAN]
    <3>1. PICK h \in {FALSE, preferHardware} : format' = [display |-> reconfigure, hardware |-> h]
      BY <1>18 DEF Configure
    <3>2. h \in BOOLEAN
      BY <3>1 DEF TypeOK
    <3> QED
      BY <2>1, <3>1, <3>2
  <2> QED
    BY <1>18, <2>2, <2>3 DEF Configure, TypeOK
<1>19. CASE Advertise
  BY <1>19 DEF Advertise, TypeOK
<1>20. CASE Activate
  BY <1>20 DEF Activate, TypeOK
<1>21. CASE UNCHANGED vars
  BY <1>21 DEF vars, TypeOK
<1> QED
  BY <1>1, <1>2, <1>3, <1>4, <1>5, <1>6, <1>7, <1>8, <1>9, <1>10, <1>11, <1>12, <1>13,
     <1>14, <1>15, <1>16, <1>17, <1>18, <1>19, <1>20, <1>21
     DEF Next, Receive, Read, Main
-----------------------------------------------------------------------------
(* The other parts of the invariant *)

LEMMA RequestStep == TypeOK /\ RequestKept /\ [Next]_vars => RequestKept'
<1> SUFFICES ASSUME TypeOK, RequestKept, [Next]_vars PROVE RequestKept'
  OBVIOUS
<1> USE ConstantsAssumption DEF RequestKept, mainVars, readerVars, InLoop
<1>1. CASE Abort \/ CheckStop \/ ZeroTarget \/ StopWaiting \/ Leave
  BY <1>1 DEF Abort, CheckStop, ZeroTarget, StopWaiting, Leave
<1>2. ASSUME NEW g \in Generations, IgnoreInput(g) \/ InjectReleaseAll(g) PROVE RequestKept'
  BY <1>2 DEF IgnoreInput, InjectReleaseAll
<1>3. ASSUME NEW g \in Generations, NEW k \in Keys, NEW press \in BOOLEAN, InjectKey(g, k, press)
      PROVE  RequestKept'
  BY <1>3 DEF InjectKey
<1>4. ASSUME NEW request \in Requests, ReceiveSelect(request) PROVE RequestKept'
  BY <1>4 DEF ReceiveSelect
<1>5. CASE ReceiveOther \/ ReceiveClose \/ ReleaseRefused \/ ReceiveFails \/ SendSelect
  BY <1>5 DEF ReceiveOther, ReceiveClose, ReleaseRefused, ReceiveFails, SendSelect, Post
<1>6. CASE Start \/ StartFails \/ BeginPass \/ EndLoop \/ TakeEnd
  BY <1>6 DEF Start, StartFails, BeginPass, EndLoop, TakeEnd, End
<1>7. CASE TakeRequest \/ TakeOther
  BY <1>7 DEF TakeRequest, TakeOther
<1>8. CASE StopDraining \/ Observe
  BY <1>8 DEF StopDraining, Observe
<1>9. CASE Configure \/ Advertise \/ Activate \/ Encode \/ FallBack \/ Join
  BY <1>9 DEF Configure, Advertise, Activate, Encode, FallBack, Join
<1>10. CASE UNCHANGED vars
  BY <1>10 DEF vars
<1> QED
  BY <1>1, <1>2, <1>3, <1>4, <1>5, <1>6, <1>7, <1>8, <1>9, <1>10
     DEF Next, Receive, Read, Main

\* Steps that leave target, cut and everything of main alone but for the channel
Elsewhere == UNCHANGED << main, generation, format, advertised, reconfigure, target, cut >>

LEMMA ReaderElsewhere ==
    (Abort \/ Receive \/ ReceiveFails \/ Read) => Elsewhere \/ ZeroTarget
<1> USE DEF Elsewhere, mainVars, readerVars
<1>1. CASE Abort \/ CheckStop \/ StopWaiting \/ Leave
  BY <1>1 DEF Abort, CheckStop, StopWaiting, Leave
<1>2. ASSUME NEW g \in Generations, IgnoreInput(g) \/ InjectReleaseAll(g) PROVE Elsewhere
  BY <1>2 DEF IgnoreInput, InjectReleaseAll
<1>3. ASSUME NEW g \in Generations, NEW k \in Keys, NEW press \in BOOLEAN, InjectKey(g, k, press)
      PROVE  Elsewhere
  BY <1>3 DEF InjectKey
<1>4. ASSUME NEW request \in Requests, ReceiveSelect(request) PROVE Elsewhere
  BY <1>4 DEF ReceiveSelect
<1>5. CASE ReceiveOther \/ ReceiveClose \/ ReleaseRefused \/ ReceiveFails \/ SendSelect
  BY <1>5 DEF ReceiveOther, ReceiveClose, ReleaseRefused, ReceiveFails, SendSelect
<1> QED
  BY <1>1, <1>2, <1>3, <1>4, <1>5 DEF Receive, Read

LEMMA TargetStep ==
    TypeOK /\ TargetMatchesFormat /\ [Next]_vars => TargetMatchesFormat'
<1> SUFFICES ASSUME TypeOK, TargetMatchesFormat, [Next]_vars PROVE TargetMatchesFormat'
  OBVIOUS
<1> USE ConstantsAssumption
        DEF TargetMatchesFormat, Switching, InLoop, Generations, mainVars, readerVars
<1>1. CASE Abort \/ Receive \/ ReceiveFails \/ Read
  <2>1. CASE Elsewhere
    BY <2>1 DEF Elsewhere
  <2>2. CASE ZeroTarget
    BY <2>2 DEF ZeroTarget, TypeOK
  <2> QED
    BY <1>1, <2>1, <2>2, ReaderElsewhere
<1>2. CASE Start
  BY <1>2 DEF Start, TypeOK
<1>3. CASE StartFails \/ BeginPass \/ EndLoop \/ TakeEnd
  BY <1>3 DEF StartFails, BeginPass, EndLoop, TakeEnd, End
<1>4. CASE TakeRequest \/ TakeOther \/ StopDraining \/ Observe
  BY <1>4 DEF TakeRequest, TakeOther, StopDraining, Observe
<1>5. CASE Configure
  BY <1>5 DEF Configure, TypeOK
<1>6. CASE Advertise
  BY <1>6 DEF Advertise, TypeOK
<1>7. CASE Activate
  BY <1>7 DEF Activate, TypeOK
<1>8. CASE Encode \/ FallBack \/ Join
  BY <1>8 DEF Encode, FallBack, Join
<1>9. CASE UNCHANGED vars
  BY <1>9 DEF vars
<1> QED
  BY <1>1, <1>2, <1>3, <1>4, <1>5, <1>6, <1>7, <1>8, <1>9 DEF Next, Main

LEMMA CutStep ==
    TypeOK /\ TargetMatchesFormat /\ CutIsOver /\ [Next]_vars => CutIsOver'
<1> SUFFICES ASSUME TypeOK, TargetMatchesFormat, CutIsOver, [Next]_vars PROVE CutIsOver'
  OBVIOUS
<1> USE DEF CutIsOver, Switching, InLoop, Generations, mainVars, readerVars
<1>1. CASE Abort \/ Receive \/ ReceiveFails \/ Read
  <2>1. CASE Elsewhere
    BY <2>1 DEF Elsewhere
  <2>2. CASE ZeroTarget
    <3>1. target'.generation = 0 /\ UNCHANGED << main, generation >>
      BY <2>2 DEF ZeroTarget, TypeOK
    <3>2. cut' \in {cut, target.generation}
      BY <2>2 DEF ZeroTarget
    <3> QED
      BY <3>1, <3>2 DEF TargetMatchesFormat
  <2> QED
    BY <1>1, <2>1, <2>2, ReaderElsewhere
<1>2. CASE Start \/ StartFails \/ BeginPass \/ EndLoop \/ TakeEnd
  BY <1>2 DEF Start, StartFails, BeginPass, EndLoop, TakeEnd, End
<1>3. CASE TakeRequest \/ TakeOther \/ StopDraining \/ Observe
  BY <1>3 DEF TakeRequest, TakeOther, StopDraining, Observe
<1>4. CASE Configure
  BY <1>4 DEF Configure, TypeOK
<1>5. CASE Advertise \/ Activate
  BY <1>5 DEF Advertise, Activate, TypeOK
<1>6. CASE Encode \/ FallBack \/ Join
  BY <1>6 DEF Encode, FallBack, Join
<1>7. CASE UNCHANGED vars
  BY <1>7 DEF vars
<1> QED
  BY <1>1, <1>2, <1>3, <1>4, <1>5, <1>6, <1>7 DEF Next, Main

LEMMA HeldStep == TypeOK /\ HeldInOneGeneration /\ [Next]_vars => HeldInOneGeneration'
<1> SUFFICES ASSUME TypeOK, HeldInOneGeneration, [Next]_vars PROVE HeldInOneGeneration'
  OBVIOUS
<1> USE DEF HeldInOneGeneration, mainVars, readerVars
\* Whatever is released, nothing is down that the injector does not remember
<1>1. ASSUME NEW i \in Released, Becomes(i)
      PROVE  HeldInOneGeneration' /\ (refused' \/ down' = [k \in Keys |-> 0])
  <2>1. CASE i = Lifted(Injector)
    BY <1>1, <2>1 DEF Becomes, Lifted, Injector, TypeOK
  <2>2. CASE i = Refused(Injector)
    BY <1>1, <2>2 DEF Becomes, Refused, Injector
  <2> QED
    BY <1>1, <2>1, <2>2 DEF Released
<1>2. ASSUME NEW g \in Generations, InjectReleaseAll(g) PROVE HeldInOneGeneration'
  <2>1. PICK i \in BeforeInput : Becomes(Lifted(i))
    BY <1>2 DEF InjectReleaseAll
  <2>2. CASE i = Injector
    BY <2>1, <2>2, <1>1 DEF Released
  <2>4. CASE i = Lifted(Injector)
    <3>1. /\ i.down = [k \in Keys |-> IF k \in held THEN 0 ELSE down[k]]
          /\ i.held = {} /\ i.refused = refused
      BY <2>4 DEF Lifted, Injector
    <3>2. /\ down' = [k \in Keys |-> IF k \in i.held THEN 0 ELSE i.down[k]]
          /\ held' = {} /\ refused' = i.refused
      BY <2>1, <3>1, <2>4 DEF Becomes, Lifted, Injector
    <3>3. ~refused => \A k \in Keys : i.down[k] = 0
      BY <3>1 DEF TypeOK
    <3> QED
      BY <3>1, <3>2, <3>3
  <2>3. CASE i = Refused(Injector)
    BY <2>1, <2>3 DEF Becomes, Lifted, Refused, Injector
  <2> QED
    BY <2>2, <2>3, <2>4 DEF BeforeInput, Released
<1>3. ASSUME NEW g \in Generations, NEW k \in Keys, NEW press \in BOOLEAN, InjectKey(g, k, press)
      PROVE  HeldInOneGeneration'
  <2>1. PICK i \in BeforeInput :
          Becomes([i EXCEPT !.down[k] = IF press THEN g ELSE 0,
                            !.held = IF press THEN @ \cup {k} ELSE @ \ {k}])
    BY <1>3 DEF InjectKey
  <2>2. i \in InjectorState
    BY <2>1, InjectorTyped
  <2>3. /\ down' = [i.down EXCEPT ![k] = IF press THEN g ELSE 0]
        /\ held' = IF press THEN i.held \cup {k} ELSE i.held \ {k}
        /\ refused' = i.refused
    BY <2>1, <2>2 DEF Becomes, InjectorState
  <2>4. injected' = g /\ g = target.generation
    BY <1>3 DEF InjectKey
  <2>5. i.refused \/ \A l \in Keys : i.down[l] # 0 => l \in i.held /\ i.down[l] = g
    <3>1. CASE i = Injector /\ injected = target.generation
      BY <2>4, <3>1 DEF Injector
    <3>2. CASE i = Lifted(Injector)
      BY <3>2 DEF Lifted, Injector, TypeOK
    <3>3. CASE i = Refused(Injector)
      BY <3>3 DEF Refused, Injector
    <3> QED
      BY <2>1, <3>1, <3>2, <3>3 DEF BeforeInput, Released
  <2> QED
    BY <2>2, <2>3, <2>4, <2>5 DEF InjectorState
<1>4. ASSUME NEW request \in Requests, ReceiveSelect(request) PROVE HeldInOneGeneration'
  BY <1>4, <1>1 DEF ReceiveSelect, Released
<1>5. CASE ReceiveClose \/ Leave
  BY <1>5, <1>1 DEF ReceiveClose, Leave
<1>6. CASE ReleaseRefused
  BY <1>6, <1>1 DEF ReleaseRefused, Released
<1>7. CASE Abort \/ ReceiveFails \/ ReceiveOther \/ CheckStop \/ ZeroTarget \/ SendSelect
             \/ StopWaiting
  BY <1>7 DEF Abort, ReceiveFails, ReceiveOther, CheckStop, ZeroTarget, SendSelect, StopWaiting
<1>8. ASSUME NEW g \in Generations, IgnoreInput(g) PROVE HeldInOneGeneration'
  BY <1>8 DEF IgnoreInput
<1>9. CASE Main
  BY <1>9 DEF Main, Start, StartFails, BeginPass, EndLoop, TakeRequest, TakeOther, TakeEnd, End,
     StopDraining, Observe, Configure, Advertise, Activate, Encode, FallBack, Join
<1>10. CASE UNCHANGED vars
  BY <1>10 DEF vars
<1> QED
  BY <1>2, <1>3, <1>4, <1>5, <1>6, <1>7, <1>8, <1>9, <1>10 DEF Next, Receive, Read
-----------------------------------------------------------------------------
(* Input comes back *)

\* Some Select waits in the channel
Waiting == \E i \in 1 .. Len(commands) : commands[i] \in Requests

LEMMA PostKeepsWaiting ==
    ASSUME TypeOK, NEW command \in Commands, NEW next, Post(command, next)
    PROVE  /\ Waiting => Waiting'
           /\ stopped => stopped'
           /\ command \in Requests => Waiting' \/ stopped'
<1>1. CASE CanPost
  <2>1. commands' = Append(commands, command) /\ stopped' = stopped
    BY <1>1 DEF Post
  <2>2. /\ Len(commands') = Len(commands) + 1 /\ Len(commands) \in Nat
        /\ \A i \in 1 .. Len(commands) : commands'[i] = commands[i]
        /\ commands'[Len(commands) + 1] = command
    BY <2>1 DEF TypeOK
  <2> QED
    BY <2>1, <2>2 DEF Waiting
<1>2. CASE ~CanPost
  BY <1>2 DEF Post, Waiting
<1> QED
  BY <1>1, <1>2

LEMMA TailKeepsWaiting ==
    ASSUME TypeOK, commands # << >>, Head(commands) \notin Requests, Waiting,
           commands' = Tail(commands)
    PROVE  Waiting'
<1>1. PICK i \in 1 .. Len(commands) : commands[i] \in Requests
  BY DEF Waiting
<1>2. i # 1
  BY <1>1 DEF TypeOK
<1>3. /\ Len(commands') = Len(commands) - 1 /\ Len(commands) \in Nat
      /\ \A j \in 1 .. Len(commands) - 1 : commands'[j] = commands[j + 1]
  BY DEF TypeOK
<1>4. i - 1 \in 1 .. Len(commands')
  BY <1>2, <1>3
<1>5. commands'[i - 1] = commands[i]
  BY <1>3, <1>4
<1> QED
  BY <1>1, <1>4, <1>5 DEF Waiting

LEMMA ComesBackStep ==
    TypeOK /\ RequestKept /\ InputComesBack /\ [Next]_vars => InputComesBack'
<1> SUFFICES ASSUME TypeOK, RequestKept, InputComesBack, [Next]_vars
             PROVE  InputComesBack'
  OBVIOUS
<1> DEFINE Back == \/ reader = "send" \/ Waiting \/ reconfigure # None
                   \/ main \in {"advertise", "activate"} \/ stopped
<1>0. /\ InputComesBack <=> (target.generation = 0 /\ main \in InLoop \cup {"setup"} => Back)
      /\ InputComesBack' <=>
           (target'.generation = 0 /\ main' \in InLoop \cup {"setup"} => Back')
  BY DEF InputComesBack, Waiting
<1> HIDE DEF Back
<1> SUFFICES ASSUME target'.generation = 0, main' \in InLoop \cup {"setup"}
             PROVE  Back'
  BY <1>0
<1> USE DEF mainVars, readerVars, InLoop
<1>1. CASE Abort \/ Leave \/ CheckStop \/ StopWaiting
  BY <1>0, <1>1 DEF Abort, Leave, CheckStop, StopWaiting, Back, Waiting
<1>2. ASSUME NEW g \in Generations, IgnoreInput(g) \/ InjectReleaseAll(g) PROVE Back'
  BY <1>0, <1>2 DEF IgnoreInput, InjectReleaseAll, Back, Waiting
<1>3. ASSUME NEW g \in Generations, NEW k \in Keys, NEW press \in BOOLEAN, InjectKey(g, k, press)
      PROVE  Back'
  BY <1>0, <1>3 DEF InjectKey, Back, Waiting
<1>4. ASSUME NEW request \in Requests, ReceiveSelect(request) PROVE Back'
  BY <1>0, <1>4 DEF ReceiveSelect, Back, Waiting
<1>5. CASE ZeroTarget
  BY <1>5 DEF ZeroTarget, Back
<1>6. CASE ReceiveOther \/ ReceiveClose \/ ReleaseRefused
  <2>1. \E c \in {"other", "close", "failed"}, next \in ReaderState : Post(c, next)
    BY <1>6 DEF ReceiveOther, ReceiveClose, ReleaseRefused, ReaderState
  <2>2. (Waiting => Waiting') /\ (stopped => stopped')
    BY <2>1, PostKeepsWaiting DEF Commands
  <2> QED
    BY <1>0, <1>6, <2>2 DEF ReceiveOther, ReceiveClose, ReleaseRefused, Back
<1>7. CASE ReceiveFails
  <2>1. (Waiting => Waiting') /\ (stopped => stopped')
    <3>1. CASE Post("failed", "leaving")
      BY <3>1, PostKeepsWaiting DEF Commands
    <3>2. CASE UNCHANGED << commands, stopped >>
      BY <3>2 DEF Waiting
    <3> QED
      BY <1>7, <3>1, <3>2 DEF ReceiveFails
  <2> QED
    BY <1>0, <1>7, <2>1 DEF ReceiveFails, Back
<1>8. CASE SendSelect
  <2>1. delivering \in Requests /\ delivering \in Commands
    BY <1>8 DEF SendSelect, RequestKept, Commands
  <2>2. Waiting' \/ stopped'
    BY <1>8, <2>1, PostKeepsWaiting DEF SendSelect
  <2> QED
    BY <2>2 DEF Back
<1>9. CASE Start \/ BeginPass \/ StopDraining
  BY <1>0, <1>9 DEF Start, BeginPass, StopDraining, Back, Waiting
<1>10. CASE StartFails \/ EndLoop \/ TakeEnd \/ Join
  BY <1>10 DEF StartFails, EndLoop, TakeEnd, End, Join, Back
<1>11. CASE TakeRequest
  <2>1. reconfigure' \in Displays
    BY <1>11 DEF TakeRequest, Requests, TypeOK
  <2> QED
    BY <2>1, ConstantsAssumption DEF Back, Commands, Requests
<1>12. CASE TakeOther
  <2>1. Head(commands) \notin Requests
    BY <1>12, ConstantsAssumption DEF TakeOther, Requests
  <2>2. Waiting => Waiting'
    BY <1>12, <2>1, TailKeepsWaiting DEF TakeOther
  <2> QED
    BY <1>0, <1>12, <2>2 DEF TakeOther, Back
<1>13. CASE Observe
  <2>1. reconfigure' \in {reconfigure, format.display} /\ format.display # None
    BY <1>13, ConstantsAssumption DEF Observe, TypeOK, Commands, Requests
  <2> QED
    BY <1>0, <1>13, <2>1 DEF Observe, Back, Waiting
<1>14. CASE Configure \/ Advertise
  BY <1>14 DEF Configure, Advertise, Back
<1>15. CASE Activate
  BY <1>15 DEF Activate, TypeOK, Generations
<1>16. CASE Encode
  BY <1>0, <1>16 DEF Encode, Back, Waiting
<1>17. CASE FallBack
  BY <1>17, ConstantsAssumption DEF FallBack, Back, TypeOK, Commands, Requests
<1>18. CASE UNCHANGED vars
  BY <1>0, <1>18 DEF vars, Back, Waiting
<1> QED
  BY <1>1, <1>2, <1>3, <1>4, <1>5, <1>6, <1>7, <1>8, <1>9, <1>10, <1>11, <1>12, <1>13,
     <1>14, <1>15, <1>16, <1>17, <1>18 DEF Next, Receive, Read, Main

-----------------------------------------------------------------------------
(* Theorems *)

LEMMA InitInvariant == Init => IInv
<1> SUFFICES ASSUME Init PROVE IInv
  OBVIOUS
<1> USE ConstantsAssumption DEF Init
<1>c. commands \in Seq(Commands) /\ Len(commands) <= QueueSize
  <2>1. << >> \in Seq(Commands) /\ Len(<< >>) = 0
    OBVIOUS
  <2> QED
    BY <2>1
<1>r. format \in [display : Displays, hardware : BOOLEAN]
  OBVIOUS
<1>m. target \in [generation : 0 .. MaxGeneration, display : Displays]
  OBVIOUS
<1>f. advertised \in [Generations -> Displays \cup {None}] /\ down \in [Keys -> 0 .. MaxGeneration]
  OBVIOUS
<1>g. generation \in Generations /\ drained \in 0 .. DrainLimit
  BY DEF Generations
<1>o. main \in MainState /\ reader \in ReaderState
  BY DEF MainState, InLoop, ReaderState
<1>b. /\ preferHardware \in BOOLEAN /\ refused \in BOOLEAN /\ stopped \in BOOLEAN
      /\ held \in SUBSET Keys /\ chosen \in Displays
      /\ reconfigure \in Displays \cup {None} /\ delivering \in Requests \cup {None}
  OBVIOUS
<1>i. injected \in 0 .. MaxGeneration /\ cut \in 0 .. MaxGeneration
  OBVIOUS
<1>1. TypeOK
  BY <1>c, <1>r, <1>m, <1>f, <1>g, <1>o, <1>b, <1>i DEF TypeOK
<1>2. RequestKept /\ InputComesBack /\ HeldInOneGeneration
  BY DEF RequestKept, InputComesBack, HeldInOneGeneration
<1>3. TargetMatchesFormat /\ CutIsOver
  BY DEF TargetMatchesFormat, CutIsOver, Switching, Generations
<1> QED
  BY <1>1, <1>2, <1>3 DEF IInv

\* IInv holds in every state of the session: host_desktop and its reader.
THEOREM InductiveInvariant == Spec => []IInv
<1>1. IInv /\ [Next]_vars => IInv'
  BY TypeStep, RequestStep, TargetStep, CutStep, ComesBackStep, HeldStep DEF IInv
<1> QED
  BY InitInvariant, <1>1, PTL DEF Spec

\* Every variable keeps its type: among others the channel never holds more than
\* its 64 commands (HostCommands::send).
THEOREM TypeCorrect == Spec => []TypeOK
<1>1. IInv => TypeOK
  BY DEF IInv
<1> QED
  BY <1>1, InductiveInvariant, PTL

\* Input that the reader turned off for a Select is on its way back for as long as
\* the session runs (target.generation = 0 until the main loop has switched).
THEOREM TurnedOffInputComesBack == Spec => []InputComesBack
<1>1. IInv => InputComesBack
  BY DEF IInv
<1> QED
  BY <1>1, InductiveInvariant, PTL

\* Nothing pressed in one generation is held in another (injected_generation).
THEOREM NothingHeldAcross == Spec => []HeldInOneGeneration
<1>1. IInv => HeldInOneGeneration
  BY DEF IInv
<1> QED
  BY <1>1, InductiveInvariant, PTL

\* In an injection, the key goes down with the generation of the target
LEMMA PressIsOfTarget ==
    ASSUME IInv, [Next]_vars, NEW k \in Keys, Pressed(k)
    PROVE  /\ down'[k] = target.generation
           /\ advertised[down'[k]] # None
<1> USE DEF mainVars, readerVars, Pressed
<1>t. TypeOK
  BY DEF IInv
\* Releasing presses nothing
<1>1. ASSUME NEW i \in Released, Becomes(i) PROVE FALSE
  <2>1. CASE i = Lifted(Injector)
    BY <1>1, <1>t, <2>1 DEF Becomes, Lifted, Injector, TypeOK
  <2>2. CASE i = Refused(Injector)
    BY <1>1, <2>2 DEF Becomes, Refused, Injector
  <2> QED
    BY <1>1, <2>1, <2>2 DEF Released
<1>2. ASSUME NEW i \in BeforeInput PROVE i.down[k] = 0 /\ i \in InjectorState
  <2>1. i \in InjectorState
    BY <1>t, InjectorTyped
  <2>0. down[k] = 0
    BY DEF Pressed
  <2>2. CASE i = Injector
    BY <2>0, <2>1, <2>2 DEF Injector
  <2>4. CASE i = Refused(Injector)
    BY <2>0, <2>1, <2>4 DEF Injector, Refused
  <2>3. CASE i = Lifted(Injector)
    <3>1. i.down = [l \in Keys |-> IF l \in held THEN 0 ELSE down[l]]
      BY <2>3 DEF Lifted, Injector
    <3> QED
      BY <2>0, <2>1, <3>1
  <2> QED
    BY <2>1, <2>2, <2>3, <2>4 DEF BeforeInput, Released
<1>3. ASSUME NEW g \in Generations, InjectReleaseAll(g) PROVE FALSE
  <2>1. PICK i \in BeforeInput : Becomes(Lifted(i))
    BY <1>3 DEF InjectReleaseAll
  <2>2. i \in InjectorState /\ i.down[k] = 0
    BY <1>2, <2>1
  <2>3. down' = [l \in Keys |-> IF l \in i.held THEN 0 ELSE i.down[l]]
    BY <2>1, <2>2 DEF Becomes, Lifted, InjectorState
  <2> QED
    BY <2>2, <2>3
<1>4. ASSUME NEW g \in Generations, NEW l \in Keys, NEW press \in BOOLEAN, InjectKey(g, l, press)
      PROVE  g = target.generation /\ down'[k] = g /\ advertised[g] # None
  <2>1. PICK i \in BeforeInput :
          Becomes([i EXCEPT !.down[l] = IF press THEN g ELSE 0,
                            !.held = IF press THEN @ \cup {l} ELSE @ \ {l}])
    BY <1>4 DEF InjectKey
  <2>2. i \in InjectorState /\ i.down[k] = 0
    BY <1>2, <2>1
  <2>3. down' = [i.down EXCEPT ![l] = IF press THEN g ELSE 0]
    BY <2>1, <2>2 DEF Becomes, InjectorState
  <2>4. down'[k] = g
    BY <2>2, <2>3 DEF InjectorState
  <2> QED
    BY <1>4, <2>4 DEF InjectKey
<1>5. ASSUME NEW request \in Requests, ReceiveSelect(request) PROVE FALSE
  BY <1>1, <1>5 DEF ReceiveSelect, Released
<1>6. CASE ReceiveClose \/ Leave
  BY <1>1, <1>6 DEF ReceiveClose, Leave
<1>7. CASE ReleaseRefused
  BY <1>1, <1>7 DEF ReleaseRefused, Released
<1>8. CASE Abort \/ ReceiveFails \/ ReceiveOther \/ CheckStop \/ ZeroTarget \/ SendSelect
             \/ StopWaiting
  BY <1>8 DEF Abort, ReceiveFails, ReceiveOther, CheckStop, ZeroTarget, SendSelect, StopWaiting
<1>9. ASSUME NEW g \in Generations, IgnoreInput(g) PROVE FALSE
  BY <1>9 DEF IgnoreInput
<1>10. CASE Main
  BY <1>10 DEF Main, Start, StartFails, BeginPass, EndLoop, TakeRequest, TakeOther, TakeEnd, End,
     StopDraining, Observe, Configure, Advertise, Activate, Encode, FallBack, Join
<1>11. CASE UNCHANGED vars
  BY <1>11 DEF vars
<1> QED
  BY <1>3, <1>4, <1>5, <1>6, <1>7, <1>8, <1>9, <1>10, <1>11 DEF Next, Receive, Read

\* Coordinates are injected for the monitor that their generation's Format named,
\* however often monitors, profiles and encoders were switched.
THEOREM PressesMatch == Spec => PressesMatchTheirFormat
<1>1. IInv /\ [Next]_vars =>
        [\A k \in Keys : Pressed(k) => advertised[down'[k]] = target.display]_vars
  <2> SUFFICES ASSUME IInv, [Next]_vars, NEW k \in Keys, Pressed(k)
               PROVE  advertised[down'[k]] = target.display
    OBVIOUS
  <2>1. down'[k] = target.generation /\ advertised[down'[k]] # None /\ down'[k] # 0
    BY PressIsOfTarget DEF Pressed
  <2> QED
    BY <2>1 DEF IInv, TargetMatchesFormat
<1> QED
  BY <1>1, InductiveInvariant, PTL DEF Spec, PressesMatchTheirFormat

\* No input sent before a Select is injected after the reader has received it.
THEOREM NoStalePress == Spec => NoPressFromBeforeASelect
<1>1. IInv /\ [Next]_vars => [\A k \in Keys : Pressed(k) => down'[k] > cut]_vars
  <2> SUFFICES ASSUME IInv, [Next]_vars, NEW k \in Keys, Pressed(k)
               PROVE  down'[k] > cut
    OBVIOUS
  <2>1. down'[k] = target.generation /\ down'[k] # 0
    BY PressIsOfTarget DEF Pressed
  <2>2. cut < target.generation /\ cut \in Nat /\ target.generation \in Nat
    BY <2>1 DEF IInv, CutIsOver, TypeOK
  <2> QED
    BY <2>1, <2>2
<1> QED
  BY <1>1, InductiveInvariant, PTL DEF Spec, NoPressFromBeforeASelect

\* Every press is for the monitor of its Format, and for what the viewer saw after its
\* last Select.
THEOREM InputMeant == Spec => InputIsMeant
BY PressesMatch, NoStalePress DEF InputIsMeant
=============================================================================
