----------------------------- MODULE MediaProofs ------------------------------
(***************************************************************************)
(* Proofs about Media, for any window, frame, rate, text and event.         *)
(*                                                                          *)
(* One part after the other has its invariant (VideoInv, RateInv, ClipInv,  *)
(* InputInv), lemmas on what a step keeps, and a lemma that says what the   *)
(* invariant means for its properties.  The bytes of a window are defined   *)
(* from one packet to the next; Counting is what the proofs about them rest *)
(* on.  Of the input the invariants say what will be held when all messages *)
(* have come.  The theorems about all four are at the end.                  *)
(***************************************************************************)
EXTENDS Media, SequenceTheorems, FiniteSetTheorems, TLAPS

\* A set that holds 0, and with a number the next one, holds every number: else the numbers of it up
\* to the one that is missing were mapped, one to one, to those of them without 0.
LEMMA Counting ==
    ASSUME NEW S, 0 \in S, \A n \in S \cap Nat : n + 1 \in S
    PROVE  \A n \in Nat : n \in S
<1> SUFFICES ASSUME NEW n \in Nat, n \notin S PROVE FALSE
  OBVIOUS
<1> DEFINE T == { k \in 0 .. n : k \in S }
           U == T \ {0}
           f == [k \in T |-> k + 1]
<1>1. IsFiniteSet(T) /\ IsFiniteSet(U) /\ Cardinality(U) = Cardinality(T) - 1
  <2>1. IsFiniteSet(0 .. n)
    BY FS_Interval
  <2>2. IsFiniteSet(T)
    BY <2>1, FS_Subset
  <2>3. 0 \in T
    OBVIOUS
  <2> QED
    BY <2>2, <2>3, FS_RemoveElement
<1>2. f \in [T -> U]
  <2> SUFFICES ASSUME NEW k \in T PROVE k + 1 \in U
    OBVIOUS
  <2>1. k # n /\ k \in 0 .. n /\ k + 1 \in S
    OBVIOUS
  <2> QED
    BY <2>1
<1>3. Cardinality(T) \in Nat
  BY <1>1, FS_CardinalityType
<1>4. PICK x, y \in T : x # y /\ f[x] = f[y]
  <2>1. Cardinality(U) < Cardinality(T)
    BY <1>1, <1>3
  <2> HIDE DEF f, T, U
  <2> QED
    BY <1>1, <1>2, <2>1, FS_PigeonHole
<1> QED
  BY <1>4

-----------------------------------------------------------------------------
(* VideoPipe: the stream of fragments *)

\* What the assembly is after a message
Left(f) == IF f = Video!NoPacket \/ Video!Complete(f) THEN Video!NoPacket
  ELSE [f EXCEPT !.at = @ + 1]

\* A message fits behind generation g with assembly a
Fits(g, a, m) ==
    IF m.packet = Video!NoPacket THEN a = Video!NoPacket /\ m.generation = g + 1
    ELSE m.generation = g /\ (IF a = Video!NoPacket THEN m.packet.at = 0 ELSE m.packet = a)

\* What the viewer has put together when it has everything
Awaited == IF sending.at = 0 THEN Video!NoPacket ELSE sending

Whole(f) == f # Video!NoPacket => f.at < f.size

\* Every message fits behind the one before it
Joined ==
    /\ Whole(sending) /\ \A k \in 1 .. Len(stream) : Whole(stream[k].packet)
    /\ stream = << >> => decoding = generation /\ assembly = Awaited
    /\ stream # << >> => /\ Fits(decoding, assembly, stream[1])
                         /\ stream[Len(stream)].generation = generation
                         /\ Left(stream[Len(stream)].packet) = Awaited
    /\ \A k \in 1 .. Len(stream) : k + 1 <= Len(stream)
         => Fits(stream[k].generation, Left(stream[k].packet), stream[k + 1])

\* Picture p is the i-th that the encoder of g has put out
IsPicture(g, i, p) == i \in 1 .. Len(produced[g]) /\ produced[g][i] = p

\* By how much a message moves on to the next frame
Ends(f) == IF f = Video!NoPacket \/ Video!Complete(f) THEN 1 ELSE 0

\* The frame the host sends next, or is sending
Start == IF sending = Video!NoPacket THEN Len(produced[generation]) + 1
  ELSE Len(produced[generation])

\* r[k] is the frame of the fragment stream[k]; they follow upon what was decoded, without a gap
Ranks(r) ==
    /\ \A k \in 1 .. Len(stream) :
        /\ r[k] \in Nat
        /\ stream[k].packet = Video!NoPacket => r[k] = 0
        /\ stream[k].packet # Video!NoPacket
             => IsPicture(stream[k].generation, r[k], stream[k].packet.picture)
        /\ k + 1 <= Len(stream) /\ stream[k + 1].packet # Video!NoPacket
             => r[k + 1] = r[k] + Ends(stream[k].packet)
    /\ stream # << >> => /\ stream[1].packet # Video!NoPacket => r[1] = Len(decoded[decoding]) + 1
                         /\ r[Len(stream)] + Ends(stream[Len(stream)].packet) = Start

Ranked ==
    /\ sending # Video!NoPacket => IsPicture(generation, Len(produced[generation]), sending.picture)
    /\ stream = << >> => Start = Len(decoded[generation]) + 1
    /\ \E r : Ranks(r)
    /\ \A g \in Video!Generations : /\ g > generation => produced[g] = << >>
                                    /\ g > decoding => decoded[g] = << >>

StreamInv == Joined /\ Ranked /\ Video!ReferencesComplete

Stream == << generation, sending, stream, decoding, assembly, produced, decoded >>

LEMMA StreamUnmoved == StreamInv /\ UNCHANGED Stream => StreamInv'
  BY DEF Stream, StreamInv, Joined, Ranked, Ranks, Video!ReferencesComplete, Fits, Awaited, Start,
     IsPicture

\* The types that the stream's proofs need
LEMMA StreamTypes ==
    ASSUME Video!ConstantsAssumption, Video!TypeOK
    PROVE  /\ generation \in Nat /\ generation \in Video!Generations /\ decoding \in Nat
           /\ stream \in Seq(Video!Message) /\ Len(stream) \in Nat
           /\ \A k \in 1 .. Len(stream) : stream[k] \in Video!Message
           /\ produced \in [Video!Generations -> Seq(Video!Pictures)]
                /\ decoded \in [Video!Generations -> Seq(Video!Pictures)]
           /\ \A g \in Video!Generations : g \in Nat /\ g >= 1
           /\ sending \in Video!Packet \cup {Video!NoPacket}
                /\ assembly \in Video!Packet \cup {Video!NoPacket}
<1>1. MaxGeneration \in Nat
  BY DEF Video!ConstantsAssumption
<1>a. generation \in Video!Generations /\ decoding \in 0 .. MaxGeneration
  BY DEF Video!TypeOK
<1>2. generation \in Nat /\ decoding \in Nat /\ \A g \in Video!Generations : g \in Nat /\ g >= 1
  BY <1>1, <1>a DEF Video!Generations
<1>3. stream \in Seq(Video!Message)
  BY DEF Video!TypeOK
<1>4. Len(stream) \in Nat /\ \A k \in 1 .. Len(stream) : stream[k] \in Video!Message
  BY <1>3
<1> QED
  BY <1>2, <1>3, <1>4 DEF Video!TypeOK

LEMMA FragmentTypes ==
    ASSUME Video!ConstantsAssumption, NEW f \in Video!Packet
    PROVE  /\ f.picture \in Video!Pictures /\ f.picture \in Nat /\ f.picture >= 1
           /\ f.size \in Nat /\ f.at \in Nat /\ f.size >= 1 /\ f.size <= MaxSize
           /\ f # Video!NoPacket
<1>1. MaxSize \in Nat /\ MaxPictures \in Nat
  BY DEF Video!ConstantsAssumption
<1>2. f.picture \in Video!Pictures /\ f.size \in Video!Sizes /\ f.at \in 0 .. MaxSize
  BY DEF Video!Packet
<1>3. f.picture \in Nat /\ f.picture >= 1
  BY <1>1, <1>2 DEF Video!Pictures
<1> QED
  BY <1>1, <1>2, <1>3 DEF Video!Sizes, Video!NoPacket

LEMMA NoPacketIs == Video!NoPacket.picture = 0 /\ Video!NoPacket.at = 0 /\ Video!NoPacket.size = 0
  BY DEF Video!NoPacket

-----------------------------------------------------------------------------
(* A message more, a message less *)

LEMMA Appended ==
    ASSUME Video!ConstantsAssumption, Video!TypeOK, NEW m \in Video!Message,
           stream' = Append(stream, m)
    PROVE  /\ stream' \in Seq(Video!Message) /\ Len(stream') = Len(stream) + 1
             /\ Len(stream) \in Nat /\ stream' # << >>
           /\ \A k \in 1 .. Len(stream) : stream'[k] = stream[k]
           /\ stream'[Len(stream) + 1] = m
<1>1. stream \in Seq(Video!Message)
  BY StreamTypes
<1> QED
  BY <1>1

LEMMA Taken ==
    ASSUME Video!ConstantsAssumption, Video!TypeOK, stream # << >>, stream' = Tail(stream)
    PROVE  /\ stream' \in Seq(Video!Message) /\ Len(stream') = Len(stream) - 1
             /\ Len(stream) \in Nat \ {0}
           /\ \A k \in 1 .. Len(stream) - 1 : stream'[k] = stream[k + 1]
           /\ stream' = << >> <=> Len(stream) = 1
           /\ Head(stream) = stream[1] /\ stream[1] \in Video!Message
<1>1. stream \in Seq(Video!Message)
  BY StreamTypes
<1>2. Len(stream) \in Nat \ {0} /\ Head(stream) = stream[1] /\ stream[1] \in Video!Message
  BY <1>1
<1>3. /\ stream' \in Seq(Video!Message) /\ Len(stream') = Len(stream) - 1
      /\ \A k \in 1 .. Len(stream) - 1 : stream'[k] = stream[k + 1]
  BY <1>1
<1>4. stream' = << >> <=> Len(stream') = 0
  BY <1>3, EmptySeq
<1> QED
  BY <1>2, <1>3, <1>4

LEMMA AppendJoins ==
    ASSUME Video!ConstantsAssumption, Video!TypeOK, Joined, NEW m \in Video!Message,
           stream' = Append(stream, m),
           UNCHANGED << decoding, assembly >>, Whole(m.packet), Whole(sending'),
           Fits(generation, Awaited, m), m.generation = generation', Left(m.packet) = Awaited'
    PROVE  Joined'
<1> DEFINE n == Len(stream)
<1>1. /\ stream' # << >> /\ Len(stream') = n + 1 /\ n \in Nat
      /\ \A k \in 1 .. n : stream'[k] = stream[k]
      /\ stream'[n + 1] = m
  BY Appended
<1>j. /\ \A k \in 1 .. n : Whole(stream[k].packet)
      /\ n = 0 => decoding = generation /\ assembly = Awaited
      /\ n # 0 => /\ Fits(decoding, assembly, stream[1])
                  /\ stream[n].generation = generation
                  /\ Left(stream[n].packet) = Awaited
      /\ \A k \in 1 .. n : k + 1 <= n
           => Fits(stream[k].generation, Left(stream[k].packet), stream[k + 1])
  BY StreamTypes DEF Joined
<1> HIDE DEF n
<1>2. \A k \in 1 .. n + 1 : Whole(stream'[k].packet)
  <2> SUFFICES ASSUME NEW k \in 1 .. n + 1 PROVE Whole(stream'[k].packet)
    OBVIOUS
  <2>1. k \in 1 .. n \/ k = n + 1
    BY <1>1
  <2> QED
    BY <1>1, <1>j, <2>1
<1>3. Fits(decoding, assembly, stream'[1])
  <2>1. CASE n = 0
    BY <1>1, <1>j, <2>1
  <2>2. CASE n # 0
    BY <1>1, <1>j, <2>2
  <2> QED
    BY <2>1, <2>2
<1>4. \A k \in 1 .. n + 1 : k + 1 <= n + 1
        => Fits(stream'[k].generation, Left(stream'[k].packet), stream'[k + 1])
  <2> SUFFICES ASSUME NEW k \in 1 .. n PROVE Fits(stream'[k].generation, Left(stream'[k].packet),
  stream'[k + 1])
    BY <1>1
  <2>1. CASE k = n
    <3>1. n # 0 /\ stream'[k + 1] = m /\ stream'[k] = stream[n]
      BY <1>1, <2>1
    <3> QED
      BY <1>j, <3>1
  <2>2. CASE k # n
    <3>1. k + 1 <= n /\ k + 1 \in 1 .. n /\ stream'[k + 1] = stream[k + 1] /\ stream'[k] = stream[k]
      BY <1>1, <2>2
    <3> QED
      BY <1>j, <3>1
  <2> QED
    BY <2>1, <2>2
<1>5. stream'[n + 1].generation = generation' /\ Left(stream'[n + 1].packet) = Awaited'
  BY <1>1
<1>6. decoding' = decoding /\ assembly' = assembly
  OBVIOUS
<1> QED
  BY <1>1, <1>2, <1>3, <1>4, <1>5, <1>6 DEF Joined

LEMMA TakeJoins ==
    ASSUME Video!ConstantsAssumption, Video!TypeOK, Joined, stream # << >>, stream' = Tail(stream),
           UNCHANGED << generation, sending >>,
           decoding' = stream[1].generation, assembly' = Left(stream[1].packet)
    PROVE  Joined'
<1> DEFINE n == Len(stream)
<1>1. /\ Len(stream') = n - 1 /\ n \in Nat \ {0}
      /\ \A k \in 1 .. n - 1 : stream'[k] = stream[k + 1]
      /\ stream' = << >> <=> n = 1
  BY Taken
<1>j. /\ Whole(sending)
      /\ \A k \in 1 .. n : Whole(stream[k].packet)
      /\ stream[n].generation = generation
      /\ Left(stream[n].packet) = Awaited
      /\ \A k \in 1 .. n : k + 1 <= n
           => Fits(stream[k].generation, Left(stream[k].packet), stream[k + 1])
  BY DEF Joined
<1> HIDE DEF n
<1>2. \A k \in 1 .. n - 1 : Whole(stream'[k].packet)
  BY <1>1, <1>j
<1>3. n # 1 => Fits(decoding', assembly', stream'[1])
  BY <1>1, <1>j
<1>4. n # 1 => stream'[n - 1].generation = generation /\ Left(stream'[n - 1].packet) = Awaited
  <2> SUFFICES ASSUME n # 1 PROVE stream'[n - 1] = stream[n]
    BY <1>j
  <2> QED
    BY <1>1
<1>5. \A k \in 1 .. n - 1 : k + 1 <= n - 1
        => Fits(stream'[k].generation, Left(stream'[k].packet), stream'[k + 1])
  <2> SUFFICES ASSUME NEW k \in 1 .. n - 1, k + 1 <= n - 1
               PROVE Fits(stream'[k].generation, Left(stream'[k].packet), stream'[k + 1])
    OBVIOUS
  <2>1. k + 1 \in 1 .. n /\ (k + 1) + 1 <= n /\ stream'[k] = stream[k + 1]
          /\ stream'[k + 1] = stream[(k + 1) + 1]
    BY <1>1
  <2> QED
    BY <1>j, <2>1
<1>6. n = 1 => decoding' = generation /\ assembly' = Awaited
  BY <1>j
<1>7. Awaited' = Awaited /\ generation' = generation /\ sending' = sending
  BY DEF Awaited
<1> QED
  BY <1>1, <1>2, <1>3, <1>4, <1>5, <1>6, <1>7, <1>j DEF Joined

\* The next fragment of the frame that is being sent, or a new Format
LEMMA AppendRanks ==
    ASSUME Video!ConstantsAssumption, Video!TypeOK, Joined, Ranked, NEW m \in Video!Message,
           stream' = Append(stream, m),
           UNCHANGED << decoding, decoded, produced >>,
           m.packet # Video!NoPacket => sending # Video!NoPacket /\ m.generation = generation
             /\ m.packet = sending,
           Start' = IF m.packet = Video!NoPacket THEN 1 ELSE Start + Ends(m.packet),
           sending' # Video!NoPacket
             => IsPicture(generation', Len(produced'[generation']), sending'.picture),
           generation' >= generation, generation' \in Nat
    PROVE  Ranked'
<1> DEFINE n == Len(stream)
           new == IF m.packet = Video!NoPacket THEN 0 ELSE Start
<1>1. /\ stream' # << >> /\ Len(stream') = n + 1 /\ n \in Nat
      /\ \A k \in 1 .. n : stream'[k] = stream[k]
      /\ stream'[n + 1] = m
  BY Appended
<1>2. PICK r : Ranks(r)
  BY DEF Ranked
<1>r. /\ \A k \in 1 .. n :
          /\ r[k] \in Nat
          /\ stream[k].packet = Video!NoPacket => r[k] = 0
          /\ stream[k].packet # Video!NoPacket
               => IsPicture(stream[k].generation, r[k], stream[k].packet.picture)
          /\ k + 1 <= n /\ stream[k + 1].packet # Video!NoPacket
               => r[k + 1] = r[k] + Ends(stream[k].packet)
      /\ n # 0 => /\ stream[1].packet # Video!NoPacket => r[1] = Len(decoded[decoding]) + 1
                  /\ r[n] + Ends(stream[n].packet) = Start
  BY <1>2, StreamTypes DEF Ranks
<1>3. m.packet # Video!NoPacket => /\ Start = Len(produced[generation]) /\ Start \in Nat
                                   /\ IsPicture(generation, Start, m.packet.picture)
  BY StreamTypes DEF Start, Ranked
<1>4. n = 0 => decoding = generation /\ Start = Len(decoded[generation]) + 1
  BY StreamTypes DEF Joined, Ranked
<1>p. \A g, i, p : IsPicture(g, i, p) => IsPicture(g, i, p)'
  BY DEF IsPicture
<1> HIDE DEF n, new
<1>q. PICK q : q = [k \in 1 .. n + 1 |-> IF k = n + 1 THEN new ELSE r[k]]
  OBVIOUS
<1>5. (\A k \in 1 .. n : q[k] = r[k]) /\ q[n + 1] = new
  BY <1>1, <1>q
<1>6. new \in Nat /\ (m.packet = Video!NoPacket => new = 0)
        /\ (m.packet # Video!NoPacket => new = Start)
  BY <1>3 DEF new
<1>7. ASSUME NEW k \in 1 .. n + 1
      PROVE  /\ q[k] \in Nat
             /\ stream'[k].packet = Video!NoPacket => q[k] = 0
             /\ stream'[k].packet # Video!NoPacket
                  => IsPicture(stream'[k].generation, q[k], stream'[k].packet.picture)
  <2>1. CASE k = n + 1
    BY <1>1, <1>3, <1>5, <1>6, <2>1
  <2>2. CASE k # n + 1
    <3>1. k \in 1 .. n /\ stream'[k] = stream[k] /\ q[k] = r[k]
      BY <1>1, <1>5, <2>2
    <3> QED
      BY <1>r, <3>1
  <2> QED
    BY <2>1, <2>2
<1>8. ASSUME NEW k \in 1 .. n + 1, k + 1 <= n + 1, stream'[k + 1].packet # Video!NoPacket
      PROVE  q[k + 1] = q[k] + Ends(stream'[k].packet)
  <2>0. k \in 1 .. n /\ stream'[k] = stream[k] /\ q[k] = r[k]
    BY <1>1, <1>5, <1>8
  <2>1. CASE k = n
    <3>1. n # 0 /\ stream'[k + 1] = m /\ q[k + 1] = new /\ stream'[k] = stream[n] /\ q[k] = r[n]
      BY <1>1, <1>5, <2>0, <2>1
    <3>2. r[n] + Ends(stream[n].packet) = Start
      BY <1>r, <3>1
    <3> QED
      BY <1>6, <1>8, <3>1, <3>2
  <2>2. CASE k # n
    <3>1. k + 1 \in 1 .. n /\ k + 1 <= n /\ stream'[k + 1] = stream[k + 1] /\ q[k + 1] = r[k + 1]
      BY <1>1, <1>5, <2>0, <2>2
    <3> QED
      BY <1>8, <1>r, <2>0, <3>1
  <2> QED
    BY <2>1, <2>2
<1>9. stream'[1].packet # Video!NoPacket => q[1] = Len(decoded[decoding]) + 1
  <2>1. CASE n = 0
    <3>1. stream'[1] = m /\ q[1] = new
      BY <1>1, <1>5, <2>1
    <3> QED
      BY <1>4, <1>6, <2>1, <3>1
  <2>2. CASE n # 0
    <3>1. 1 \in 1 .. n /\ stream'[1] = stream[1] /\ q[1] = r[1]
      BY <1>1, <1>5, <2>2
    <3> QED
      BY <1>r, <2>2, <3>1
  <2> QED
    BY <2>1, <2>2
<1>10. q[n + 1] + Ends(stream'[n + 1].packet) = Start'
  <2>1. CASE m.packet = Video!NoPacket
    BY <1>1, <1>5, <1>6, <2>1 DEF Ends
  <2>2. CASE m.packet # Video!NoPacket
    BY <1>1, <1>5, <1>6, <2>2
  <2> QED
    BY <2>1, <2>2
<1>11. decoded' = decoded /\ decoding' = decoding /\ produced' = produced
  OBVIOUS
<1>12. Ranks(q)'
  <2>1. \A k \in 1 .. n + 1 :
          /\ q[k] \in Nat
          /\ stream'[k].packet = Video!NoPacket => q[k] = 0
          /\ stream'[k].packet # Video!NoPacket
               => IsPicture(stream'[k].generation, q[k], stream'[k].packet.picture)
          /\ k + 1 <= n + 1 /\ stream'[k + 1].packet # Video!NoPacket
               => q[k + 1] = q[k] + Ends(stream'[k].packet)
    BY <1>7, <1>8
  <2> QED
    BY <1>1, <1>9, <1>10, <1>11, <2>1 DEF Ranks, IsPicture
<1>13. \A g \in Video!Generations : /\ g > generation' => produced[g] = << >>
                                    /\ g > decoding => decoded[g] = << >>
  <2>1. \A g \in Video!Generations : /\ g > generation => produced[g] = << >>
                                     /\ g > decoding => decoded[g] = << >>
    BY DEF Ranked
  <2>2. generation \in Nat /\ \A g \in Video!Generations : g \in Nat
    BY StreamTypes
  <2> QED
    BY <2>1, <2>2
<1> QED
  BY <1>1, <1>11, <1>12, <1>13 DEF Ranked, IsPicture

\* What the viewer takes: the frame it has decoded, or a part of the next one
LEMMA TakeRanks ==
    ASSUME Video!ConstantsAssumption, Video!TypeOK, Joined, Ranked, stream # << >>,
           stream' = Tail(stream),
           UNCHANGED << generation, sending, produced >>,
           decoding' = stream[1].generation, decoding' >= decoding, decoding' \in Nat,
           \A r : Ranks(r) => r[1] + Ends(stream[1].packet) = Len(decoded'[decoding']) + 1,
           \A g \in Video!Generations : g > decoding' => decoded'[g] = << >>
    PROVE  Ranked'
<1> DEFINE n == Len(stream)
<1>1. /\ Len(stream') = n - 1 /\ n \in Nat \ {0}
      /\ \A k \in 1 .. n - 1 : stream'[k] = stream[k + 1]
      /\ stream' = << >> <=> n = 1
  BY Taken
<1>2. PICK r : Ranks(r)
  BY DEF Ranked
<1>r. /\ \A k \in 1 .. n :
          /\ r[k] \in Nat
          /\ stream[k].packet = Video!NoPacket => r[k] = 0
          /\ stream[k].packet # Video!NoPacket
               => IsPicture(stream[k].generation, r[k], stream[k].packet.picture)
          /\ k + 1 <= n /\ stream[k + 1].packet # Video!NoPacket
               => r[k + 1] = r[k] + Ends(stream[k].packet)
      /\ r[n] + Ends(stream[n].packet) = Start
  BY <1>2 DEF Ranks
<1>3. r[1] + Ends(stream[1].packet) = Len(decoded'[decoding']) + 1
  BY <1>2
<1>4. stream[n].generation = generation
  BY DEF Joined
<1> HIDE DEF n
<1>q. PICK q : q = [k \in 1 .. n - 1 |-> r[k + 1]]
  OBVIOUS
<1>5. \A k \in 1 .. n - 1 : q[k] = r[k + 1] /\ k + 1 \in 1 .. n
  BY <1>1, <1>q
<1>6. \A k \in 1 .. n - 1 :
          /\ q[k] \in Nat
          /\ stream'[k].packet = Video!NoPacket => q[k] = 0
          /\ stream'[k].packet # Video!NoPacket
               => IsPicture(stream'[k].generation, q[k], stream'[k].packet.picture)
          /\ k + 1 <= n - 1 /\ stream'[k + 1].packet # Video!NoPacket
               => q[k + 1] = q[k] + Ends(stream'[k].packet)
  <2> SUFFICES ASSUME NEW k \in 1 .. n - 1
               PROVE  /\ q[k] \in Nat
                      /\ stream'[k].packet = Video!NoPacket => q[k] = 0
                      /\ stream'[k].packet # Video!NoPacket
                           => IsPicture(stream'[k].generation, q[k], stream'[k].packet.picture)
                      /\ k + 1 <= n - 1 /\ stream'[k + 1].packet # Video!NoPacket
                           => q[k + 1] = q[k] + Ends(stream'[k].packet)
    OBVIOUS
  <2>1. stream'[k] = stream[k + 1] /\ q[k] = r[k + 1] /\ k + 1 \in 1 .. n
    BY <1>1, <1>5
  <2>2. k + 1 <= n - 1 => stream'[k + 1] = stream[(k + 1) + 1] /\ q[k + 1] = r[(k + 1) + 1]
          /\ (k + 1) + 1 <= n
    BY <1>1, <1>5
  <2> QED
    BY <1>r, <2>1, <2>2
<1>7. n # 1 => /\ stream'[1].packet # Video!NoPacket => q[1] = Len(decoded'[decoding']) + 1
               /\ q[n - 1] + Ends(stream'[n - 1].packet) = Start
  <2> SUFFICES ASSUME n # 1
               PROVE  /\ stream'[1].packet # Video!NoPacket => q[1] = Len(decoded'[decoding']) + 1
                      /\ q[n - 1] + Ends(stream'[n - 1].packet) = Start
    OBVIOUS
  <2>1. stream'[1] = stream[2] /\ q[1] = r[2] /\ stream'[n - 1] = stream[n] /\ q[n - 1] = r[n]
    BY <1>1, <1>5
  <2>2. 1 \in 1 .. n /\ 1 + 1 <= n /\ 1 + 1 = 2
    BY <1>1
  <2>3. stream[1 + 1].packet # Video!NoPacket => r[1 + 1] = r[1] + Ends(stream[1].packet)
    BY <1>r, <2>2
  <2> QED
    BY <1>3, <1>r, <2>1, <2>2, <2>3
<1>8. Start' = Start /\ produced' = produced /\ generation' = generation /\ sending' = sending
  BY DEF Start
<1>9. n = 1 => Start = Len(decoded'[generation]) + 1
  BY <1>3, <1>4, <1>r
<1>10. stream' # << >> <=> n # 1
  BY <1>1
<1>11. Ranks(q)'
  BY <1>1, <1>6, <1>7, <1>8, <1>10 DEF Ranks, IsPicture
<1>12. \A g \in Video!Generations : g > generation => produced[g] = << >>
  BY DEF Ranked
<1>13. sending # Video!NoPacket => IsPicture(generation, Len(produced[generation]), sending.picture)
  BY DEF Ranked
<1> QED
  BY <1>8, <1>9, <1>10, <1>11, <1>12, <1>13 DEF Ranked, IsPicture

-----------------------------------------------------------------------------
(* The actions of the stream *)

LEMMA ReferencesStay ==
    Video!ReferencesComplete /\ UNCHANGED << produced, decoded >> => Video!ReferencesComplete'
  BY DEF Video!ReferencesComplete

LEMMA SendFragmentKeeps ==
    ASSUME Video!ConstantsAssumption, Video!TypeOK, StreamInv, Video!SendFragment
    PROVE  StreamInv'
<1> DEFINE m == [generation |-> generation, packet |-> sending]
<1>1. /\ sending # Video!NoPacket /\ stream' = Append(stream, m)
      /\ sending' = IF sending.at + 1 = sending.size THEN Video!NoPacket
           ELSE [sending EXCEPT !.at = @ + 1]
      /\ UNCHANGED << generation, produced, decoding, assembly, decoded >>
  BY DEF Video!SendFragment, Video!viewer
<1>2. sending \in Video!Packet /\ sending.at < sending.size /\ Whole(sending)
  BY <1>1 DEF Video!TypeOK, StreamInv, Joined, Whole
<1>3. sending.at \in Nat /\ sending.size \in Nat
  BY <1>2, FragmentTypes
<1>4. m \in Video!Message /\ m.packet = sending /\ m.generation = generation
  BY <1>2 DEF Video!Message, Video!TypeOK
<1> HIDE DEF m
<1>5. Left(sending) = sending' /\ (Video!Complete(sending) <=> sending' = Video!NoPacket)
  <2> DEFINE h == [sending EXCEPT !.at = @ + 1]
  <2>1. h # Video!NoPacket
    <3>1. h.picture = sending.picture
      BY <1>2 DEF Video!Packet
    <3> HIDE DEF h
    <3>2. sending.picture \in Nat /\ sending.picture >= 1
      BY <1>2, FragmentTypes
    <3> QED
      BY <3>1, <3>2, NoPacketIs
  <2> QED
    BY <1>1, <2>1 DEF Left, Video!Complete
<1>6. Whole(sending')
        /\ (sending' # Video!NoPacket => sending'.at # 0 /\ sending'.picture = sending.picture)
  <2>1. CASE Video!Complete(sending)
    BY <1>5, <2>1 DEF Whole
  <2>2. CASE ~Video!Complete(sending)
    <3>1. sending' = [sending EXCEPT !.at = @ + 1]
      BY <1>1, <2>2 DEF Video!Complete
    <3>2. sending'.at = sending.at + 1 /\ sending'.size = sending.size
            /\ sending'.picture = sending.picture
      BY <1>2, <3>1 DEF Video!Packet
    <3> QED
      BY <1>2, <1>3, <2>2, <3>2 DEF Whole, Video!Complete
  <2> QED
    BY <2>1, <2>2
<1>7. Awaited' = sending'
  BY <1>6, NoPacketIs DEF Awaited
<1>8. Fits(generation, Awaited, m)
  BY <1>1, <1>4 DEF Fits, Awaited
<1>9. Joined'
  BY <1>1, <1>2, <1>4, <1>5, <1>6, <1>7, <1>8, AppendJoins DEF StreamInv
<1>10. Len(produced[generation]) \in Nat
  BY StreamTypes
<1>11. Start' = Start + Ends(sending)
  <2>1. Start = Len(produced[generation])
    BY <1>1 DEF Start
  <2>2. Start' = IF sending' = Video!NoPacket THEN Len(produced[generation]) + 1
          ELSE Len(produced[generation])
    BY <1>1 DEF Start
  <2>3. Ends(sending) = IF sending' = Video!NoPacket THEN 1 ELSE 0
    BY <1>1, <1>5 DEF Ends
  <2>4. CASE sending' = Video!NoPacket
    BY <1>10, <2>1, <2>2, <2>3, <2>4
  <2>5. CASE sending' # Video!NoPacket
    <3>1. Start' = Len(produced[generation]) /\ Ends(sending) = 0
      BY <2>2, <2>3, <2>5
    <3> QED
      BY <1>10, <2>1, <3>1
  <2> QED
    BY <2>4, <2>5
<1>12. sending' # Video!NoPacket
         => IsPicture(generation', Len(produced'[generation']), sending'.picture)
  BY <1>1, <1>6 DEF StreamInv, Ranked
<1>13. Ranked'
  <2>1. generation' >= generation /\ generation' \in Nat
    BY <1>1, StreamTypes
  <2> QED
    BY <1>1, <1>4, <1>11, <1>12, <2>1, AppendRanks DEF StreamInv
<1> QED
  BY <1>1, <1>9, <1>13, ReferencesStay DEF StreamInv

\* A generation is left to switch to
RoomToSwitch == switching # None => generation < MaxGeneration

LEMMA SwitchKeeps ==
    ASSUME Video!ConstantsAssumption, Video!TypeOK, StreamInv, RoomToSwitch, Video!Switch
    PROVE  StreamInv'
<1> DEFINE m == Video!Format(generation + 1)
<1>1. /\ sending = Video!NoPacket /\ stream' = Append(stream, m) /\ generation' = generation + 1
      /\ UNCHANGED << sending, produced, decoding, assembly, decoded >> /\ switching # None
  BY DEF Video!Switch, Video!Running, Video!viewer
<1>2. generation \in Nat /\ generation >= 1 /\ generation < MaxGeneration /\ MaxGeneration \in Nat
  BY <1>1, StreamTypes DEF RoomToSwitch, Video!ConstantsAssumption
<1>3. generation + 1 \in Video!Generations
  BY <1>2 DEF Video!Generations
<1>4. m \in Video!Message /\ m.packet = Video!NoPacket /\ m.generation = generation + 1
  BY <1>3 DEF Video!Format, Video!Message
<1> HIDE DEF m
<1>5. Awaited = Video!NoPacket /\ Awaited' = Video!NoPacket /\ Left(m.packet) = Video!NoPacket
        /\ Whole(m.packet) /\ Whole(sending')
  BY <1>1, <1>4, NoPacketIs DEF Awaited, Left, Whole
<1>6. Fits(generation, Awaited, m)
  BY <1>4, <1>5 DEF Fits
<1>7. Joined'
  BY <1>1, <1>4, <1>5, <1>6, AppendJoins DEF StreamInv
<1>8. produced[generation + 1] = << >>
  BY <1>2, <1>3 DEF StreamInv, Ranked
<1>9. Start' = 1
  BY <1>1, <1>8 DEF Start
<1>10. Ranked'
  BY <1>1, <1>2, <1>4, <1>9, AppendRanks DEF StreamInv
<1> QED
  BY <1>1, <1>7, <1>10, ReferencesStay DEF StreamInv

LEMMA YieldKeepsStream ==
    ASSUME Video!ConstantsAssumption, Video!TypeOK, StreamInv, Video!Yield
    PROVE  StreamInv'
<1>1. PICK size \in Video!Sizes : /\ sending' = [picture |-> Head(encoder), size |-> size, at |-> 0]
                                  /\ produced' = [produced EXCEPT ![generation] = Append(@,
                                     Head(encoder))]
  BY DEF Video!Yield
<1>2. /\ sending = Video!NoPacket /\ encoder # << >>
      /\ UNCHANGED << generation, stream, decoding, assembly, decoded >>
  BY DEF Video!Yield, Video!Running, Video!viewer
<1> DEFINE p == Head(encoder)
<1>3. p \in Video!Pictures
  <2>1. encoder \in Seq(Video!Pictures)
    BY DEF Video!TypeOK
  <2> QED
    BY <1>2, <2>1
<1>4. p \in Nat /\ p >= 1 /\ size \in Nat /\ size >= 1
  <2>1. MaxPictures \in Nat /\ MaxSize \in Nat
    BY DEF Video!ConstantsAssumption
  <2>2. size \in 1 .. MaxSize /\ p \in 1 .. MaxPictures
    BY <1>3 DEF Video!Sizes, Video!Pictures
  <2> HIDE DEF p
  <2> QED
    BY <2>1, <2>2
<1> HIDE DEF p
<1>5. sending'.picture = p /\ sending'.at = 0 /\ sending'.size = size /\ sending' # Video!NoPacket
  BY <1>1, <1>4, NoPacketIs DEF p
<1>6. Awaited = Video!NoPacket /\ Awaited' = Video!NoPacket /\ Whole(sending')
  BY <1>2, <1>4, <1>5, NoPacketIs DEF Awaited, Whole
<1>7. Joined'
  BY <1>2, <1>6 DEF StreamInv, Joined, Fits
<1>8. /\ generation \in Video!Generations /\ produced \in [Video!Generations -> Seq(Video!Pictures)]
      /\ produced[generation] \in Seq(Video!Pictures)
  BY StreamTypes
<1>9. /\ produced'[generation] = Append(produced[generation], p)
      /\ \A g \in Video!Generations \ {generation} : produced'[g] = produced[g]
      /\ DOMAIN produced' = Video!Generations
  BY <1>1, <1>8 DEF p
<1>10. /\ Len(produced'[generation]) = Len(produced[generation]) + 1
            /\ Len(produced[generation]) \in Nat
       /\ \A i \in 1 .. Len(produced[generation]) :
            produced'[generation][i] = produced[generation][i]
       /\ produced'[generation][Len(produced[generation]) + 1] = p
  BY <1>3, <1>8, <1>9
<1>11. ASSUME NEW g \in Video!Generations, NEW i, NEW q, IsPicture(g, i, q)
       PROVE  i \in 1 .. Len(produced'[g]) /\ produced'[g][i] = q
  <2>1. CASE g = generation
    BY <1>10, <1>11, <2>1 DEF IsPicture
  <2>2. CASE g # generation
    BY <1>9, <1>11, <2>2 DEF IsPicture
  <2> QED
    BY <2>1, <2>2
<1>12. Start' = Start
  BY <1>2, <1>5, <1>10 DEF Start
<1>13. PICK r : Ranks(r)
  BY DEF StreamInv, Ranked
<1>14. \A k \in 1 .. Len(stream) : stream[k].generation \in Video!Generations
  BY StreamTypes DEF Video!Message
<1>15. Ranks(r)'
  <2>1. \A k \in 1 .. Len(stream) :
          /\ r[k] \in Nat
          /\ stream[k].packet = Video!NoPacket => r[k] = 0
          /\ k + 1 <= Len(stream) /\ stream[k + 1].packet # Video!NoPacket
               => r[k + 1] = r[k] + Ends(stream[k].packet)
    BY <1>13 DEF Ranks
  <2>2. ASSUME NEW k \in 1 .. Len(stream), stream[k].packet # Video!NoPacket
        PROVE  IsPicture(stream[k].generation, r[k], stream[k].packet.picture)'
    <3>1. IsPicture(stream[k].generation, r[k], stream[k].packet.picture)
      BY <1>13, <2>2 DEF Ranks
    <3> QED
      BY <1>2, <1>11, <1>14, <3>1 DEF IsPicture
  <2>3. stream # << >> => /\ stream[1].packet # Video!NoPacket => r[1] = Len(decoded[decoding]) + 1
                          /\ r[Len(stream)] + Ends(stream[Len(stream)].packet) = Start'
    BY <1>12, <1>13 DEF Ranks
  <2>4. stream' = stream /\ decoding' = decoding /\ decoded' = decoded
    BY <1>2
  <2> QED
    BY <2>1, <2>2, <2>3, <2>4 DEF Ranks
<1>16. IsPicture(generation, Len(produced[generation]), sending.picture)'
  BY <1>2, <1>5, <1>10 DEF IsPicture
<1>17. \A g \in Video!Generations : /\ g > generation => produced'[g] = << >>
                                    /\ g > decoding => decoded[g] = << >>
  BY <1>8, <1>9, StreamTypes DEF StreamInv, Ranked
<1>18. Ranked'
  BY <1>2, <1>12, <1>15, <1>16, <1>17 DEF StreamInv, Ranked
<1>19. Video!ReferencesComplete'
  <2> SUFFICES ASSUME NEW g \in Video!Generations
               PROVE  /\ Len(decoded[g]) <= Len(produced'[g])
                      /\ \A k \in DOMAIN decoded[g] : decoded[g][k] = produced'[g][k]
    BY <1>2 DEF Video!ReferencesComplete
  <2>1. decoded[g] \in Seq(Video!Pictures) /\ Len(decoded[g]) \in Nat
          /\ DOMAIN decoded[g] = 1 .. Len(decoded[g])
    BY StreamTypes
  <2>2. /\ Len(decoded[g]) <= Len(produced[g])
        /\ \A k \in 1 .. Len(decoded[g]) : decoded[g][k] = produced[g][k]
    BY <2>1 DEF StreamInv, Video!ReferencesComplete
  <2>3. CASE g = generation
    BY <1>10, <2>1, <2>2, <2>3
  <2>4. CASE g # generation
    BY <1>9, <2>1, <2>2, <2>4
  <2> QED
    BY <2>3, <2>4
<1> QED
  BY <1>7, <1>18, <1>19 DEF StreamInv

LEMMA HeadFits ==
    ASSUME Video!ConstantsAssumption, Video!TypeOK, StreamInv, stream # << >>
    PROVE  /\ Head(stream) = stream[1] /\ stream[1] \in Video!Message
           /\ Fits(decoding, assembly, stream[1]) /\ Whole(stream[1].packet)
           /\ Len(stream) \in Nat \ {0}
           /\ stream[1].generation \in Video!Generations /\ stream[1].generation \in Nat
                /\ decoding \in Nat
           /\ stream[1].packet # Video!NoPacket => stream[1].packet \in Video!Packet
<1>1. stream \in Seq(Video!Message)
  BY StreamTypes
<1>2. Head(stream) = stream[1] /\ stream[1] \in Video!Message /\ Len(stream) \in Nat \ {0}
  BY <1>1
<1>3. Fits(decoding, assembly, stream[1])
  BY DEF StreamInv, Joined
<1>4. Whole(stream[1].packet)
  BY <1>2 DEF StreamInv, Joined
<1>5. stream[1].generation \in Video!Generations
        /\ stream[1].packet \in Video!Packet \cup {Video!NoPacket}
  BY <1>2 DEF Video!Message
<1> QED
  BY <1>2, <1>3, <1>4, <1>5, StreamTypes

LEMMA TakeFormatKeeps ==
    ASSUME Video!ConstantsAssumption, Video!TypeOK, StreamInv, Video!TakeFormat
    PROVE  StreamInv'
<1>1. /\ stream # << >> /\ stream' = Tail(stream) /\ Head(stream).packet = Video!NoPacket
      /\ decoding' = Head(stream).generation /\ assembly' = Video!NoPacket
      /\ UNCHANGED << generation, sending, produced, decoded >>
  BY DEF Video!TakeFormat, Video!host
<1>2. /\ Head(stream) = stream[1] /\ Fits(decoding, assembly, stream[1])
           /\ Len(stream) \in Nat \ {0}
      /\ stream[1].generation \in Video!Generations /\ stream[1].generation \in Nat
           /\ decoding \in Nat
  BY <1>1, HeadFits
<1>3. stream[1].packet = Video!NoPacket /\ decoding' = stream[1].generation
        /\ stream[1].generation = decoding + 1
  BY <1>1, <1>2 DEF Fits
<1>4. assembly' = Left(stream[1].packet)
  BY <1>1, <1>3 DEF Left
<1>5. Joined'
  BY <1>1, <1>3, <1>4, TakeJoins DEF StreamInv
<1>6. \A g \in Video!Generations : g > decoding => decoded[g] = << >>
  BY DEF StreamInv, Ranked
<1>7. decoded[decoding'] = << >>
  BY <1>2, <1>3, <1>6
<1>8. \A r : Ranks(r) => r[1] + Ends(stream[1].packet) = Len(decoded'[decoding']) + 1
  BY <1>1, <1>2, <1>3, <1>7 DEF Ranks, Ends
<1>9. \A g \in Video!Generations : g > decoding' => decoded'[g] = << >>
  <2>1. \A g \in Video!Generations : g \in Nat
    BY StreamTypes
  <2> QED
    BY <1>1, <1>2, <1>3, <1>6, <2>1
<1>10. Ranked'
  <2>1. decoding' >= decoding /\ decoding' \in Nat
    BY <1>2, <1>3
  <2> QED
    BY <1>1, <1>3, <1>8, <1>9, <2>1, TakeRanks DEF StreamInv
<1> QED
  BY <1>1, <1>5, <1>10, ReferencesStay DEF StreamInv

LEMMA TakeFragmentKeeps ==
    ASSUME Video!ConstantsAssumption, Video!TypeOK, StreamInv, Video!TakeFragment
    PROVE  StreamInv'
<1>1. /\ stream # << >> /\ stream' = Tail(stream) /\ Head(stream).packet # Video!NoPacket
      /\ ~Video!Complete(Head(stream).packet)
      /\ assembly' = [Head(stream).packet EXCEPT !.at = @ + 1]
      /\ UNCHANGED << generation, sending, produced, decoding, decoded >>
  BY DEF Video!TakeFragment, Video!host
<1>2. /\ Head(stream) = stream[1] /\ Fits(decoding, assembly, stream[1])
           /\ Len(stream) \in Nat \ {0}
      /\ decoding \in Nat
  BY <1>1, HeadFits
<1>3. stream[1].packet # Video!NoPacket /\ decoding' = stream[1].generation
  BY <1>1, <1>2 DEF Fits
<1>4. assembly' = Left(stream[1].packet) /\ Ends(stream[1].packet) = 0
  BY <1>1, <1>2 DEF Left, Ends
<1>5. Joined'
  BY <1>1, <1>3, <1>4, TakeJoins DEF StreamInv
<1>6. \A r : Ranks(r) => r[1] \in Nat /\ r[1] = Len(decoded[decoding]) + 1
  BY <1>1, <1>2, <1>3 DEF Ranks
<1>7. \A r : Ranks(r) => r[1] + Ends(stream[1].packet) = Len(decoded'[decoding']) + 1
  BY <1>1, <1>4, <1>6
<1>8. \A g \in Video!Generations : g > decoding' => decoded'[g] = << >>
  BY <1>1 DEF StreamInv, Ranked
<1>9. Ranked'
  <2>1. decoding' >= decoding /\ decoding' \in Nat
    BY <1>1, <1>2
  <2> QED
    BY <1>1, <1>3, <1>7, <1>8, <2>1, TakeRanks DEF StreamInv
<1> QED
  BY <1>1, <1>5, <1>9, ReferencesStay DEF StreamInv

LEMMA DecodeKeepsStream ==
    ASSUME Video!ConstantsAssumption, Video!TypeOK, StreamInv, Video!Decode
    PROVE  StreamInv'
<1> DEFINE p == stream[1].packet.picture
<1>1. /\ stream # << >> /\ stream' = Tail(stream) /\ Head(stream).packet # Video!NoPacket
      /\ Video!Complete(Head(stream).packet) /\ assembly' = Video!NoPacket
      /\ UNCHANGED << generation, sending, produced, decoding >>
  BY DEF Video!Decode, Video!host
<1>2. /\ Head(stream) = stream[1] /\ Fits(decoding, assembly, stream[1])
           /\ Len(stream) \in Nat \ {0}
      /\ decoding \in Nat /\ stream[1].generation \in Video!Generations
           /\ stream[1].packet \in Video!Packet
  BY <1>1, HeadFits
<1>3. stream[1].packet # Video!NoPacket /\ stream[1].generation = decoding
        /\ decoding \in Video!Generations
  BY <1>1, <1>2 DEF Fits
<1>4. decoded' = [decoded EXCEPT ![decoding] = Append(@, p)]
  BY <1>2 DEF Video!Decode
<1>5. assembly' = Left(stream[1].packet) /\ Ends(stream[1].packet) = 1
  BY <1>1, <1>2 DEF Left, Ends
<1>6. Joined'
  BY <1>1, <1>3, <1>5, TakeJoins DEF StreamInv
<1>7. p \in Video!Pictures
  BY <1>2, FragmentTypes
<1> HIDE DEF p
<1>8. /\ decoded[decoding] \in Seq(Video!Pictures) /\ produced[decoding] \in Seq(Video!Pictures)
      /\ decoded'[decoding] = Append(decoded[decoding], p)
      /\ \A g \in Video!Generations \ {decoding} : decoded'[g] = decoded[g]
  BY <1>3, <1>4, StreamTypes
<1>9. /\ Len(decoded[decoding]) \in Nat /\ Len(produced[decoding]) \in Nat
      /\ Len(decoded'[decoding]) = Len(decoded[decoding]) + 1
      /\ \A k \in 1 .. Len(decoded[decoding]) : decoded'[decoding][k] = decoded[decoding][k]
      /\ decoded'[decoding][Len(decoded[decoding]) + 1] = p
      /\ DOMAIN decoded'[decoding] = 1 .. Len(decoded[decoding]) + 1
      /\ DOMAIN decoded[decoding] = 1 .. Len(decoded[decoding])
  BY <1>7, <1>8
<1>10. \A r : Ranks(r) => /\ r[1] \in Nat /\ r[1] = Len(decoded[decoding]) + 1
                          /\ IsPicture(decoding, r[1], p)
  BY <1>1, <1>2, <1>3 DEF Ranks, p
<1>11. \A r : Ranks(r) => r[1] + Ends(stream[1].packet) = Len(decoded'[decoding']) + 1
  BY <1>1, <1>5, <1>9, <1>10
<1>12. \A g \in Video!Generations : g > decoding' => decoded'[g] = << >>
  <2>1. \A g \in Video!Generations : g > decoding => decoded[g] = << >> /\ g # decoding
    BY <1>2, StreamTypes DEF StreamInv, Ranked
  <2> QED
    BY <1>1, <1>8, <2>1
<1>13. Ranked'
  <2>1. decoding' >= decoding /\ decoding' \in Nat
    BY <1>1, <1>2
  <2>2. decoding' = stream[1].generation
    BY <1>1, <1>3
  <2> QED
    BY <1>1, <1>11, <1>12, <2>1, <2>2, TakeRanks DEF StreamInv
<1>14. PICK r : Ranks(r)
  BY DEF StreamInv, Ranked
<1>15. Len(decoded[decoding]) + 1 <= Len(produced[decoding])
         /\ produced[decoding][Len(decoded[decoding]) + 1] = p
  BY <1>9, <1>10, <1>14 DEF IsPicture
<1>16. Video!ReferencesComplete'
  <2> SUFFICES ASSUME NEW g \in Video!Generations
               PROVE  /\ Len(decoded'[g]) <= Len(produced[g])
                      /\ \A k \in DOMAIN decoded'[g] : decoded'[g][k] = produced[g][k]
    BY <1>1 DEF Video!ReferencesComplete
  <2>1. CASE g = decoding
    <3>1. \A k \in 1 .. Len(decoded[decoding]) : decoded[decoding][k] = produced[decoding][k]
      BY <1>3, <1>9 DEF StreamInv, Video!ReferencesComplete
    <3>2. \A k \in 1 .. Len(decoded[decoding]) + 1 : decoded'[decoding][k] = produced[decoding][k]
      <4> SUFFICES ASSUME NEW k \in 1 .. Len(decoded[decoding]) + 1
                   PROVE  decoded'[decoding][k] = produced[decoding][k]
        OBVIOUS
      <4>1. k \in 1 .. Len(decoded[decoding]) \/ k = Len(decoded[decoding]) + 1
        BY <1>9
      <4> QED
        BY <1>9, <1>15, <3>1, <4>1
    <3> QED
      BY <1>9, <1>15, <2>1, <3>2
  <2>2. CASE g # decoding
    BY <1>8, <2>2 DEF StreamInv, Video!ReferencesComplete
  <2> QED
    BY <2>1, <2>2
<1> QED
  BY <1>6, <1>13, <1>16 DEF StreamInv

-----------------------------------------------------------------------------
(* The bytes of a window *)

\* c[k] are the bytes of the first k frames of s, t those of all
IsTotal(c, s, t) ==
    /\ \A i \in 0 .. Len(s) : c[i] \in Nat
    /\ c[0] = 0 /\ c[Len(s)] = t
    /\ \A i \in 1 .. Len(s) : c[i] = c[i - 1] + s[i].size
    /\ \A i, j \in 0 .. Len(s) : i <= j => c[i] <= c[j]

HasTotal(s, t) == \E c : IsTotal(c, s, t)

LEMMA NoFrames == HasTotal(<< >>, 0)
<1>1. IsTotal([i \in {0} |-> 0], << >>, 0)
  BY DEF IsTotal
<1> QED
  BY <1>1 DEF HasTotal

LEMMA TotalIsNat ==
    ASSUME NEW s, Len(s) \in Nat, NEW t, HasTotal(s, t)
    PROVE  t \in Nat
<1>1. PICK c : IsTotal(c, s, t)
  BY DEF HasTotal
<1> QED
  BY <1>1 DEF IsTotal

\* A frame of which nothing has come out yet
LEMMA OneFrameMore ==
    ASSUME NEW s, NEW u, NEW n \in Nat, NEW t, HasTotal(s, t), Len(s) = n, Len(u) = n + 1,
           \A i \in 1 .. n : u[i] = s[i], u[n + 1].size = 0
    PROVE  HasTotal(u, t)
<1>1. PICK c : IsTotal(c, s, t)
  BY DEF HasTotal
<1>c. /\ \A i \in 0 .. n : c[i] \in Nat
      /\ c[0] = 0 /\ c[n] = t
      /\ \A i \in 1 .. n : c[i] = c[i - 1] + s[i].size
      /\ \A i, j \in 0 .. n : i <= j => c[i] <= c[j]
  BY <1>1 DEF IsTotal
<1> DEFINE d == [i \in 0 .. n + 1 |-> IF i = n + 1 THEN t ELSE c[i]]
<1>2. d[n + 1] = t /\ d[0] = 0 /\ \A i \in 0 .. n : d[i] = c[i]
  BY <1>c
<1> HIDE DEF d
<1>3. \A i \in 0 .. n + 1 : i \in 0 .. n \/ i = n + 1
  OBVIOUS
<1>4. \A i \in 0 .. n + 1 : d[i] \in Nat
  BY <1>2, <1>3, <1>c
<1>5. \A i \in 1 .. n + 1 : d[i] = d[i - 1] + u[i].size
  <2> SUFFICES ASSUME NEW i \in 1 .. n + 1 PROVE d[i] = d[i - 1] + u[i].size
    OBVIOUS
  <2>1. CASE i = n + 1
    <3>1. i - 1 = n /\ d[i - 1] = t /\ t \in Nat /\ u[i].size = 0 /\ d[i] = t
      BY <1>2, <1>c, <2>1
    <3> QED
      BY <3>1
  <2>2. CASE i # n + 1
    <3>1. i \in 1 .. n /\ i - 1 \in 0 .. n /\ i \in 0 .. n
      BY <2>2
    <3> QED
      BY <1>2, <1>c, <3>1
  <2> QED
    BY <2>1, <2>2
<1>6. \A i, j \in 0 .. n + 1 : i <= j => d[i] <= d[j]
  <2> SUFFICES ASSUME NEW i \in 0 .. n + 1, NEW j \in 0 .. n + 1, i <= j PROVE d[i] <= d[j]
    OBVIOUS
  <2>1. CASE j \in 0 .. n
    <3>1. i \in 0 .. n
      BY <2>1
    <3> QED
      BY <1>2, <1>c, <2>1, <3>1
  <2>2. CASE j = n + 1
    <3>1. d[j] = c[n] /\ n \in 0 .. n
      BY <1>2, <1>c, <2>2
    <3>2. CASE i = n + 1
      BY <1>4, <2>2, <3>2
    <3>3. CASE i \in 0 .. n
      BY <1>2, <1>c, <3>1, <3>3
    <3> QED
      BY <1>3, <3>2, <3>3
  <2> QED
    BY <1>3, <2>1, <2>2
<1>7. IsTotal(d, u, t)
  BY <1>2, <1>4, <1>5, <1>6 DEF IsTotal
<1> QED
  BY <1>7 DEF HasTotal

\* Another size of one frame
LEMMA OtherSize ==
    ASSUME NEW s, NEW u, NEW n \in Nat, NEW t, HasTotal(s, t), Len(s) = n, Len(u) = n,
           \A i \in 1 .. n : s[i].size \in Nat,
           NEW k \in 1 .. n, NEW size \in Nat,
           u[k].size = size, \A i \in 1 .. n : i # k => u[i].size = s[i].size
    PROVE  HasTotal(u, t - s[k].size + size)
<1>1. PICK c : IsTotal(c, s, t)
  BY DEF HasTotal
<1>c. /\ \A i \in 0 .. n : c[i] \in Nat
      /\ c[0] = 0 /\ c[n] = t
      /\ \A i \in 1 .. n : c[i] = c[i - 1] + s[i].size
      /\ \A i, j \in 0 .. n : i <= j => c[i] <= c[j]
  BY <1>1 DEF IsTotal
<1> DEFINE d == [i \in 0 .. n |-> IF i < k THEN c[i] ELSE c[i] - s[k].size + size]
<1>2. \A i \in 0 .. n : d[i] = IF i < k THEN c[i] ELSE c[i] - s[k].size + size
  OBVIOUS
<1> HIDE DEF d
<1>3. k - 1 \in 0 .. n /\ k \in 0 .. n /\ c[k] = c[k - 1] + s[k].size /\ c[k - 1] \in Nat
        /\ s[k].size \in Nat
  BY SMTT(30), <1>c
<1>4. \A i \in 0 .. n : i >= k => c[i] \in Nat /\ c[i] >= c[k - 1] + s[k].size
  BY <1>c, <1>3
<1>5. \A i \in 0 .. n : i < k => c[i] \in Nat /\ c[i] <= c[k - 1]
  BY <1>c, <1>3
<1>6. \A i \in 0 .. n : d[i] \in Nat
  <2> SUFFICES ASSUME NEW i \in 0 .. n PROVE d[i] \in Nat
    OBVIOUS
  <2>1. CASE i < k
    <3>1. d[i] = c[i] /\ c[i] \in Nat
      BY <1>2, <1>5, <2>1
    <3> QED
      BY <3>1
  <2>2. CASE i >= k
    <3>1. d[i] = c[i] - s[k].size + size
      BY <1>2, <2>2
    <3>2. c[i] \in Nat /\ c[i] >= c[k - 1] + s[k].size
      BY <1>4, <2>2
    <3> QED
      BY <1>3, <3>1, <3>2
  <2> QED
    BY <2>1, <2>2
<1>7. \A i \in 1 .. n : d[i] = d[i - 1] + u[i].size
  <2> SUFFICES ASSUME NEW i \in 1 .. n PROVE d[i] = d[i - 1] + u[i].size
    OBVIOUS
  <2>1. i \in 0 .. n /\ i - 1 \in 0 .. n /\ c[i] = c[i - 1] + s[i].size /\ c[i] \in Nat
          /\ c[i - 1] \in Nat
        /\ s[i].size \in Nat
    BY <1>c
  <2>2. CASE i < k
    <3>1. d[i] = c[i] /\ d[i - 1] = c[i - 1] /\ u[i].size = s[i].size
      BY <1>2, <2>1, <2>2
    <3> QED
      BY <2>1, <3>1
  <2>3. CASE i = k
    <3>1. d[i] = c[i] - s[k].size + size /\ d[i - 1] = c[i - 1] /\ u[i].size = size
      BY <1>2, <2>1, <2>3
    <3> QED
      BY <1>3, <2>1, <2>3, <3>1
  <2>4. CASE i > k
    <3>1. d[i] = c[i] - s[k].size + size /\ d[i - 1] = c[i - 1] - s[k].size + size
            /\ u[i].size = s[i].size
      BY <1>2, <2>1, <2>4
    <3> QED
      BY <1>3, <2>1, <3>1
  <2> QED
    BY <2>2, <2>3, <2>4
<1>8. \A i, j \in 0 .. n : i <= j => d[i] <= d[j]
  <2> SUFFICES ASSUME NEW i \in 0 .. n, NEW j \in 0 .. n, i <= j PROVE d[i] <= d[j]
    OBVIOUS
  <2>1. c[i] <= c[j] /\ c[i] \in Nat /\ c[j] \in Nat
    BY <1>c
  <2>2. CASE j < k
    BY <1>2, <2>1, <2>2
  <2>3. CASE i < k /\ j >= k
    <3>1. d[i] = c[i] /\ d[j] = c[j] - s[k].size + size /\ c[i] <= c[k - 1]
            /\ c[j] >= c[k - 1] + s[k].size
      BY <1>2, <1>4, <1>5, <2>3
    <3> QED
      BY <1>3, <2>1, <3>1
  <2>4. CASE i >= k
    <3>1. d[i] = c[i] - s[k].size + size /\ d[j] = c[j] - s[k].size + size
      BY <1>2, <2>4
    <3> QED
      BY <1>3, <2>1, <3>1
  <2> QED
    BY <2>2, <2>3, <2>4
<1>9. d[0] = 0 /\ d[n] = t - s[k].size + size
  <2>1. 0 \in 0 .. n /\ n \in 0 .. n /\ 0 < k /\ ~(n < k)
    OBVIOUS
  <2>2. d[0] = c[0]
    BY <1>2, <2>1
  <2>3. d[n] = c[n] - s[k].size + size
    BY <1>2, <2>1
  <2> QED
    BY <1>c, <2>2, <2>3
<1>10. IsTotal(d, u, t - s[k].size + size)
  BY <1>6, <1>7, <1>8, <1>9 DEF IsTotal
<1> QED
  BY <1>10 DEF HasTotal

\* A frame less
LEMMA OneFrameLess ==
    ASSUME NEW s, NEW u, NEW n \in Nat, NEW t, HasTotal(s, t), Len(s) = n, Len(u) = n - 1,
           \A i \in 1 .. n : s[i].size \in Nat,
           NEW k \in 1 .. n,
           \A i \in 1 .. n - 1 : u[i] = IF i < k THEN s[i] ELSE s[i + 1]
    PROVE  HasTotal(u, t - s[k].size)
<1>1. PICK c : IsTotal(c, s, t)
  BY DEF HasTotal
<1>c. /\ \A i \in 0 .. n : c[i] \in Nat
      /\ c[0] = 0 /\ c[n] = t
      /\ \A i \in 1 .. n : c[i] = c[i - 1] + s[i].size
      /\ \A i, j \in 0 .. n : i <= j => c[i] <= c[j]
  BY <1>1 DEF IsTotal
<1> DEFINE d == [i \in 0 .. n - 1 |-> IF i < k THEN c[i] ELSE c[i + 1] - s[k].size]
<1>2. \A i \in 0 .. n - 1 : d[i] = IF i < k THEN c[i] ELSE c[i + 1] - s[k].size
  OBVIOUS
<1> HIDE DEF d
<1>3. k - 1 \in 0 .. n /\ k \in 0 .. n /\ c[k] = c[k - 1] + s[k].size /\ c[k - 1] \in Nat
        /\ s[k].size \in Nat
  BY <1>c
<1>4. \A i \in 0 .. n : i >= k => c[i] \in Nat /\ c[i] >= c[k - 1] + s[k].size
  BY <1>c, <1>3
<1>5. \A i \in 0 .. n : i < k => c[i] \in Nat /\ c[i] <= c[k - 1]
  BY <1>c, <1>3
<1>6. \A i \in 0 .. n - 1 : d[i] \in Nat
  <2> SUFFICES ASSUME NEW i \in 0 .. n - 1 PROVE d[i] \in Nat
    OBVIOUS
  <2>1. CASE i < k
    <3>1. d[i] = c[i] /\ i \in 0 .. n
      BY <1>2, <2>1
    <3> QED
      BY <1>5, <2>1, <3>1
  <2>2. CASE i >= k
    <3>1. i + 1 \in 0 .. n /\ i + 1 >= k
      BY <2>2
    <3>2. d[i] = c[i + 1] - s[k].size /\ c[i + 1] \in Nat /\ c[i + 1] >= c[k - 1] + s[k].size
      BY <1>2, <1>4, <2>2, <3>1
    <3> QED
      BY <1>3, <3>2
  <2> QED
    BY <2>1, <2>2
<1>7. \A i \in 1 .. n - 1 : d[i] = d[i - 1] + u[i].size
  <2> SUFFICES ASSUME NEW i \in 1 .. n - 1 PROVE d[i] = d[i - 1] + u[i].size
    OBVIOUS
  <2>1. /\ i \in 1 .. n /\ i + 1 \in 1 .. n /\ (i + 1) - 1 = i /\ i \in 0 .. n - 1
             /\ i - 1 \in 0 .. n - 1
        /\ c[i] = c[i - 1] + s[i].size /\ c[i + 1] = c[i] + s[i + 1].size
        /\ c[i - 1] \in Nat /\ c[i] \in Nat /\ c[i + 1] \in Nat /\ s[i].size \in Nat
             /\ s[i + 1].size \in Nat
    BY <1>c
  <2>2. CASE i < k
    <3>1. d[i] = c[i] /\ d[i - 1] = c[i - 1] /\ u[i].size = s[i].size
      BY <1>2, <2>1, <2>2
    <3> QED
      BY <2>1, <3>1
  <2>3. CASE i = k
    <3>1. d[i] = c[i + 1] - s[k].size /\ d[i - 1] = c[i - 1] /\ u[i].size = s[i + 1].size
      BY <1>2, <2>1, <2>3
    <3> QED
      BY SMTT(30), <1>3, <2>1, <2>3, <3>1
  <2>4. CASE i > k
    <3>1. d[i] = c[i + 1] - s[k].size
      BY <1>2, <2>1, <2>4
    <3>2. i - 1 >= k /\ (i - 1) + 1 = i /\ ~(i - 1 < k)
      BY <2>4
    <3>3. d[i - 1] = c[(i - 1) + 1] - s[k].size
      BY <1>2, <2>1, <3>2
    <3>4. d[i - 1] = c[i] - s[k].size
      BY <3>2, <3>3
    <3>5. u[i] = s[i + 1]
      BY <2>4
    <3> HIDE DEF d
    <3>6. u[i].size = s[i + 1].size
      BY <3>5
    <3>7. d[i] = (c[i] + s[i + 1].size) - s[k].size
      BY <2>1, <3>1
    <3>8. \A x, y, z \in Nat : (x + y) - z = (x - z) + y
      OBVIOUS
    <3>9. d[i] = (c[i] - s[k].size) + s[i + 1].size
      BY SMTT(30), <1>3, <2>1, <3>7, <3>8
    <3> QED
      BY <3>4, <3>6, <3>9
  <2> QED
    BY <2>2, <2>3, <2>4
<1>8. \A i, j \in 0 .. n - 1 : i <= j => d[i] <= d[j]
  <2> SUFFICES ASSUME NEW i \in 0 .. n - 1, NEW j \in 0 .. n - 1, i <= j PROVE d[i] <= d[j]
    OBVIOUS
  <2>1. /\ i \in 0 .. n /\ j \in 0 .. n /\ i + 1 \in 0 .. n /\ j + 1 \in 0 .. n
        /\ c[i] \in Nat /\ c[j] \in Nat /\ c[i + 1] \in Nat /\ c[j + 1] \in Nat
        /\ c[i] <= c[j] /\ c[i + 1] <= c[j + 1]
    BY <1>c
  <2>2. CASE j < k
    BY <1>2, <2>1, <2>2
  <2>3. CASE i < k /\ j >= k
    <3>1. d[i] = c[i] /\ d[j] = c[j + 1] - s[k].size /\ c[i] <= c[k - 1]
            /\ c[j + 1] >= c[k - 1] + s[k].size
      BY <1>2, <1>4, <1>5, <2>1, <2>3
    <3> QED
      BY <1>3, <2>1, <3>1
  <2>4. CASE i >= k
    <3>1. d[i] = c[i + 1] - s[k].size /\ d[j] = c[j + 1] - s[k].size
      BY <1>2, <2>4
    <3> QED
      BY SMTT(30), <1>3, <2>1, <3>1
  <2> QED
    BY <2>2, <2>3, <2>4
<1>9. d[0] = 0
  <2>1. 0 < k
    OBVIOUS
  <2>2. CASE n - 1 >= 0
    BY <1>2, <1>c, <2>1
  <2> QED
    BY <2>2
<1>10. d[n - 1] = t - s[k].size
  <2>1. CASE k = n
    <3>1. d[n - 1] = c[n - 1] /\ c[n] = c[n - 1] + s[n].size
      BY <1>2, <1>c, <2>1
    <3> QED
      BY <1>3, <1>c, <2>1, <3>1
  <2>2. CASE k < n
    <3>1. d[n - 1] = c[(n - 1) + 1] - s[k].size /\ (n - 1) + 1 = n
      BY <1>2, <2>2
    <3> QED
      BY <1>c, <3>1
  <2> QED
    BY <2>1, <2>2
<1>11. IsTotal(d, u, t - s[k].size)
  BY <1>6, <1>7, <1>8, <1>9, <1>10 DEF IsTotal
<1> QED
  BY <1>11 DEF HasTotal

\* What Counted counts is the total.
LEMMA CountedIsTotal ==
    ASSUME Len(flight) \in Nat, HasTotal(flight, bytes)
    PROVE  bytes = Video!Counted[Len(flight)]
<1> DEFINE n == Len(flight)
           Def(g) == [k \in 0 .. n |-> IF k = 0 THEN 0 ELSE g[k - 1] + flight[k].size]
<1>1. PICK c : IsTotal(c, flight, bytes)
  BY DEF HasTotal
<1>2. c[0] = 0 /\ c[n] = bytes /\ \A i \in 1 .. n : c[i] = c[i - 1] + flight[i].size
  BY <1>1 DEF IsTotal
<1> DEFINE d == [i \in 0 .. n |-> c[i]]
<1>3. \A i \in 0 .. n : d[i] = c[i]
  OBVIOUS
<1>4. d = Def(d)
  BY <1>2
<1>5. Video!Counted = CHOOSE h : h = Def(h)
  BY DEF Video!Counted
<1>6. Video!Counted = Def(Video!Counted)
  <2> HIDE DEF Def, d
  <2> QED
    BY <1>4, <1>5
<1>7. \A k \in 0 .. n : Def(Video!Counted)[k] = IF k = 0 THEN 0
        ELSE Video!Counted[k - 1] + flight[k].size
  OBVIOUS
<1> HIDE DEF Def, d
<1>8. \A k \in 0 .. n : Video!Counted[k] = IF k = 0 THEN 0
        ELSE Video!Counted[k - 1] + flight[k].size
  BY <1>6, <1>7
<1> DEFINE S == { k \in Nat : k <= n => Video!Counted[k] = c[k] }
<1>9. \A k \in Nat : k \in S
  <2>1. 0 \in S
    BY <1>2, <1>8
  <2>2. ASSUME NEW k \in S \cap Nat PROVE k + 1 \in S
    <3>1. CASE k + 1 <= n
      <4>1. k + 1 \in 1 .. n /\ k + 1 \in 0 .. n /\ (k + 1) - 1 = k /\ Video!Counted[k] = c[k]
              /\ k + 1 # 0
        BY <3>1
      <4>2. Video!Counted[k + 1] = Video!Counted[k] + flight[k + 1].size
              /\ c[k + 1] = c[k] + flight[k + 1].size
        BY <1>2, <1>8, <4>1
      <4> QED
        BY <4>1, <4>2
    <3>2. CASE ~(k + 1 <= n)
      BY <3>2
    <3> QED
      BY <3>1, <3>2
  <2> HIDE DEF S
  <2> QED
    BY <2>1, <2>2, Counting
<1> QED
  BY <1>2, <1>9

LEMMA OtherFlags ==
    ASSUME NEW s, NEW u, NEW t, HasTotal(s, t), Len(s) \in Nat, Len(u) = Len(s),
           \A i \in 1 .. Len(s) : u[i].size = s[i].size
    PROVE  HasTotal(u, t)
<1>1. PICK c : IsTotal(c, s, t)
  BY DEF HasTotal
<1>2. IsTotal(c, u, t)
  BY <1>1 DEF IsTotal
<1> QED
  BY <1>2 DEF HasTotal

LEMMA TailPointwise ==
    ASSUME NEW T, NEW s \in Seq(T), s # << >>
    PROVE  /\ Tail(s) \in Seq(T) /\ Len(Tail(s)) = Len(s) - 1 /\ Len(s) \in Nat \ {0}
           /\ DOMAIN s = 1 .. Len(s) /\ DOMAIN Tail(s) = 1 .. Len(s) - 1
           /\ Head(s) = s[1] /\ s[1] \in T
           /\ \A j \in 1 .. Len(s) - 1 : Tail(s)[j] = s[j + 1]
<1>1. Tail(s) \in Seq(T) /\ Len(Tail(s)) = Len(s) - 1 /\ Len(s) \in Nat \ {0}
  OBVIOUS
<1>2. DOMAIN s = 1 .. Len(s) /\ DOMAIN Tail(s) = 1 .. Len(Tail(s))
  BY <1>1
<1>3. \A j \in 1 .. Len(s) - 1 : Tail(s)[j] = s[j + 1]
  OBVIOUS
<1> QED
  BY <1>1, <1>2, <1>3

LEMMA AppendPointwise ==
    ASSUME NEW T, NEW s \in Seq(T), NEW e \in T
    PROVE  /\ Append(s, e) \in Seq(T) /\ Len(Append(s, e)) = Len(s) + 1 /\ Len(s) \in Nat
           /\ DOMAIN s = 1 .. Len(s) /\ DOMAIN Append(s, e) = 1 .. Len(s) + 1
           /\ Append(s, e)[Len(s) + 1] = e
           /\ \A j \in 1 .. Len(s) : Append(s, e)[j] = s[j]
<1>1. Append(s, e) \in Seq(T) /\ Len(Append(s, e)) = Len(s) + 1 /\ Len(s) \in Nat
  OBVIOUS
<1>2. DOMAIN s = 1 .. Len(s) /\ DOMAIN Append(s, e) = 1 .. Len(Append(s, e))
  BY <1>1
<1> QED
  BY <1>1, <1>2

LEMMA RemoveAtPointwise ==
    ASSUME NEW T, NEW s \in Seq(T), NEW k \in 1 .. Len(s)
    PROVE  /\ Video!RemoveAt(s, k) \in Seq(T) /\ Len(Video!RemoveAt(s, k)) = Len(s) - 1
           /\ \A i \in 1 .. Len(s) - 1 : Video!RemoveAt(s, k)[i] = IF i < k THEN s[i] ELSE s[i + 1]
<1> DEFINE n == Len(s)
           a == SubSeq(s, 1, k - 1)
           b == SubSeq(s, k + 1, n)
<1>1. n \in Nat /\ k \in Nat /\ 1 <= k /\ k <= n
  OBVIOUS
<1>2. a \in Seq(T) /\ Len(a) = k - 1 /\ \A i \in 1 .. k - 1 : a[i] = s[i]
  BY <1>1
<1>3. b \in Seq(T) /\ Len(b) = n - k /\ \A i \in 1 .. n - k : b[i] = s[k + i]
  <2>1. \A i \in 1 .. n - k : k + i \in 1 .. n /\ b[i] = s[k + 1 + i - 1]
    BY <1>1
  <2>2. \A i \in 1 .. n - k : k + 1 + i - 1 = k + i
    BY <1>1
  <2>3. b \in Seq(T) /\ Len(b) = n - k
    BY <1>1
  <2> HIDE DEF b
  <2> QED
    BY <2>1, <2>2, <2>3
<1> HIDE DEF a, b, n
<1>4. a \o b \in Seq(T) /\ Len(a \o b) = n - 1
  <2>1. a \o b \in Seq(T) /\ Len(a \o b) = Len(a) + Len(b)
    <3>1. \A x, y \in Seq(T) : x \o y \in Seq(T) /\ Len(x \o y) = Len(x) + Len(y)
      OBVIOUS
    <3>2. a \in Seq(T) /\ b \in Seq(T)
      BY <1>2, <1>3
    <3> QED
      BY <3>1, <3>2
  <2>2. Len(a) + Len(b) = n - 1
    BY <1>1, <1>2, <1>3
  <2> QED
    BY <2>1, <2>2
<1>5. \A i \in 1 .. n - 1 : (a \o b)[i] = IF i < k THEN s[i] ELSE s[i + 1]
  <2> SUFFICES ASSUME NEW i \in 1 .. n - 1 PROVE (a \o b)[i] = IF i < k THEN s[i] ELSE s[i + 1]
    OBVIOUS
  <2>1. (a \o b)[i] = IF i <= Len(a) THEN a[i] ELSE b[i - Len(a)]
    BY <1>1, <1>2, <1>3
  <2>2. CASE i < k
    BY <1>1, <1>2, <2>1, <2>2
  <2>3. CASE i >= k
    <3>1. i - (k - 1) \in 1 .. n - k /\ k + (i - (k - 1)) = i + 1
      BY <1>1, <2>3
    <3>2. (a \o b)[i] = b[i - (k - 1)]
      BY <1>1, <1>2, <2>1, <2>3
    <3>3. b[i - (k - 1)] = s[k + (i - (k - 1))]
      BY <1>3, <3>1
    <3> QED
      BY <1>1, <2>3, <3>1, <3>2, <3>3
  <2>4. i < k \/ i >= k
    BY <1>1
  <2> QED
    BY <2>2, <2>3, <2>4
<1> QED
  BY <1>4, <1>5 DEF Video!RemoveAt, a, b, n

-----------------------------------------------------------------------------
(* The window of the host *)

\* The pictures in the window are in the order they were submitted in
Distinct ==
    \A i \in 1 .. Len(flight) :
        /\ flight[i].picture <= pictures
        /\ \A j \in 1 .. Len(flight) : i < j => flight[i].picture < flight[j].picture

Underway(p) ==
    \/ \E j \in DOMAIN encoder : encoder[j] = p
    \/ sending.picture = p
    \/ \E j \in DOMAIN stream : stream[j].generation = generation /\ stream[j].packet.picture = p
    \/ \E j \in DOMAIN acks : acks[j] = [generation |-> generation, picture |-> p]

Totalled == HasTotal(flight, bytes)

WindowInv ==
    /\ Distinct /\ Totalled /\ RoomToSwitch
    /\ over = "" => \A k \in 1 .. Len(flight) : Underway(flight[k].picture)

Sent == << generation, switching, encoder, sending, flight, bytes, pictures, stream, acks, over >>

LEMMA WindowUnmoved == WindowInv /\ UNCHANGED Sent => WindowInv'
  BY DEF Sent, WindowInv, Distinct, Totalled, HasTotal, IsTotal, RoomToSwitch, Underway

LEMMA FlightTypes ==
    ASSUME Video!ConstantsAssumption, Video!TypeOK
    PROVE  /\ flight \in Seq(Video!InFlight) /\ Len(flight) \in Nat
             /\ DOMAIN flight = 1 .. Len(flight)
           /\ \A k \in 1 .. Len(flight) :
                /\ flight[k] \in Video!InFlight /\ flight[k].picture \in Video!Pictures
                /\ flight[k].picture \in Nat /\ flight[k].picture >= 1
                /\ flight[k].size \in Nat /\ flight[k].size <= MaxSize /\ flight[k].late \in BOOLEAN
           /\ pictures \in Nat /\ bytes \in Nat
<1>1. flight \in Seq(Video!InFlight) /\ pictures \in 0 .. MaxPictures /\ bytes \in Nat
  BY DEF Video!TypeOK
<1>2. MaxSize \in Nat /\ MaxPictures \in Nat
  BY DEF Video!ConstantsAssumption
<1>3. Len(flight) \in Nat /\ DOMAIN flight = 1 .. Len(flight)
        /\ \A k \in 1 .. Len(flight) : flight[k] \in Video!InFlight
  BY <1>1
<1>4. ASSUME NEW k \in 1 .. Len(flight)
      PROVE  /\ flight[k].picture \in Video!Pictures
             /\ flight[k].picture \in Nat /\ flight[k].picture >= 1
             /\ flight[k].size \in Nat /\ flight[k].size <= MaxSize /\ flight[k].late \in BOOLEAN
  <2>1. flight[k].picture \in 1 .. MaxPictures /\ flight[k].size \in 0 .. MaxSize
          /\ flight[k].late \in BOOLEAN
    BY <1>3 DEF Video!InFlight, Video!Pictures
  <2> QED
    BY <1>2, <2>1 DEF Video!Pictures
<1> QED
  BY <1>1, <1>2, <1>3, <1>4

LEMMA PacketTypes ==
    ASSUME Video!ConstantsAssumption, Video!TypeOK
    PROVE  /\ encoder \in Seq(Video!Pictures) /\ Len(encoder) \in Nat
             /\ DOMAIN encoder = 1 .. Len(encoder)
           /\ acks \in Seq(Video!Ack) /\ Len(acks) \in Nat /\ DOMAIN acks = 1 .. Len(acks)
           /\ DOMAIN stream = 1 .. Len(stream)
<1>1. encoder \in Seq(Video!Pictures) /\ acks \in Seq(Video!Ack) /\ stream \in Seq(Video!Message)
  BY DEF Video!TypeOK
<1> QED
  BY <1>1

LEMMA TakeAckKeepsWindow ==
    ASSUME Video!ConstantsAssumption, Video!TypeOK, WindowInv, Video!TakeAck
    PROVE  WindowInv'
<1> DEFINE a == Head(acks)
<1>1. /\ acks # << >> /\ acks' = Tail(acks)
      /\ UNCHANGED << generation, switching, encoder, sending, pictures, stream, over >>
      /\ IF a.generation = generation THEN Video!Acknowledge(a.picture)
           ELSE UNCHANGED << flight, bytes >>
      /\ over = ""
  BY DEF Video!TakeAck, Video!Running
<1>2. /\ acks \in Seq(Video!Ack) /\ Len(acks) \in Nat /\ DOMAIN acks = 1 .. Len(acks) /\ a = acks[1]
      /\ DOMAIN acks' = 1 .. Len(acks) - 1
      /\ \A j \in 1 .. Len(acks) - 1 : acks'[j] = acks[j + 1]
  <2>1. acks \in Seq(Video!Ack) /\ acks # << >>
    BY <1>1, PacketTypes
  <2> QED
    BY <1>1, <2>1, TailPointwise
<1> HIDE DEF a
<1>3. ASSUME NEW p, Underway(p), ~(a.generation = generation /\ a.picture = p) PROVE Underway(p)'
  <2>1. CASE \E j \in DOMAIN acks : acks[j] = [generation |-> generation, picture |-> p]
    <3>1. PICK j \in 1 .. Len(acks) : acks[j] = [generation |-> generation, picture |-> p]
      BY <1>2, <2>1
    <3>2. j # 1
      BY <1>2, <1>3, <3>1
    <3>3. j - 1 \in 1 .. Len(acks) - 1 /\ acks'[j - 1] = acks[(j - 1) + 1] /\ (j - 1) + 1 = j
      BY <1>2, <3>2
    <3>4. j - 1 \in DOMAIN acks' /\ acks'[j - 1] = [generation |-> generation, picture |-> p]
      BY <1>2, <3>1, <3>3
    <3> QED
      BY <1>1, <3>4 DEF Underway
  <2>2. CASE ~(\E j \in DOMAIN acks : acks[j] = [generation |-> generation, picture |-> p])
    BY <1>1, <1>3, <2>2 DEF Underway
  <2> QED
    BY <2>1, <2>2
<1>4. RoomToSwitch'
  BY <1>1 DEF WindowInv, RoomToSwitch
<1>5. CASE UNCHANGED << flight, bytes >>
        /\ \A k \in 1 .. Len(flight) : ~(a.generation = generation /\ a.picture = flight[k].picture)
  <2>1. Distinct' /\ Totalled'
    BY <1>1, <1>5 DEF WindowInv, Distinct, Totalled, HasTotal, IsTotal
  <2>2. over' = "" => \A k \in 1 .. Len(flight') : Underway(flight[k].picture)'
    BY <1>1, <1>3, <1>5 DEF WindowInv
  <2> QED
    BY <1>4, <2>1, <2>2 DEF WindowInv
<1>6. ASSUME NEW k \in DOMAIN flight, a.generation = generation,
             Video!IsFirst(k, Video!Position(a.picture)),
             flight' = Video!RemoveAt(flight, k), bytes' = bytes - flight[k].size
      PROVE  WindowInv'
  <2> DEFINE n == Len(flight)
  <2>1. /\ flight \in Seq(Video!InFlight) /\ n \in Nat /\ k \in 1 .. n
        /\ \A i \in 1 .. n : flight[i].size \in Nat /\ flight[i].picture \in Nat
        /\ flight[k].picture = a.picture
    BY <1>6, FlightTypes DEF Video!IsFirst, Video!Position
  <2>2. Len(flight') = n - 1 /\ \A i \in 1 .. n - 1 : flight'[i] = IF i < k THEN flight[i]
          ELSE flight[i + 1]
    BY <1>6, <2>1, RemoveAtPointwise
  <2>d. \A i, j \in 1 .. n : i < j => flight[i].picture < flight[j].picture
    BY DEF WindowInv, Distinct
  <2>e. \A i \in 1 .. n : flight[i].picture <= pictures
    BY DEF WindowInv, Distinct
  <2>u. \A i \in 1 .. n : Underway(flight[i].picture)
    BY <1>1 DEF WindowInv
  <2>t. HasTotal(flight, bytes)
    BY DEF WindowInv, Totalled
  <2> HIDE DEF n
  <2>3. Totalled'
    <3>1. HasTotal(flight', bytes - flight[k].size)
      BY <2>1, <2>2, <2>t, OneFrameLess DEF n
    <3> QED
      BY <1>6, <3>1 DEF Totalled, HasTotal, IsTotal
  <2>4. ASSUME NEW i \in 1 .. n - 1
        PROVE  \E x \in 1 .. n : x # k /\ x = (IF i < k THEN i ELSE i + 1) /\ flight'[i] = flight[x]
    <3>1. CASE i < k
      <4>1. i \in 1 .. n /\ i # k /\ flight'[i] = flight[i]
        BY <2>1, <2>2, <3>1
      <4> QED
        BY <3>1, <4>1
    <3>2. CASE ~(i < k)
      <4>1. i + 1 \in 1 .. n /\ i + 1 # k /\ flight'[i] = flight[i + 1]
        BY <2>1, <2>2, <3>2
      <4> QED
        BY <3>2, <4>1
    <3> QED
      BY <3>1, <3>2
  <2>5. ASSUME NEW i \in 1 .. n - 1, NEW j \in 1 .. n - 1, i < j
        PROVE  flight'[i].picture < flight'[j].picture
    <3>1. PICK x \in 1 .. n : x = (IF i < k THEN i ELSE i + 1) /\ flight'[i] = flight[x]
      BY <2>4
    <3>2. PICK y \in 1 .. n : y = (IF j < k THEN j ELSE j + 1) /\ flight'[j] = flight[y]
      BY <2>4
    <3>3. x < y
      BY <2>1, <2>5, <3>1, <3>2
    <3> QED
      BY <2>d, <3>1, <3>2, <3>3
  <2>6. Distinct'
    <3>1. \A i \in 1 .. n - 1 : flight'[i].picture <= pictures
      BY <2>4, <2>e
    <3> QED
      BY <1>1, <2>2, <2>5, <3>1 DEF Distinct
  <2>7. ASSUME NEW i \in 1 .. n - 1 PROVE Underway(flight[i].picture)'
    <3>1. PICK x \in 1 .. n : x # k /\ flight'[i] = flight[x]
      BY <2>4
    <3>2. flight[x].picture # flight[k].picture
      <4>1. flight[x].picture < flight[k].picture \/ flight[k].picture < flight[x].picture
        BY <2>1, <2>d, <3>1
      <4> QED
        BY <2>1, <4>1
    <3>3. PICK p : p = flight[x].picture
      OBVIOUS
    <3>4. Underway(p)'
      BY <1>3, <2>1, <2>u, <3>2, <3>3
    <3> QED
      BY <3>1, <3>3, <3>4 DEF Underway
  <2> QED
    BY <1>4, <2>2, <2>3, <2>6, <2>7 DEF WindowInv
<1>7. CASE a.generation = generation
  <2>1. Video!Acknowledge(a.picture)
    BY <1>1, <1>7
  <2>2. CASE Video!Position(a.picture) = {} /\ UNCHANGED << flight, bytes >>
    <3>1. \A k \in 1 .. Len(flight) : a.picture # flight[k].picture
      BY <2>2, FlightTypes DEF Video!Position
    <3> QED
      BY <1>5, <2>2, <3>1
  <2> QED
    BY <1>6, <1>7, <2>1, <2>2 DEF Video!Acknowledge
<1> QED
  BY <1>1, <1>5, <1>7

LEMMA SwitchKeepsWindow ==
    ASSUME Video!ConstantsAssumption, Video!TypeOK, Video!Switch
    PROVE  WindowInv'
<1>1. flight' = << >> /\ bytes' = 0 /\ switching' = None
  BY DEF Video!Switch
<1>2. Distinct' /\ RoomToSwitch'
  BY <1>1 DEF Distinct, RoomToSwitch
<1>3. Totalled'
  <2>1. flight' = << >> /\ bytes' = 0 /\ HasTotal(<< >>, 0)
    BY <1>1, NoFrames
  <2> QED
    BY <2>1 DEF Totalled, HasTotal, IsTotal
<1>4. Len(flight') = 0 /\ 1 .. 0 = {}
  BY <1>1
<1> QED
  BY <1>2, <1>3, <1>4 DEF WindowInv

LEMMA SubmitKeepsWindow ==
    ASSUME Video!ConstantsAssumption, Video!TypeOK, WindowInv, Video!Submit
    PROVE  WindowInv'
<1> DEFINE f == [picture |-> pictures + 1, size |-> 0, late |-> FALSE]
           n == Len(flight)
<1>1. /\ pictures' = pictures + 1 /\ encoder' = Append(encoder, pictures + 1)
      /\ flight' = Append(flight, f)
      /\ UNCHANGED << generation, switching, sending, bytes, stream, acks, over >>
      /\ over = "" /\ pictures < MaxPictures
  BY DEF Video!Submit, Video!Running
<1>2. /\ flight \in Seq(Video!InFlight) /\ n \in Nat /\ pictures \in Nat
      /\ \A i \in 1 .. n : flight[i].picture \in Nat
  BY FlightTypes
<1>3. f.picture = pictures + 1 /\ f.size = 0
  OBVIOUS
<1>p. pictures + 1 \in Video!Pictures /\ f \in Video!InFlight
  <2>1. MaxPictures \in Nat /\ MaxSize \in Nat
    BY DEF Video!ConstantsAssumption
  <2>2. pictures + 1 \in Video!Pictures
    <3>1. \A x, y \in Nat : x < y => x + 1 \in 1 .. y
      OBVIOUS
    <3>2. pictures < MaxPictures /\ pictures \in Nat
      BY <1>1, <1>2
    <3> QED
      BY <2>1, <3>1, <3>2 DEF Video!Pictures
  <2>3. 0 \in 0 .. MaxSize
    BY <2>1
  <2> QED
    BY <2>2, <2>3 DEF Video!InFlight
<1> HIDE DEF f
<1> HIDE DEF f
<1>4. Len(flight') = n + 1 /\ flight'[n + 1] = f /\ \A i \in 1 .. n : flight'[i] = flight[i]
  <2>1. flight' = Append(flight, f) /\ f \in Video!InFlight /\ flight \in Seq(Video!InFlight)
    BY <1>1, <1>2, <1>p
  <2> QED
    BY <2>1, AppendPointwise DEF n
<1>5. /\ DOMAIN encoder' = 1 .. Len(encoder) + 1 /\ encoder'[Len(encoder) + 1] = pictures + 1
      /\ \A j \in 1 .. Len(encoder) : encoder'[j] = encoder[j]
      /\ DOMAIN encoder = 1 .. Len(encoder) /\ Len(encoder) \in Nat
  <2>1. PICK e : e = pictures + 1
    OBVIOUS
  <2>2. encoder \in Seq(Video!Pictures) /\ e \in Video!Pictures /\ encoder' = Append(encoder, e)
    BY <1>1, <1>p, <2>1, PacketTypes
  <2>3. /\ DOMAIN encoder' = 1 .. Len(encoder) + 1 /\ encoder'[Len(encoder) + 1] = e
        /\ \A j \in 1 .. Len(encoder) : encoder'[j] = encoder[j]
        /\ DOMAIN encoder = 1 .. Len(encoder) /\ Len(encoder) \in Nat
    BY <2>2, AppendPointwise
  <2> QED
    BY <2>1, <2>3
<1>6. \A p : Underway(p) => Underway(p)'
  <2>1. DOMAIN encoder \subseteq DOMAIN encoder'
          /\ \A j \in DOMAIN encoder : encoder'[j] = encoder[j]
    BY <1>5
  <2> QED
    BY <1>1, <2>1 DEF Underway
<1>d. \A i \in 1 .. n : /\ flight[i].picture <= pictures
                        /\ \A j \in 1 .. n : i < j => flight[i].picture < flight[j].picture
  BY DEF WindowInv, Distinct
<1>t. HasTotal(flight, bytes)
  BY DEF WindowInv, Totalled
<1>u. \A i \in 1 .. n : Underway(flight[i].picture)
  BY <1>1 DEF WindowInv
<1> HIDE DEF n
<1>7. \A i \in 1 .. n + 1 : i \in 1 .. n \/ i = n + 1
  BY <1>2
<1>8. Totalled'
  <2>1. HasTotal(flight', bytes)
    BY <1>2, <1>3, <1>4, <1>t, OneFrameMore DEF n
  <2> QED
    BY <1>1, <2>1 DEF Totalled, HasTotal, IsTotal
<1>9. \A i \in 1 .. n + 1 : flight'[i].picture <= pictures + 1
  <2> SUFFICES ASSUME NEW i \in 1 .. n + 1 PROVE flight'[i].picture <= pictures + 1
    OBVIOUS
  <2>1. CASE i \in 1 .. n
    <3>1. flight'[i].picture \in Nat /\ flight'[i].picture <= pictures
      BY <1>2, <1>4, <1>d, <2>1
    <3> QED
      BY <1>2, <3>1
  <2>2. CASE i = n + 1
    BY <1>2, <1>3, <1>4, <2>2
  <2> QED
    BY <1>7, <2>1, <2>2
<1>10. ASSUME NEW i \in 1 .. n + 1, NEW j \in 1 .. n + 1, i < j
       PROVE  flight'[i].picture < flight'[j].picture
  <2>0. i \in 1 .. n
    BY <1>2, <1>10
  <2>1. CASE j \in 1 .. n
    BY <1>4, <1>10, <1>d, <2>0, <2>1
  <2>2. CASE j = n + 1
    <3>1. flight'[j].picture = pictures + 1 /\ flight'[i].picture <= pictures
            /\ flight'[i].picture \in Nat
      BY <1>2, <1>3, <1>4, <1>d, <2>0, <2>2
    <3> QED
      BY <1>2, <3>1
  <2> QED
    BY <1>7, <2>1, <2>2
<1>11. Distinct'
  BY <1>1, <1>4, <1>9, <1>10 DEF Distinct
<1>12. ASSUME NEW i \in 1 .. n + 1 PROVE Underway(flight[i].picture)'
  <2>1. CASE i \in 1 .. n
    <3>1. PICK p : p = flight[i].picture
      OBVIOUS
    <3>2. Underway(p)' /\ flight'[i].picture = p
      BY <1>4, <1>6, <1>u, <2>1, <3>1
    <3> QED
      BY <3>2 DEF Underway
  <2>2. CASE i = n + 1
    <3>1. Len(encoder) + 1 \in DOMAIN encoder' /\ encoder'[Len(encoder) + 1] = flight'[i].picture
      BY <1>3, <1>4, <1>5, <2>2
    <3> QED
      BY <3>1 DEF Underway
  <2> QED
    BY <1>7, <2>1, <2>2
<1>13. RoomToSwitch'
  BY <1>1 DEF WindowInv, RoomToSwitch
<1> QED
  BY <1>4, <1>8, <1>11, <1>12, <1>13 DEF WindowInv

LEMMA YieldKeepsWindow ==
    ASSUME Video!ConstantsAssumption, Video!TypeOK, WindowInv, Video!Yield
    PROVE  WindowInv'
<1> DEFINE n == Len(flight)
<1>1. PICK size \in Video!Sizes : /\ sending' = [picture |-> Head(encoder), size |-> size, at |-> 0]
                                  /\ Video!Encoded(Head(encoder), size)
  BY DEF Video!Yield
<1>2. /\ encoder # << >> /\ encoder' = Tail(encoder) /\ sending = Video!NoPacket
      /\ UNCHANGED << generation, switching, pictures, stream, acks, over >>
  BY DEF Video!Yield, Video!Running
<1>3. /\ DOMAIN encoder = 1 .. Len(encoder) /\ DOMAIN encoder' = 1 .. Len(encoder) - 1
      /\ Head(encoder) = encoder[1] /\ Len(encoder) \in Nat
      /\ \A j \in 1 .. Len(encoder) - 1 : encoder'[j] = encoder[j + 1]
  <2>1. encoder \in Seq(Video!Pictures)
    BY PacketTypes
  <2> QED
    BY <1>2, <2>1, TailPointwise
<1>4. ASSUME NEW p, Underway(p), p # 0 PROVE Underway(p)'
  <2>1. CASE \E j \in DOMAIN encoder : encoder[j] = p
    <3>1. PICK j \in 1 .. Len(encoder) : encoder[j] = p
      BY <1>3, <2>1
    <3>2. CASE j = 1
      <4>1. sending'.picture = p
        BY <1>1, <1>3, <3>1, <3>2
      <4> QED
        BY <4>1 DEF Underway
    <3>3. CASE j # 1
      <4>1. j - 1 \in 1 .. Len(encoder) - 1 /\ (j - 1) + 1 = j
        BY <1>3, <3>3
      <4>2. j - 1 \in DOMAIN encoder' /\ encoder'[j - 1] = p
        BY <1>3, <3>1, <4>1
      <4> QED
        BY <4>2 DEF Underway
    <3> QED
      BY <3>2, <3>3
  <2>2. CASE ~(\E j \in DOMAIN encoder : encoder[j] = p)
    <3>1. sending.picture # p
      BY <1>2, <1>4, NoPacketIs
    <3> QED
      BY <1>2, <1>4, <2>2, <3>1 DEF Underway
  <2> QED
    BY <2>1, <2>2
<1>5. /\ flight \in Seq(Video!InFlight) /\ n \in Nat /\ DOMAIN flight = 1 .. n
      /\ \A i \in 1 .. n : flight[i] \in Video!InFlight /\ flight[i].size \in Nat
           /\ flight[i].picture # 0
      /\ size \in Nat
  <2>1. size \in 1 .. MaxSize /\ MaxSize \in Nat
    BY DEF Video!Sizes, Video!ConstantsAssumption
  <2> QED
    BY <2>1, FlightTypes
<1>6. /\ Len(flight') = n /\ Totalled' /\ \A i \in 1 .. n : flight'[i].picture = flight[i].picture
  <2>1. CASE UNCHANGED << flight, bytes >>
    BY <2>1 DEF WindowInv, Totalled, HasTotal, IsTotal
  <2>2. ASSUME NEW k \in DOMAIN flight,
               flight' = [flight EXCEPT ![k].size = size], bytes' = bytes - flight[k].size + size
        PROVE  /\ Len(flight') = n /\ Totalled'
                 /\ \A i \in 1 .. n : flight'[i].picture = flight[i].picture
    <3>1. k \in 1 .. n /\ DOMAIN flight' = 1 .. n /\ Len(flight') = n
      BY <1>5, <2>2
    <3>2. \A i \in 1 .. n : i # k => flight'[i] = flight[i]
      BY <1>5, <2>2
    <3>3. flight'[k] = [flight[k] EXCEPT !.size = size] /\ flight[k] \in Video!InFlight
      BY <1>5, <2>2, <3>1
    <3>4. flight'[k].size = size /\ flight'[k].picture = flight[k].picture
      BY <3>3 DEF Video!InFlight
    <3>5. HasTotal(flight', bytes - flight[k].size + size)
      <4>1. HasTotal(flight, bytes)
        BY DEF WindowInv, Totalled
      <4>2. \A i \in 1 .. n : i # k => flight'[i].size = flight[i].size
        BY <3>2
      <4> HIDE DEF n
      <4> QED
        BY <1>5, <3>1, <3>4, <4>1, <4>2, OtherSize DEF n
    <3>6. Totalled'
      BY <2>2, <3>5 DEF Totalled, HasTotal, IsTotal
    <3> QED
      BY <3>1, <3>2, <3>4, <3>6
  <2> QED
    BY <1>1, <2>1, <2>2 DEF Video!Encoded
<1> HIDE DEF n
<1>7. Distinct'
  <2>1. \A i \in 1 .. n : /\ flight[i].picture <= pictures
                          /\ \A j \in 1 .. n : i < j => flight[i].picture < flight[j].picture
    BY DEF WindowInv, Distinct, n
  <2>2. pictures' = pictures /\ Len(flight') = n
          /\ \A i \in 1 .. n : flight'[i].picture = flight[i].picture
    BY <1>2, <1>6
  <2> QED
    BY <2>1, <2>2 DEF Distinct
<1>8. ASSUME over = "", NEW i \in 1 .. n PROVE Underway(flight[i].picture)'
  <2>1. PICK p : p = flight[i].picture
    OBVIOUS
  <2>2. Underway(p)
    BY <1>8, <2>1 DEF WindowInv, n
  <2>3. Underway(p)'
    BY <1>4, <1>5, <2>1, <2>2
  <2>4. flight'[i].picture = p
    BY <1>6, <2>1
  <2> QED
    BY <2>3, <2>4 DEF Underway
<1>9. RoomToSwitch'
  BY <1>2 DEF WindowInv, RoomToSwitch
<1> QED
  BY <1>2, <1>6, <1>7, <1>8, <1>9 DEF WindowInv

LEMMA GrowLateKeepsWindow ==
    ASSUME Video!ConstantsAssumption, Video!TypeOK, WindowInv, Video!GrowLate
    PROVE  WindowInv'
<1> DEFINE n == Len(flight)
<1>1. PICK k \in DOMAIN flight : flight' = [flight EXCEPT ![k].late = TRUE]
  BY DEF Video!GrowLate
<1>2. UNCHANGED << generation, switching, encoder, sending, bytes, pictures, stream, acks, over >>
  BY DEF Video!GrowLate
<1>3. /\ flight \in Seq(Video!InFlight) /\ n \in Nat /\ DOMAIN flight = 1 .. n
      /\ \A i \in 1 .. n : flight[i] \in Video!InFlight
  BY FlightTypes
<1>4. DOMAIN flight' = 1 .. n /\ Len(flight') = n
  BY <1>1, <1>3
<1>5. \A i \in 1 .. n : flight'[i].picture = flight[i].picture /\ flight'[i].size = flight[i].size
  <2> SUFFICES ASSUME NEW i \in 1 .. n
               PROVE  flight'[i].picture = flight[i].picture /\ flight'[i].size = flight[i].size
    OBVIOUS
  <2>1. CASE i = k
    <3>1. flight'[i] = [flight[i] EXCEPT !.late = TRUE] /\ flight[i] \in Video!InFlight
      BY <1>1, <1>3, <2>1
    <3> QED
      BY <3>1 DEF Video!InFlight
  <2>2. CASE i # k
    BY <1>1, <1>3, <2>2
  <2> QED
    BY <2>1, <2>2
<1> HIDE DEF n
<1>6. Totalled'
  <2>1. HasTotal(flight, bytes)
    BY DEF WindowInv, Totalled
  <2>2. HasTotal(flight', bytes)
    BY <1>3, <1>4, <1>5, <2>1, OtherFlags DEF n
  <2> QED
    BY <1>2, <2>2 DEF Totalled, HasTotal, IsTotal
<1>7. Distinct' /\ RoomToSwitch'
  BY <1>2, <1>4, <1>5 DEF WindowInv, Distinct, RoomToSwitch, n
<1>8. over' = "" => \A i \in 1 .. n : Underway(flight[i].picture)'
  BY ZenonT(30), <1>2, <1>5 DEF WindowInv, Underway, n
<1> QED
  BY <1>4, <1>6, <1>7, <1>8 DEF WindowInv

\* What is under way stays so, and the window with it
Keeps == \A p \in Video!Pictures : Underway(p) => Underway(p)'

LEMMA KeepsWindow ==
    ASSUME Video!ConstantsAssumption, Video!TypeOK, WindowInv, Keeps, over' = over \/ over' # "",
           UNCHANGED << generation, switching, flight, bytes, pictures >>
    PROVE  WindowInv'
<1>1. Distinct' /\ Totalled' /\ RoomToSwitch'
  BY DEF WindowInv, Distinct, Totalled, HasTotal, IsTotal, RoomToSwitch
<1>2. ASSUME over' = "", NEW k \in 1 .. Len(flight) PROVE Underway(flight[k].picture)'
  <2>1. PICK p : p = flight[k].picture
    OBVIOUS
  <2>2. p \in Video!Pictures /\ Underway(p)
    BY <1>2, <2>1, FlightTypes DEF WindowInv
  <2>3. Underway(p)' /\ flight'[k].picture = p
    BY <2>1, <2>2 DEF Keeps
  <2> QED
    BY <2>3 DEF Underway
<1> QED
  BY <1>1, <1>2 DEF WindowInv

LEMMA SendFragmentKeepsWindow ==
    ASSUME Video!ConstantsAssumption, Video!TypeOK, WindowInv, Video!SendFragment
    PROVE  WindowInv'
<1> DEFINE m == [generation |-> generation, packet |-> sending]
<1>1. /\ stream' = Append(stream, m) /\ sending # Video!NoPacket
      /\ UNCHANGED << generation, switching, encoder, flight, bytes, pictures, acks, over >>
  BY DEF Video!SendFragment
<1>2. m \in Video!Message /\ m.generation = generation /\ m.packet = sending
  BY StreamTypes DEF Video!Message
<1> HIDE DEF m
<1>3. /\ DOMAIN stream' = 1 .. Len(stream) + 1 /\ stream'[Len(stream) + 1] = m
           /\ DOMAIN stream = 1 .. Len(stream)
      /\ \A k \in 1 .. Len(stream) : stream'[k] = stream[k]
      /\ Len(stream) \in Nat
  <2>1. stream \in Seq(Video!Message)
    BY StreamTypes
  <2> QED
    BY <1>1, <1>2, <2>1, AppendPointwise
<1>4. Keeps
  <2> SUFFICES ASSUME NEW p \in Video!Pictures, Underway(p) PROVE Underway(p)'
    BY DEF Keeps
  <2>1. CASE sending.picture = p
    <3>1. Len(stream) + 1 \in DOMAIN stream'
      BY <1>3
    <3> QED
      BY <1>1, <1>2, <1>3, <2>1, <3>1 DEF Underway
  <2>2. CASE sending.picture # p
    <3>1. DOMAIN stream \subseteq DOMAIN stream' /\ \A k \in DOMAIN stream : stream'[k] = stream[k]
      BY <1>3
    <3> QED
      BY <1>1, <2>2, <3>1 DEF Underway
  <2> QED
    BY <2>1, <2>2
<1> QED
  BY <1>1, <1>4, KeepsWindow

\* Only the first message leaves the wire.
LEMMA Behind ==
    ASSUME Video!ConstantsAssumption, Video!TypeOK, stream # << >>, stream' = Tail(stream),
           UNCHANGED generation,
           NEW p, NEW j \in DOMAIN stream, j # 1, stream[j].generation = generation,
           stream[j].packet.picture = p
    PROVE  Underway(p)'
<1>1. /\ DOMAIN stream = 1 .. Len(stream) /\ DOMAIN stream' = 1 .. Len(stream) - 1
      /\ \A k \in 1 .. Len(stream) - 1 : stream'[k] = stream[k + 1]
      /\ Len(stream) \in Nat
  <2>1. stream \in Seq(Video!Message)
    BY StreamTypes
  <2> QED
    BY <2>1, TailPointwise
<1>2. j - 1 \in DOMAIN stream' /\ (j - 1) + 1 = j /\ j - 1 \in 1 .. Len(stream) - 1
  BY <1>1
<1>3. stream'[j - 1] = stream[j]
  BY <1>1, <1>2
<1> QED
  BY <1>2, <1>3 DEF Underway

LEMMA TakeFormatKeepsWindow ==
    ASSUME Video!ConstantsAssumption, Video!TypeOK, WindowInv, Video!TakeFormat
    PROVE  WindowInv'
<1>1. /\ stream # << >> /\ stream' = Tail(stream) /\ Head(stream).packet = Video!NoPacket
      /\ UNCHANGED << generation, switching, encoder, sending, flight, bytes, pictures, acks,
         over >>
  BY DEF Video!TakeFormat, Video!host, Video!screen
<1>2. Head(stream) = stream[1]
  BY <1>1, StreamTypes
<1>3. Keeps
  <2> SUFFICES ASSUME NEW p \in Video!Pictures, Underway(p) PROVE Underway(p)'
    BY DEF Keeps
  <2>0. p # 0
    BY DEF Video!Pictures, Video!ConstantsAssumption
  <2>1. CASE \E j \in DOMAIN stream : stream[j].generation = generation
          /\ stream[j].packet.picture = p
    <3>1. PICK j \in DOMAIN stream : stream[j].generation = generation
            /\ stream[j].packet.picture = p
      BY <2>1
    <3>2. j # 1
      BY <1>1, <1>2, <2>0, <3>1, NoPacketIs
    <3> QED
      BY <1>1, <3>1, <3>2, Behind
  <2>2. CASE ~(\E j \in DOMAIN stream : stream[j].generation = generation
          /\ stream[j].packet.picture = p)
    BY <1>1, <2>2 DEF Underway
  <2> QED
    BY <2>1, <2>2
<1> QED
  BY <1>1, <1>3, KeepsWindow

LEMMA TakeFragmentKeepsWindow ==
    ASSUME Video!ConstantsAssumption, Video!TypeOK, WindowInv, StreamInv, Video!TakeFragment
    PROVE  WindowInv'
<1>1. /\ stream # << >> /\ stream' = Tail(stream) /\ Head(stream).packet # Video!NoPacket
      /\ ~Video!Complete(Head(stream).packet)
      /\ UNCHANGED << generation, switching, encoder, sending, flight, bytes, pictures, acks,
         over >>
  BY DEF Video!TakeFragment, Video!host, Video!screen
<1>2. /\ Head(stream) = stream[1] /\ Len(stream) \in Nat \ {0} /\ stream[1].packet \in Video!Packet
      /\ DOMAIN stream = 1 .. Len(stream)
  BY <1>1, HeadFits, PacketTypes
<1>3. Left(stream[1].packet).picture = stream[1].packet.picture /\ Left(stream[1].packet).at # 0
  <2>1. Left(stream[1].packet) = [stream[1].packet EXCEPT !.at = @ + 1]
    BY <1>1, <1>2 DEF Left
  <2>2. stream[1].packet.at \in Nat
    BY <1>2, FragmentTypes
  <2> QED
    BY <1>2, <2>1, <2>2 DEF Video!Packet
<1>4. Left(stream[1].packet) # Video!NoPacket
  BY <1>3, NoPacketIs
<1>5. Keeps
  <2> SUFFICES ASSUME NEW p \in Video!Pictures, Underway(p) PROVE Underway(p)'
    BY DEF Keeps
  <2>1. CASE stream[1].generation = generation /\ stream[1].packet.picture = p
    <3>1. CASE Len(stream) = 1
      <4>1. Left(stream[1].packet) = Awaited
        BY <1>1, <3>1 DEF StreamInv, Joined
      <4>2. sending.picture = p
        BY <1>3, <1>4, <2>1, <4>1, NoPacketIs DEF Awaited
      <4> QED
        BY <1>1, <4>2 DEF Underway
    <3>2. CASE Len(stream) # 1
      <4>1. 1 \in 1 .. Len(stream) /\ 1 + 1 <= Len(stream) /\ 2 \in DOMAIN stream /\ 1 + 1 = 2
        BY <1>2, <3>2
      <4>2. Fits(stream[1].generation, Left(stream[1].packet), stream[2])
        BY <4>1 DEF StreamInv, Joined
      <4>3. stream[2].generation = generation /\ stream[2].packet.picture = p
        BY <1>3, <1>4, <2>1, <4>2 DEF Fits
      <4> QED
        BY <1>1, <4>1, <4>3, Behind
    <3> QED
      BY <3>1, <3>2
  <2>2. CASE ~(stream[1].generation = generation /\ stream[1].packet.picture = p)
    <3>1. CASE \E j \in DOMAIN stream : stream[j].generation = generation
            /\ stream[j].packet.picture = p
      <4>1. PICK j \in DOMAIN stream : stream[j].generation = generation
              /\ stream[j].packet.picture = p
        BY <3>1
      <4>2. j # 1
        BY <2>2, <4>1
      <4> QED
        BY <1>1, <4>1, <4>2, Behind
    <3>2. CASE ~(\E j \in DOMAIN stream : stream[j].generation = generation
            /\ stream[j].packet.picture = p)
      BY <1>1, <3>2 DEF Underway
    <3> QED
      BY <3>1, <3>2
  <2> QED
    BY <2>1, <2>2
<1> QED
  BY <1>1, <1>5, KeepsWindow

LEMMA DecodeKeepsWindow ==
    ASSUME Video!ConstantsAssumption, Video!TypeOK, WindowInv, StreamInv, Video!Decode
    PROVE  WindowInv'
<1> DEFINE a == [generation |-> decoding, picture |-> Head(stream).packet.picture]
<1>1. /\ stream # << >> /\ stream' = Tail(stream) /\ Head(stream).packet # Video!NoPacket
      /\ acks' = Append(acks, a)
      /\ UNCHANGED << generation, switching, encoder, sending, flight, bytes, pictures, over >>
  BY DEF Video!Decode, Video!host, Video!screen
<1>2. /\ Head(stream) = stream[1] /\ Fits(decoding, assembly, stream[1])
           /\ stream[1].packet \in Video!Packet
      /\ stream[1].generation \in Video!Generations
  BY <1>1, HeadFits
<1>3. a = [generation |-> stream[1].generation, picture |-> stream[1].packet.picture]
  BY <1>1, <1>2 DEF Fits
<1>4. a \in Video!Ack
  BY <1>2, <1>3, FragmentTypes DEF Video!Ack
<1> HIDE DEF a
<1>5. /\ DOMAIN acks' = 1 .. Len(acks) + 1 /\ acks'[Len(acks) + 1] = a
           /\ DOMAIN acks = 1 .. Len(acks)
      /\ \A k \in 1 .. Len(acks) : acks'[k] = acks[k]
      /\ Len(acks) \in Nat
  <2>1. acks \in Seq(Video!Ack)
    BY PacketTypes
  <2> QED
    BY <1>1, <1>4, <2>1, AppendPointwise
<1>6. Len(acks) + 1 \in DOMAIN acks' /\ DOMAIN acks \subseteq DOMAIN acks'
        /\ \A k \in DOMAIN acks : acks'[k] = acks[k]
  BY <1>5
<1>7. Keeps
  <2> SUFFICES ASSUME NEW p \in Video!Pictures, Underway(p) PROVE Underway(p)'
    BY DEF Keeps
  <2>1. CASE \E j \in DOMAIN stream : stream[j].generation = generation
          /\ stream[j].packet.picture = p
    <3>1. PICK j \in DOMAIN stream : stream[j].generation = generation
            /\ stream[j].packet.picture = p
      BY <2>1
    <3>2. CASE j = 1
      <4>1. acks'[Len(acks) + 1] = [generation |-> generation', picture |-> p]
        BY <1>1, <1>3, <1>5, <3>1, <3>2
      <4> QED
        BY <1>6, <4>1 DEF Underway
    <3>3. CASE j # 1
      BY <1>1, <3>1, <3>3, Behind
    <3> QED
      BY <3>2, <3>3
  <2>2. CASE ~(\E j \in DOMAIN stream : stream[j].generation = generation
          /\ stream[j].packet.picture = p)
    BY <1>1, <1>6, <2>2 DEF Underway
  <2> QED
    BY <2>1, <2>2
<1> QED
  BY <1>1, <1>7, KeepsWindow

-----------------------------------------------------------------------------
(* Types *)

\* The types of what the host, the connection and the viewer change
HostTypes ==
    /\ generation \in Video!Generations
    /\ monitorOf \in [Video!Generations -> Monitors \cup {None}]
    /\ switching \in Monitors \cup {None}
    /\ encoder \in Seq(Video!Pictures)
    /\ sending \in Video!Packet \cup {Video!NoPacket}
    /\ flight \in Seq(Video!InFlight) /\ Len(flight) <= Window
    /\ pictures \in 0 .. MaxPictures
    /\ stream \in Seq(Video!Message) /\ acks \in Seq(Video!Ack)
    /\ produced \in [Video!Generations -> Seq(Video!Pictures)]

ViewerTypes ==
    /\ assembly \in Video!Packet \cup {Video!NoPacket}
    /\ decoding \in 0 .. MaxGeneration
    /\ slot \in Video!Generations \cup {None} /\ shown \in Video!Generations \cup {None}
    /\ formats \in Seq(Video!Generations) /\ format \in 0 .. MaxGeneration
    /\ window \in {"events", "frame", "draw"}
    /\ over \in {"", "stopped", "stalled"}
    /\ decoded \in [Video!Generations -> Seq(Video!Pictures)]

LEMMA TypesTogether ==
    ASSUME Video!ConstantsAssumption, HostTypes, ViewerTypes, Totalled
    PROVE  Video!TypeOK
<1>1. Len(flight) \in Nat
  BY DEF HostTypes
<1>2. bytes \in Nat
  BY <1>1, TotalIsNat DEF Totalled
<1> QED
  BY <1>2 DEF Video!TypeOK, HostTypes, ViewerTypes

LEMMA TypesApart == Video!TypeOK => HostTypes /\ ViewerTypes
  BY DEF Video!TypeOK, HostTypes, ViewerTypes

LEMMA TakeAckTypes ==
    ASSUME Video!ConstantsAssumption, Video!TypeOK, Video!TakeAck
    PROVE  HostTypes' /\ ViewerTypes'
<1>1. HostTypes /\ ViewerTypes
  BY TypesApart
<1>2. /\ acks # << >> /\ acks' = Tail(acks)
      /\ UNCHANGED << generation, monitorOf, switching, encoder, sending, pictures, produced,
         stream >>
      /\ UNCHANGED << Video!viewer, formats, Video!screen, over >>
      /\ Video!Acknowledge(Head(acks).picture) \/ UNCHANGED << flight, bytes >>
  BY DEF Video!TakeAck
<1>3. acks' \in Seq(Video!Ack)
  BY <1>1, <1>2, TailPointwise DEF HostTypes
<1>4. flight' \in Seq(Video!InFlight) /\ Len(flight') <= Window
  <2>1. flight \in Seq(Video!InFlight) /\ Len(flight) <= Window /\ Len(flight) \in Nat
          /\ Window \in Nat
    BY <1>1 DEF HostTypes, Video!ConstantsAssumption
  <2>2. ASSUME NEW k \in DOMAIN flight, flight' = Video!RemoveAt(flight, k)
        PROVE  flight' \in Seq(Video!InFlight) /\ Len(flight') <= Window
    <3>1. k \in 1 .. Len(flight)
      BY <2>1
    <3>2. flight' \in Seq(Video!InFlight) /\ Len(flight') = Len(flight) - 1
      BY <2>1, <2>2, <3>1, RemoveAtPointwise
    <3> QED
      BY <2>1, <3>2
  <2> QED
    BY <1>2, <2>1, <2>2 DEF Video!Acknowledge
<1> QED
  BY <1>1, <1>2, <1>3, <1>4 DEF HostTypes, ViewerTypes, Video!viewer, Video!screen

LEMMA SwitchTypes ==
    ASSUME Video!ConstantsAssumption, Video!TypeOK, RoomToSwitch, Video!Switch
    PROVE  HostTypes' /\ ViewerTypes'
<1>1. HostTypes /\ ViewerTypes
  BY TypesApart
<1>2. /\ switching # None /\ generation' = generation + 1
      /\ monitorOf' = [monitorOf EXCEPT ![generation + 1] = switching]
      /\ switching' = None /\ encoder' = << >> /\ flight' = << >>
      /\ stream' = Append(stream, Video!Format(generation + 1))
      /\ UNCHANGED << sending, pictures, produced, acks, Video!viewer, formats, Video!screen,
         over >>
  BY DEF Video!Switch
<1>3. generation + 1 \in Video!Generations
  <2>1. generation \in Nat /\ generation >= 1 /\ generation < MaxGeneration /\ MaxGeneration \in Nat
    BY <1>2, StreamTypes DEF RoomToSwitch, Video!ConstantsAssumption
  <2> QED
    BY <2>1 DEF Video!Generations
<1>4. Video!Format(generation + 1) \in Video!Message
  BY <1>3 DEF Video!Format, Video!Message
<1>5. stream' \in Seq(Video!Message)
  BY <1>1, <1>2, <1>4, AppendPointwise DEF HostTypes
<1>6. encoder' \in Seq(Video!Pictures) /\ flight' \in Seq(Video!InFlight) /\ Len(flight') <= Window
  BY <1>2 DEF Video!ConstantsAssumption
<1>7. monitorOf' \in [Video!Generations -> Monitors \cup {None}]
  BY <1>1, <1>2 DEF HostTypes
<1>8. generation' \in Video!Generations
  BY <1>2, <1>3
<1> QED
  BY <1>1, <1>2, <1>5, <1>6, <1>7, <1>8 DEF HostTypes, ViewerTypes, Video!viewer, Video!screen

LEMMA SubmitTypes ==
    ASSUME Video!ConstantsAssumption, Video!TypeOK, Video!Submit
    PROVE  HostTypes' /\ ViewerTypes'
<1> DEFINE f == [picture |-> pictures + 1, size |-> 0, late |-> FALSE]
<1>1. HostTypes /\ ViewerTypes
  BY TypesApart
<1>2. /\ pictures < MaxPictures /\ Video!CanSubmit /\ pictures' = pictures + 1
      /\ encoder' = Append(encoder, pictures + 1) /\ flight' = Append(flight, f)
      /\ UNCHANGED << generation, monitorOf, switching, sending, produced, stream, acks >>
      /\ UNCHANGED << Video!viewer, formats, Video!screen, over >>
  BY DEF Video!Submit
<1>3. MaxPictures \in Nat /\ MaxSize \in Nat /\ Window \in Nat /\ pictures \in Nat
  BY FlightTypes DEF Video!ConstantsAssumption
<1>4. \A x, y \in Nat : x < y => x + 1 \in 1 .. y /\ x + 1 \in 0 .. y
  OBVIOUS
<1>5. pictures + 1 \in Video!Pictures /\ pictures + 1 \in 0 .. MaxPictures
  BY <1>2, <1>3, <1>4 DEF Video!Pictures
<1>6. f \in Video!InFlight
  <2>1. 0 \in 0 .. MaxSize
    BY <1>3
  <2> QED
    BY <1>5, <2>1 DEF Video!InFlight
<1> HIDE DEF f
<1>7. encoder' \in Seq(Video!Pictures)
  <2>1. PICK e : e = pictures + 1
    OBVIOUS
  <2>2. encoder \in Seq(Video!Pictures) /\ e \in Video!Pictures /\ encoder' = Append(encoder, e)
    BY <1>1, <1>2, <1>5, <2>1 DEF HostTypes
  <2> QED
    BY <2>2, AppendPointwise
<1>8. flight' \in Seq(Video!InFlight) /\ Len(flight') = Len(flight) + 1 /\ Len(flight) \in Nat
  <2>1. flight \in Seq(Video!InFlight)
    BY <1>1 DEF HostTypes
  <2> QED
    BY <1>2, <1>6, <2>1, AppendPointwise
<1>9. Len(flight') <= Window
  <2>1. Len(flight) < Window
    BY <1>2 DEF Video!CanSubmit
  <2> QED
    BY <1>3, <1>8, <2>1
<1>10. pictures' \in 0 .. MaxPictures
  BY <1>2, <1>5
<1> QED
  BY <1>1, <1>2, <1>7, <1>8, <1>9, <1>10 DEF HostTypes, ViewerTypes, Video!viewer, Video!screen

LEMMA YieldTypes ==
    ASSUME Video!ConstantsAssumption, Video!TypeOK, Video!Yield
    PROVE  HostTypes' /\ ViewerTypes'
<1>1. HostTypes /\ ViewerTypes
  BY TypesApart
<1>2. PICK size \in Video!Sizes : /\ sending' = [picture |-> Head(encoder), size |-> size, at |-> 0]
                                  /\ Video!Encoded(Head(encoder), size)
                                  /\ produced' = [produced EXCEPT ![generation] = Append(@,
                                     Head(encoder))]
  BY DEF Video!Yield
<1>3. /\ encoder # << >> /\ encoder' = Tail(encoder)
      /\ UNCHANGED << generation, monitorOf, switching, pictures, stream, acks >>
      /\ UNCHANGED << Video!viewer, formats, Video!screen, over >>
  BY DEF Video!Yield
<1>4. encoder' \in Seq(Video!Pictures) /\ Head(encoder) \in Video!Pictures
  BY <1>1, <1>3, TailPointwise DEF HostTypes
<1>5. MaxSize \in Nat /\ size \in 0 .. MaxSize /\ 0 \in 0 .. MaxSize
  BY DEF Video!ConstantsAssumption, Video!Sizes
<1>6. sending' \in Video!Packet
  BY <1>2, <1>4, <1>5 DEF Video!Packet
<1>7. flight' \in Seq(Video!InFlight) /\ Len(flight') <= Window
  <2>1. flight \in Seq(Video!InFlight) /\ Len(flight) <= Window
    BY <1>1 DEF HostTypes
  <2>2. ASSUME NEW k \in DOMAIN flight, flight' = [flight EXCEPT ![k].size = size]
        PROVE  flight' \in Seq(Video!InFlight) /\ Len(flight') <= Window
    <3>1. PICK f : f = [flight[k] EXCEPT !.size = size]
      OBVIOUS
    <3>2. flight[k] \in Video!InFlight /\ k \in 1 .. Len(flight)
      BY <2>1
    <3>3. f \in Video!InFlight
      BY <1>5, <3>1, <3>2 DEF Video!InFlight
    <3>4. flight' = [flight EXCEPT ![k] = f]
      BY <2>2, <3>1
    <3> QED
      BY <2>1, <3>2, <3>3, <3>4
  <2> QED
    BY <1>2, <2>1, <2>2 DEF Video!Encoded
<1>8. produced' \in [Video!Generations -> Seq(Video!Pictures)]
  <2>1. PICK q : q = Append(produced[generation], Head(encoder))
    OBVIOUS
  <2>2. produced[generation] \in Seq(Video!Pictures)
    BY <1>1 DEF HostTypes
  <2>3. q \in Seq(Video!Pictures)
    BY <1>4, <2>1, <2>2, AppendPointwise
  <2>4. produced' = [produced EXCEPT ![generation] = q]
    BY <1>2, <2>1
  <2> QED
    BY <1>1, <2>3, <2>4 DEF HostTypes
<1> QED
  BY <1>1, <1>3, <1>4, <1>6, <1>7, <1>8 DEF HostTypes, ViewerTypes, Video!viewer, Video!screen

LEMMA SendFragmentTypes ==
    ASSUME Video!ConstantsAssumption, Video!TypeOK, StreamInv, Video!SendFragment
    PROVE  HostTypes' /\ ViewerTypes'
<1> DEFINE m == [generation |-> generation, packet |-> sending]
<1>1. HostTypes /\ ViewerTypes
  BY TypesApart
<1>2. /\ sending # Video!NoPacket /\ stream' = Append(stream, m)
      /\ sending' = IF sending.at + 1 = sending.size THEN Video!NoPacket
           ELSE [sending EXCEPT !.at = @ + 1]
      /\ UNCHANGED << generation, monitorOf, switching, encoder, flight, pictures, produced, acks >>
      /\ UNCHANGED << Video!viewer, formats, Video!screen, over >>
  BY DEF Video!SendFragment
<1>3. sending \in Video!Packet
  BY <1>1, <1>2 DEF HostTypes
<1>4. sending.at < sending.size
  BY <1>2 DEF StreamInv, Joined, Whole
<1>5. sending' \in Video!Packet \cup {Video!NoPacket}
  <2>1. sending.at \in Nat /\ sending.size \in Nat /\ sending.size <= MaxSize /\ MaxSize \in Nat
    BY <1>3, FragmentTypes DEF Video!ConstantsAssumption
  <2>2. sending.at + 1 \in 0 .. MaxSize
    BY <1>4, <2>1
  <2> QED
    BY <1>2, <1>3, <2>2 DEF Video!Packet
<1>6. stream' \in Seq(Video!Message)
  <2>1. m \in Video!Message
    BY <1>1 DEF HostTypes, Video!Message
  <2> HIDE DEF m
  <2> QED
    BY <1>1, <1>2, <2>1, AppendPointwise DEF HostTypes
<1> QED
  BY <1>1, <1>2, <1>5, <1>6 DEF HostTypes, ViewerTypes, Video!viewer, Video!screen

LEMMA GrowLateTypes ==
    ASSUME Video!ConstantsAssumption, Video!TypeOK, Video!GrowLate
    PROVE  HostTypes' /\ ViewerTypes'
<1>1. HostTypes /\ ViewerTypes
  BY TypesApart
<1>2. PICK k \in DOMAIN flight : flight' = [flight EXCEPT ![k].late = TRUE]
  BY DEF Video!GrowLate
<1>3. /\ UNCHANGED << generation, monitorOf, switching, encoder, sending, pictures, produced >>
      /\ UNCHANGED << stream, acks, Video!viewer, formats, Video!screen, over >>
  BY DEF Video!GrowLate
<1>4. flight' \in Seq(Video!InFlight) /\ Len(flight') <= Window
  <2>1. PICK f : f = [flight[k] EXCEPT !.late = TRUE]
    OBVIOUS
  <2>2. flight \in Seq(Video!InFlight) /\ Len(flight) <= Window /\ flight[k] \in Video!InFlight
          /\ k \in 1 .. Len(flight)
    BY <1>1 DEF HostTypes
  <2>3. f \in Video!InFlight
    BY <2>1, <2>2 DEF Video!InFlight
  <2>4. flight' = [flight EXCEPT ![k] = f]
    BY <1>2, <2>1
  <2> QED
    BY <2>2, <2>3, <2>4
<1> QED
  BY <1>1, <1>3, <1>4 DEF HostTypes, ViewerTypes, Video!viewer, Video!screen

LEMMA TakeFormatTypes ==
    ASSUME Video!ConstantsAssumption, Video!TypeOK, StreamInv, Video!TakeFormat
    PROVE  HostTypes' /\ ViewerTypes'
<1>1. HostTypes /\ ViewerTypes
  BY TypesApart
<1>2. /\ stream # << >> /\ stream' = Tail(stream) /\ decoding' = Head(stream).generation
           /\ assembly' = Video!NoPacket
      /\ formats' = Append(formats, Head(stream).generation)
      /\ UNCHANGED << Video!host, acks, slot, decoded, Video!screen, over >>
  BY DEF Video!TakeFormat
<1>3. Head(stream).generation \in Video!Generations /\ stream' \in Seq(Video!Message)
  BY <1>1, <1>2, HeadFits, TailPointwise DEF HostTypes
<1>4. decoding' \in 0 .. MaxGeneration
  BY <1>2, <1>3 DEF Video!Generations
<1>5. formats' \in Seq(Video!Generations)
  BY <1>1, <1>2, <1>3, AppendPointwise DEF ViewerTypes
<1> QED
  BY <1>1, <1>2, <1>3, <1>4, <1>5 DEF HostTypes, ViewerTypes, Video!host, Video!screen

LEMMA TakeFragmentTypes ==
    ASSUME Video!ConstantsAssumption, Video!TypeOK, StreamInv, Video!TakeFragment
    PROVE  HostTypes' /\ ViewerTypes'
<1>1. HostTypes /\ ViewerTypes
  BY TypesApart
<1>2. /\ stream # << >> /\ stream' = Tail(stream) /\ Head(stream).packet # Video!NoPacket
      /\ assembly' = [Head(stream).packet EXCEPT !.at = @ + 1]
      /\ UNCHANGED << Video!host, acks, decoding, slot, decoded, formats, Video!screen, over >>
  BY DEF Video!TakeFragment
<1>3. /\ Head(stream) = stream[1] /\ stream[1].packet \in Video!Packet /\ Whole(stream[1].packet)
      /\ stream' \in Seq(Video!Message)
  BY <1>1, <1>2, HeadFits, TailPointwise DEF HostTypes
<1>4. assembly' \in Video!Packet
  <2>1. PICK f : f = stream[1].packet
    OBVIOUS
  <2>2. /\ f \in Video!Packet /\ f.at \in Nat /\ f.size \in Nat /\ f.size <= MaxSize
             /\ MaxSize \in Nat
        /\ f.at < f.size /\ assembly' = [f EXCEPT !.at = @ + 1]
    BY <1>2, <1>3, <2>1, FragmentTypes DEF Whole, Video!ConstantsAssumption
  <2>3. f.at + 1 \in 0 .. MaxSize
    BY <2>2
  <2> QED
    BY <2>2, <2>3 DEF Video!Packet
<1> QED
  BY <1>1, <1>2, <1>3, <1>4 DEF HostTypes, ViewerTypes, Video!host, Video!screen

LEMMA DecodeTypes ==
    ASSUME Video!ConstantsAssumption, Video!TypeOK, StreamInv, Video!Decode
    PROVE  HostTypes' /\ ViewerTypes'
<1> DEFINE p == Head(stream).packet.picture
           a == [generation |-> decoding, picture |-> p]
<1>1. HostTypes /\ ViewerTypes
  BY TypesApart
<1>2. /\ stream # << >> /\ stream' = Tail(stream) /\ Head(stream).packet # Video!NoPacket
           /\ assembly' = Video!NoPacket
      /\ decoded' = [decoded EXCEPT ![decoding] = Append(@, p)] /\ acks' = Append(acks, a)
      /\ slot' \in {slot, decoding}
      /\ UNCHANGED << Video!host, decoding, formats, Video!screen, over >>
  BY DEF Video!Decode
<1>3. /\ Head(stream) = stream[1] /\ stream[1].packet \in Video!Packet
           /\ stream[1].packet # Video!NoPacket
      /\ stream' \in Seq(Video!Message)
      /\ Fits(decoding, assembly, stream[1]) /\ stream[1].generation \in Video!Generations
  BY <1>1, <1>2, HeadFits, TailPointwise DEF HostTypes
<1>4. decoding \in Video!Generations /\ p \in Video!Pictures
  BY <1>3, FragmentTypes DEF Fits
<1>5. a \in Video!Ack
  BY <1>4 DEF Video!Ack
<1> HIDE DEF p, a
<1>6. acks' \in Seq(Video!Ack)
  BY <1>1, <1>2, <1>5, AppendPointwise DEF HostTypes
<1>7. decoded' \in [Video!Generations -> Seq(Video!Pictures)]
  <2>1. PICK q : q = Append(decoded[decoding], p)
    OBVIOUS
  <2>2. decoded[decoding] \in Seq(Video!Pictures)
    BY <1>1, <1>4 DEF ViewerTypes
  <2>3. q \in Seq(Video!Pictures)
    BY <1>4, <2>1, <2>2, AppendPointwise
  <2>4. decoded' = [decoded EXCEPT ![decoding] = q]
    BY <1>2, <2>1
  <2> QED
    BY <1>1, <2>3, <2>4 DEF ViewerTypes
<1>8. slot' \in Video!Generations \cup {None}
  BY <1>1, <1>2, <1>4 DEF ViewerTypes
<1> QED
  BY <1>1, <1>2, <1>3, <1>6, <1>7, <1>8 DEF HostTypes, ViewerTypes, Video!host, Video!screen

LEMMA ScreenTypes ==
    ASSUME Video!ConstantsAssumption, Video!TypeOK, Video!PollEvents \/ Video!PollFrame
             \/ Video!Draw
    PROVE  HostTypes' /\ ViewerTypes'
<1>1. HostTypes /\ ViewerTypes
  BY TypesApart
<1>2. ASSUME Video!PollEvents PROVE HostTypes' /\ ViewerTypes'
  <2>1. formats' = << >> /\ format' = (IF formats = << >> THEN format ELSE Video!Last(formats))
          /\ window' = "frame"
        /\ UNCHANGED << Video!host, stream, acks, Video!viewer, shown, over >>
    BY <1>2 DEF Video!PollEvents
  <2>2. formats # << >> => Video!Last(formats) \in Video!Generations
    <3>1. formats \in Seq(Video!Generations)
      BY <1>1 DEF ViewerTypes
    <3>2. formats # << >> => Len(formats) \in 1 .. Len(formats)
            /\ \A k \in 1 .. Len(formats) : formats[k] \in Video!Generations
      BY <3>1
    <3> QED
      BY <3>2 DEF Video!Last
  <2>3. format' \in 0 .. MaxGeneration
    <3>1. Video!Generations \subseteq 0 .. MaxGeneration
      BY DEF Video!Generations
    <3> QED
      BY <1>1, <2>1, <2>2, <3>1 DEF ViewerTypes
  <2>4. formats' \in Seq(Video!Generations)
    BY <2>1
  <2> QED
    BY <1>1, <2>1, <2>3, <2>4 DEF HostTypes, ViewerTypes, Video!host, Video!viewer
<1>3. ASSUME Video!PollFrame PROVE HostTypes' /\ ViewerTypes'
  BY <1>1, <1>3 DEF Video!PollFrame, HostTypes, ViewerTypes, Video!host, Video!viewer
<1>4. ASSUME Video!Draw PROVE HostTypes' /\ ViewerTypes'
  BY <1>1, <1>4 DEF Video!Draw, HostTypes, ViewerTypes, Video!host, Video!viewer
<1> QED
  BY <1>2, <1>3, <1>4

-----------------------------------------------------------------------------
(* All of it *)

VideoInv == Video!TypeOK /\ StreamInv /\ WindowInv

LEMMA VideoInit == Video!ConstantsAssumption /\ Video!Init => VideoInv
<1> SUFFICES ASSUME Video!ConstantsAssumption, Video!Init PROVE VideoInv
  OBVIOUS
<1>1. /\ generation = 1 /\ switching = None /\ sending = Video!NoPacket /\ flight = << >>
           /\ bytes = 0
      /\ pictures = 0 /\ decoding = 0 /\ assembly = Video!NoPacket
  BY DEF Video!Init
<1>w. stream = << Video!Format(1) >>
  BY DEF Video!Init
<1>e. acks = << >> /\ encoder = << >> /\ formats = << >>
  BY DEF Video!Init
<1>s. slot = None /\ shown = None /\ window = "events" /\ format = 0 /\ over = ""
  BY DEF Video!Init
<1>h. produced = [g \in Video!Generations |-> << >>]
        /\ decoded = [g \in Video!Generations |-> << >>]
  BY DEF Video!Init
<1>g. \A g \in Video!Generations : produced[g] = << >> /\ decoded[g] = << >>
  BY <1>h
<1>2. 1 \in Video!Generations /\ 0 \in 0 .. MaxGeneration /\ 0 \in 0 .. MaxPictures
  BY DEF Video!ConstantsAssumption, Video!Generations
<1>3. Video!Format(1) \in Video!Message /\ Video!Format(1).packet = Video!NoPacket
        /\ Video!Format(1).generation = 1
  BY <1>2 DEF Video!Format, Video!Message
<1>4. Totalled
  BY <1>1, NoFrames DEF Totalled
<1>5. monitorOf \in [Video!Generations -> Monitors \cup {None}]
  BY DEF Video!Init, Video!ConstantsAssumption
<1>6. HostTypes
  <2>1. stream \in Seq(Video!Message)
    BY <1>w, <1>3
  <2>2. produced \in [Video!Generations -> Seq(Video!Pictures)]
    BY <1>h
  <2>3. Len(flight) <= Window
    BY <1>1 DEF Video!ConstantsAssumption
  <2> QED
    <3>1. encoder \in Seq(Video!Pictures) /\ acks \in Seq(Video!Ack)
            /\ flight \in Seq(Video!InFlight)
      BY <1>1, <1>e
    <3> QED
      BY <1>1, <1>2, <1>5, <2>1, <2>2, <2>3, <3>1 DEF HostTypes
<1>7. ViewerTypes
  <2>1. decoded \in [Video!Generations -> Seq(Video!Pictures)]
    BY <1>h
  <2> QED
    <3>1. formats \in Seq(Video!Generations)
      BY <1>e
    <3> QED
      BY <1>1, <1>2, <1>s, <2>1, <3>1 DEF ViewerTypes
<1>8. Video!TypeOK
  BY <1>4, <1>6, <1>7, TypesTogether
<1>9. Len(stream) = 1 /\ stream[1] = Video!Format(1) /\ stream # << >>
  BY <1>w
<1>10. Joined
  <2>1. Awaited = Video!NoPacket /\ Left(Video!NoPacket) = Video!NoPacket /\ Whole(sending)
          /\ Whole(Video!NoPacket)
    BY <1>1, NoPacketIs DEF Awaited, Left, Whole
  <2>2. Fits(decoding, assembly, stream[1])
    BY <1>1, <1>3, <1>9 DEF Fits
  <2>3. \A k \in 1 .. 1 : k = 1
    OBVIOUS
  <2> QED
    BY <1>1, <1>3, <1>9, <2>1, <2>2, <2>3 DEF Joined
<1>11. Ranked
  <2>1. PICK r : r = [k \in {1} |-> 0]
    OBVIOUS
  <2>2. r[1] = 0
    BY <2>1
  <2>3. Start = 1 /\ Ends(Video!NoPacket) = 1
    BY <1>1, <1>2, <1>g DEF Start, Ends
  <2>4. \A k \in 1 .. 1 : k = 1
    OBVIOUS
  <2>5. Ranks(r)
    BY <1>1, <1>3, <1>9, <2>2, <2>3, <2>4 DEF Ranks
  <2> QED
    BY <1>1, <1>9, <1>g, <2>5 DEF Ranked
<1>12. Video!ReferencesComplete
  BY <1>g DEF Video!ReferencesComplete
<1>13. WindowInv
  <2>1. Len(flight) = 0 /\ 1 .. 0 = {}
    BY <1>1
  <2> QED
    BY <1>1, <1>4, <1>s, <2>1 DEF WindowInv, Distinct, RoomToSwitch
<1> QED
  BY <1>8, <1>10, <1>11, <1>12, <1>13 DEF VideoInv, StreamInv

LEMMA ReconfigureTypes ==
    ASSUME Video!TypeOK, NEW m \in Monitors, Video!Reconfigure(m)
    PROVE  HostTypes' /\ ViewerTypes'
  BY TypesApart DEF Video!Reconfigure, HostTypes, ViewerTypes, Video!viewer, Video!screen

LEMMA OverTypes ==
    ASSUME Video!TypeOK, Video!Stalled \/ Video!Stop
    PROVE  HostTypes' /\ ViewerTypes'
  BY TypesApart DEF Video!Stalled, Video!Stop, HostTypes, ViewerTypes, Video!host, Video!viewer,
     Video!screen

LEMMA VideoStep == Video!ConstantsAssumption /\ VideoInv /\ [Video!Next]_(Video!vars) => VideoInv'
<1> SUFFICES ASSUME Video!ConstantsAssumption, VideoInv, [Video!Next]_(Video!vars) PROVE VideoInv'
  OBVIOUS
<1>0. Video!TypeOK /\ StreamInv /\ WindowInv /\ RoomToSwitch
  BY DEF VideoInv, WindowInv
<1>q. ASSUME HostTypes', ViewerTypes', StreamInv', WindowInv' PROVE VideoInv'
  <2>1. Video!TypeOK'
    <3>1. Video!ConstantsAssumption'
      BY DEF Video!ConstantsAssumption
    <3>2. Totalled'
      BY <1>q DEF WindowInv
    <3> QED
      BY <1>q, <3>1, <3>2, TypesTogether, PTL
  <2> QED
    BY <1>q, <2>1 DEF VideoInv
<1>1. ASSUME Video!TakeAck PROVE VideoInv'
  <2>1. StreamInv'
    BY <1>0, <1>1, StreamUnmoved DEF Video!TakeAck, Stream, Video!viewer
  <2> QED
    BY <1>0, <1>1, <1>q, <2>1, TakeAckTypes, TakeAckKeepsWindow
<1>2. ASSUME NEW m \in Monitors, Video!Reconfigure(m) PROVE VideoInv'
  <2>1. StreamInv'
    BY <1>0, <1>2, StreamUnmoved DEF Video!Reconfigure, Stream, Video!viewer
  <2>2. Keeps
    BY <1>2 DEF Video!Reconfigure, Keeps, Underway
  <2>3. WindowInv'
    BY <1>0, <1>2 DEF Video!Reconfigure, WindowInv, Distinct, Totalled, HasTotal, IsTotal,
       RoomToSwitch, Underway
  <2> QED
    BY <1>0, <1>2, <1>q, <2>1, <2>3, ReconfigureTypes
<1>3. ASSUME Video!Switch PROVE VideoInv'
  BY <1>0, <1>3, <1>q, SwitchKeeps, SwitchTypes, SwitchKeepsWindow
<1>4. ASSUME Video!Submit PROVE VideoInv'
  <2>1. StreamInv'
    BY <1>0, <1>4, StreamUnmoved DEF Video!Submit, Stream, Video!viewer
  <2> QED
    BY <1>0, <1>4, <1>q, <2>1, SubmitTypes, SubmitKeepsWindow
<1>5. ASSUME Video!Yield PROVE VideoInv'
  BY <1>0, <1>5, <1>q, YieldKeepsStream, YieldTypes, YieldKeepsWindow
<1>6. ASSUME Video!SendFragment PROVE VideoInv'
  BY <1>0, <1>6, <1>q, SendFragmentKeeps, SendFragmentTypes, SendFragmentKeepsWindow
<1>7. ASSUME Video!GrowLate PROVE VideoInv'
  <2>1. StreamInv'
    BY <1>0, <1>7, StreamUnmoved DEF Video!GrowLate, Stream, Video!viewer
  <2> QED
    BY <1>0, <1>7, <1>q, <2>1, GrowLateTypes, GrowLateKeepsWindow
<1>8. ASSUME Video!Stalled \/ Video!Stop PROVE VideoInv'
  <2>1. StreamInv'
    BY <1>0, <1>8, StreamUnmoved DEF Video!Stalled, Video!Stop, Stream, Video!host, Video!viewer
  <2>2. WindowInv'
    BY <1>0, <1>8 DEF Video!Stalled, Video!Stop, Video!host, WindowInv, Distinct, Totalled,
       HasTotal, IsTotal, RoomToSwitch
  <2> QED
    BY <1>0, <1>8, <1>q, <2>1, <2>2, OverTypes
<1>9. ASSUME Video!TakeFormat PROVE VideoInv'
  BY <1>0, <1>9, <1>q, TakeFormatKeeps, TakeFormatTypes, TakeFormatKeepsWindow
<1>10. ASSUME Video!TakeFragment PROVE VideoInv'
  BY <1>0, <1>10, <1>q, TakeFragmentKeeps, TakeFragmentTypes, TakeFragmentKeepsWindow
<1>11. ASSUME Video!Decode PROVE VideoInv'
  BY <1>0, <1>11, <1>q, DecodeKeepsStream, DecodeTypes, DecodeKeepsWindow
<1>12. ASSUME Video!PollEvents \/ Video!PollFrame \/ Video!Draw PROVE VideoInv'
  <2>1. UNCHANGED Stream /\ UNCHANGED Sent
    BY <1>12 DEF Video!PollEvents, Video!PollFrame, Video!Draw, Stream, Sent, Video!host,
       Video!viewer
  <2> QED
    BY <1>0, <1>12, <1>q, <2>1, StreamUnmoved, WindowUnmoved, ScreenTypes
<1>13. ASSUME UNCHANGED Video!vars PROVE VideoInv'
  <2>1. UNCHANGED Stream /\ UNCHANGED Sent
    BY <1>13 DEF Video!vars, Stream, Sent, Video!host, Video!viewer
  <2>2. HostTypes' /\ ViewerTypes'
    BY <1>0, <1>13, TypesApart DEF Video!vars, HostTypes, ViewerTypes, Video!host, Video!viewer,
       Video!screen
  <2> QED
    BY <1>0, <1>q, <2>1, <2>2, StreamUnmoved, WindowUnmoved
<1> QED
  BY <1>1, <1>2, <1>3, <1>4, <1>5, <1>6, <1>7, <1>8, <1>9, <1>10, <1>11, <1>12, <1>13
     DEF Video!Next, Video!Host, Video!Viewer, Video!Screen

\* What the invariant means for the viewer and the host
LEMMA VideoMeans ==
    Video!ConstantsAssumption /\ VideoInv => Video!TypeOK /\ Video!ReferencesComplete
      /\ Video!NothingRefused /\ Video!FlightIsUnderway
<1> SUFFICES ASSUME Video!ConstantsAssumption, VideoInv
             PROVE  Video!TypeOK /\ Video!ReferencesComplete /\ Video!NothingRefused
                      /\ Video!FlightIsUnderway
  OBVIOUS
<1>0. Video!TypeOK /\ StreamInv /\ WindowInv
  BY DEF VideoInv
<1>1. Video!NothingRefused
  <2> SUFFICES ASSUME stream # << >>, Head(stream).packet # Video!NoPacket
               PROVE  Video!Continues(Head(stream).packet) /\ decoding = Head(stream).generation
    BY DEF Video!NothingRefused
  <2>1. Head(stream) = stream[1] /\ Fits(decoding, assembly, stream[1])
    BY <1>0, HeadFits
  <2> QED
    BY <2>1 DEF Fits, Video!Continues
<1>2. Video!FlightIsUnderway
  <2>1. Len(flight) \in Nat /\ DOMAIN flight = 1 .. Len(flight)
    BY <1>0, FlightTypes
  <2>2. bytes = Video!Counted[Len(flight)]
    BY <1>0, <2>1, CountedIsTotal DEF WindowInv, Totalled
  <2>3. over = "" => \A k \in DOMAIN flight : Underway(flight[k].picture)
    BY <1>0, <2>1 DEF WindowInv
  <2> QED
    BY <2>2, <2>3 DEF Video!FlightIsUnderway, Underway
<1> QED
  BY <1>0, <1>1, <1>2 DEF StreamInv

-----------------------------------------------------------------------------
(* Congestion *)

\* What observe counts is covered by windows that really were so, and have not been used yet
Covered ==
    /\ calm \in 0 .. 3 /\ paid \in 0 .. 3 /\ quick \in 0 .. 5
    /\ healthy <= calm /\ healthy <= paid
    /\ faster <= quick

\* The frame rate is one that the last window could have done
Done ==
    /\ last \in Rates!Tiers
    /\ fps <= last
    /\ target = Rates!Target(bitrate, profile, fps)

RateInv == Rates!TypeOK /\ Covered /\ Done

-----------------------------------------------------------------------------
(* Lemmas about the arithmetic of adaptive.rs *)

\* Some tier is always left, and the highest of them is one of them.
LEMMA SustainableIsTier ==
    ASSUME NEW work \in Nat \ {0}
    PROVE  Rates!Sustainable(work) \in Rates!Tiers
<1> DEFINE limit == Rates!Clamp(850000 \div work, 10, 60)
           left  == { t \in Rates!Tiers : t <= limit }
<1>1. 850000 \div work \in Int
  OBVIOUS
<1>2. limit \in Int /\ limit >= 10
  BY <1>1 DEF Rates!Clamp
<1> HIDE DEF limit
<1>3. \E x \in left : \A y \in left : x >= y
  BY <1>2 DEF Rates!Tiers
<1>4. (CHOOSE x \in left : \A y \in left : x >= y) \in left
  BY <1>3
<1>5. Rates!Sustainable(work) \in left
  BY <1>4 DEF Rates!Sustainable, Rates!Max, limit
<1> QED
  BY <1>5

LEMMA WorksArePositive ==
    ASSUME Rates!ConstantsAssumption, NEW w \in Works
    PROVE  w \in Nat \ {0}
  BY SMT DEF Rates!ConstantsAssumption

\* A cut is a cut, also after rounding.
LEMMA CutIsLess ==
    ASSUME Rates!ConstantsAssumption, NEW b \in Nat
    PROVE  Rates!Cut(b) \in Int /\ Rates!Cut(b) <= b
<1> DEFINE q == b \div 100
           r == b % 100
           x == 65 * q + (65 * r) \div 100
<1>1. x \in Nat /\ x <= b
  <2>1. q \in Nat
    OBVIOUS
  <2>2. r \in 0 .. 99
    OBVIOUS
  <2>3. b = 100 * q + r
    OBVIOUS
  <2> HIDE DEF q, r
  <2>4. (65 * r) \div 100 \in Nat /\ (65 * r) \div 100 <= r
    BY <2>2
  <2> QED
    BY <2>1, <2>2, <2>3, <2>4
<1> HIDE DEF x
<1>2. x % Grain \in Nat
  BY <1>1 DEF Rates!ConstantsAssumption
<1>3. Rates!Cut(b) = x - (x % Grain)
  BY DEF Rates!Cut, Rates!Rounded, x
<1> QED
  BY <1>1, <1>2, <1>3

\* Growth is growth: rounding takes less than what was added.
LEMMA GrownIsMore ==
    ASSUME Rates!ConstantsAssumption, NEW b \in Nat
    PROVE  Rates!Grown(b) \in Int /\ Rates!Grown(b) >= b
<1> DEFINE more == IF b \div 5 > 100000 THEN b \div 5 ELSE 100000
           x    == b + more
<1>1. more \in Nat /\ more >= 100000
  BY DEF more
<1> HIDE DEF more
<1>2. x \in Nat /\ x >= b + 100000
  BY <1>1
<1> HIDE DEF x
<1>3. Grain <= 100000
  BY DEF Rates!ConstantsAssumption
<1>4. x % Grain \in 0 .. Grain - 1
  BY <1>2 DEF Rates!ConstantsAssumption
<1>5. Rates!Grown(b) = x - (x % Grain)
  BY DEF Rates!Grown, Rates!Rounded, x, more
<1> QED
  BY <1>2, <1>3, <1>4, <1>5 DEF Rates!ConstantsAssumption

\* The target of any rate is one the encoder knows, and no faster than the highest frame rate.
LEMMA TargetTyped ==
    ASSUME NEW b \in Int, NEW p \in Rates!Profiles, NEW f \in Rates!Tiers
    PROVE  Rates!Target(b, p, f) \in [size : 0 .. 5, fps : Rates!Tiers]
             /\ Rates!Target(b, p, f).fps <= f
<1>1. Rates!Tier(b, p) \in [size : 0 .. 5, fps : Rates!Tiers]
  BY DEF Rates!Tier, Rates!Profiles, Rates!Tiers
<1>2. Rates!Least(Rates!Tier(b, p).fps, f) \in Rates!Tiers
        /\ Rates!Least(Rates!Tier(b, p).fps, f) <= f
  BY <1>1 DEF Rates!Least, Rates!Tiers
<1> QED
  BY <1>1, <1>2 DEF Rates!Target

-----------------------------------------------------------------------------
\* What the proofs need to know of the two bounds.
LEMMA Bounds == /\ Rates!MIN_BITRATE \in Nat /\ Rates!MAX_CEILING \in Nat
                /\ Rates!MIN_BITRATE <= 1800000 /\ 1800000 <= Rates!MAX_CEILING
  BY DEF Rates!MIN_BITRATE, Rates!MAX_CEILING

LEMMA RateInit == Rates!ConstantsAssumption /\ Rates!Init => RateInv
<1> SUFFICES ASSUME Rates!ConstantsAssumption, Rates!Init PROVE RateInv
  OBVIOUS
<1>1. ceiling \in Rates!MIN_BITRATE .. Rates!MAX_CEILING
  <2>1. PICK a \in Asked : ceiling = Rates!Clamp(a, Rates!MIN_BITRATE, Rates!MAX_CEILING)
    BY DEF Rates!Init
  <2>2. a \in Nat
    BY <2>1 DEF Rates!ConstantsAssumption
  <2> QED
    BY <2>1, <2>2, Bounds DEF Rates!Clamp
<1>2. bitrate \in Rates!MIN_BITRATE .. ceiling
  <2>1. bitrate = Rates!Least(1800000, ceiling)
    BY DEF Rates!Init
  <2> QED
    BY <1>1, <2>1, Bounds DEF Rates!Least
<1>3. fps = 60 /\ fps \in Rates!Tiers /\ last = 60 /\ profile \in Rates!Profiles
  BY DEF Rates!Init, Rates!Tiers, Rates!Profiles
<1>4. target = Rates!Target(bitrate, profile, fps)
  BY DEF Rates!Init
<1>5. target \in [size : 0 .. 5, fps : Rates!Tiers]
  <2>1. bitrate \in Int
    BY <1>1, <1>2, Bounds
  <2> QED
    BY <1>3, <1>4, <2>1, TargetTyped
<1>6. baseline = Rates!Unknown /\ healthy = 0 /\ congested = FALSE /\ faster = 0
      /\ calm = 0 /\ paid = 3 /\ quick = 0
  BY DEF Rates!Init
<1>7. Rates!TypeOK
  <2>1. congested \in BOOLEAN
    BY <1>6
  <2>2. baseline \in Deliveries \cup {Rates!Unknown} /\ healthy \in 0 .. 2 /\ faster \in 0 .. 4
    BY <1>6
  <2> QED
    BY <1>1, <1>2, <1>3, <1>5, <2>1, <2>2 DEF Rates!TypeOK
<1> QED
  BY <1>3, <1>4, <1>6, <1>7 DEF RateInv, Covered, Done

-----------------------------------------------------------------------------
(* A window *)

LEMMA RateKeeps ==
    ASSUME Rates!ConstantsAssumption, RateInv, NEW f \in Rates!Feedback, Rates!Observe(f)
    PROVE  /\ bitrate' \in Rates!MIN_BITRATE .. ceiling
           /\ healthy' \in 0 .. 2 /\ healthy' <= calm' /\ healthy' <= paid'
           /\ calm' \in 0 .. 3 /\ paid' \in 0 .. 3
           /\ bitrate' > bitrate => calm' = 3 /\ paid >= 2
<1> USE Bounds
<1>1. /\ ceiling \in Rates!MIN_BITRATE .. Rates!MAX_CEILING
           /\ bitrate \in Rates!MIN_BITRATE .. ceiling
      /\ healthy \in 0 .. 2 /\ calm \in 0 .. 3 /\ paid \in 0 .. 3
      /\ healthy <= calm /\ healthy <= paid
  BY DEF RateInv, Rates!TypeOK, Covered
<1>2. bitrate \in Nat
  BY <1>1
<1>3. calm' = IF ~Rates!Congested(f) /\ f.acknowledged /\ ~f.slow THEN Rates!Least(calm + 1, 3)
        ELSE 0
  BY DEF Rates!Observe
<1>4. paid' = IF bitrate' > bitrate THEN 0 ELSE Rates!Least(paid + 1, 3)
  BY DEF Rates!Observe
<1>5. CASE Rates!Congested(f)
        /\ bitrate' = Rates!Least(Rates!Clamp(Rates!Cut(bitrate), Rates!MIN_BITRATE,
           Rates!MAX_CEILING), ceiling) /\ healthy' = 0
  <2>1. Rates!Cut(bitrate) \in Int /\ Rates!Cut(bitrate) <= bitrate
    BY <1>2, CutIsLess
  <2>2. bitrate' \in Rates!MIN_BITRATE .. ceiling /\ bitrate' <= bitrate
    BY <1>1, <1>5, <2>1 DEF Rates!Least, Rates!Clamp
  <2> QED
    BY <1>1, <1>3, <1>4, <1>5, <2>2 DEF Rates!Least
<1>6. CASE /\ ~Rates!Congested(f) /\ f.acknowledged /\ ~f.slow
           /\ healthy + 1 >= 3
           /\ bitrate' = Rates!Least(Rates!Grown(bitrate), ceiling) /\ healthy' = 0
  <2>1. Rates!Grown(bitrate) \in Int /\ Rates!Grown(bitrate) >= bitrate
    BY <1>2, GrownIsMore
  <2>2. bitrate' \in Rates!MIN_BITRATE .. ceiling
    BY <1>1, <1>6, <2>1 DEF Rates!Least
  <2> QED
    BY <1>1, <1>3, <1>4, <1>6, <2>2 DEF Rates!Least
<1>7. CASE /\ ~Rates!Congested(f) /\ f.acknowledged /\ ~f.slow
           /\ ~(healthy + 1 >= 3)
           /\ bitrate' = bitrate /\ healthy' = healthy + 1
  BY <1>1, <1>3, <1>4, <1>7 DEF Rates!Least
<1>8. CASE ~Rates!Congested(f) /\ ~(f.acknowledged /\ ~f.slow) /\ bitrate' = bitrate /\ healthy' = 0
  BY <1>1, <1>3, <1>4, <1>8 DEF Rates!Least
<1> QED
  BY <1>5, <1>6, <1>7, <1>8 DEF Rates!Observe, Rates!Rate

LEMMA FrameRateKeeps ==
    ASSUME Rates!ConstantsAssumption, RateInv, NEW f \in Rates!Feedback, Rates!Observe(f)
    PROVE  /\ fps' \in Rates!Tiers /\ last' \in Rates!Tiers /\ fps' <= last'
           /\ faster' \in 0 .. 4 /\ quick' \in 0 .. 5 /\ faster' <= quick'
           /\ fps' > fps => quick' = 5
<1> DEFINE tier == Rates!Sustainable(f.work)
<1>1. tier \in Rates!Tiers
  <2>1. f.work \in Works
    BY DEF Rates!Feedback
  <2>2. f.work \in Nat \ {0}
    BY <2>1, WorksArePositive
  <2> QED
    BY <2>2, SustainableIsTier
<1>2. fps \in Rates!Tiers /\ faster \in 0 .. 4 /\ quick \in 0 .. 5 /\ faster <= quick
  BY DEF RateInv, Rates!TypeOK, Covered
<1>3. /\ last' = tier
      /\ quick' = IF ~Rates!Congested(f) /\ f.acknowledged
           /\ tier > fps THEN Rates!Least(quick + 1, 5) ELSE 0
  BY DEF Rates!Observe
<1>4. \/ tier < fps /\ fps' = tier /\ faster' = 0
      \/ /\ tier > fps /\ f.acknowledged /\ ~Rates!Congested(f)
         /\ IF faster + 1 >= 5 THEN fps' = tier /\ faster' = 0 ELSE fps' = fps
              /\ faster' = faster + 1
      \/ tier >= fps /\ ~(tier > fps /\ f.acknowledged /\ ~Rates!Congested(f)) /\ fps' = fps
           /\ faster' = 0
  BY DEF Rates!Observe, Rates!FrameRate
<1> HIDE DEF tier
<1>5. CASE tier < fps /\ fps' = tier /\ faster' = 0
  BY <1>1, <1>2, <1>3, <1>5 DEF Rates!Least, Rates!Tiers
<1>6. CASE /\ tier > fps /\ f.acknowledged /\ ~Rates!Congested(f)
           /\ IF faster + 1 >= 5 THEN fps' = tier /\ faster' = 0 ELSE fps' = fps
                /\ faster' = faster + 1
  BY <1>1, <1>2, <1>3, <1>6 DEF Rates!Least, Rates!Tiers
<1>7. CASE tier >= fps /\ ~(tier > fps /\ f.acknowledged /\ ~Rates!Congested(f)) /\ fps' = fps
        /\ faster' = 0
  BY <1>1, <1>2, <1>3, <1>7 DEF Rates!Least, Rates!Tiers
<1> QED
  BY <1>4, <1>5, <1>6, <1>7

LEMMA ObserveKeeps ==
    ASSUME Rates!ConstantsAssumption, RateInv, NEW f \in Rates!Feedback, Rates!Observe(f)
    PROVE  RateInv'
<1>1. UNCHANGED << ceiling, profile >>
  BY DEF Rates!Observe
<1>2. baseline' \in Deliveries \cup {Rates!Unknown}
  BY DEF Rates!Observe, Rates!Baseline, Rates!Least, Rates!Feedback, RateInv, Rates!TypeOK
<1>3. congested' \in BOOLEAN
  <2>1. f.saturated \in BOOLEAN
    BY DEF Rates!Feedback
  <2>2. congested' = (f.saturated
          \/ (f.delivery > Rates!Least(Rates!Baseline(f) + 120, 600) /\ f.delivery > 200))
    BY DEF Rates!Observe, Rates!Congested
  <2> QED
    BY <2>1, <2>2
<1>4. target' \in [size : 0 .. 5, fps : Rates!Tiers]
        /\ target' = Rates!Target(bitrate', profile', fps')
  <2>1. bitrate' \in Int /\ profile \in Rates!Profiles /\ fps' \in Rates!Tiers
    BY RateKeeps, FrameRateKeeps, Bounds DEF RateInv, Rates!TypeOK
  <2>2. target' = Rates!Target(bitrate', profile, fps')
    BY DEF Rates!Observe
  <2> QED
    BY <1>1, <2>1, <2>2, TargetTyped
<1>5. Rates!TypeOK'
  BY <1>1, <1>2, <1>3, <1>4, RateKeeps, FrameRateKeeps DEF RateInv, Rates!TypeOK
<1> QED
  BY <1>4, <1>5, RateKeeps, FrameRateKeeps DEF RateInv, Covered, Done

LEMMA SelectKeeps ==
    ASSUME RateInv, NEW p \in Rates!Profiles, Rates!Select(p)
    PROVE  RateInv'
<1>1. target' = Rates!Target(bitrate, p, fps) /\ target' \in [size : 0 .. 5, fps : Rates!Tiers]
  BY TargetTyped, Bounds DEF Rates!Select, RateInv, Rates!TypeOK
<1> QED
  BY <1>1 DEF Rates!Select, RateInv, Rates!TypeOK, Covered, Done, Rates!adaptive, Rates!history

LEMMA RateStep == Rates!ConstantsAssumption /\ RateInv /\ [Rates!Next]_(Rates!vars) => RateInv'
<1> SUFFICES ASSUME Rates!ConstantsAssumption, RateInv, [Rates!Next]_(Rates!vars) PROVE RateInv'
  OBVIOUS
<1>1. CASE UNCHANGED Rates!vars
  BY <1>1 DEF Rates!vars, Rates!adaptive, Rates!history, RateInv, Rates!TypeOK, Covered, Done
<1>2. CASE Rates!Next
  BY <1>2, ObserveKeeps, SelectKeeps DEF Rates!Next
<1> QED
  BY <1>1, <1>2

\* What the invariant means for what is asked of the encoder
LEMMA RateMeans == RateInv => Rates!TypeOK /\ Rates!WithinCapacity
<1> SUFFICES ASSUME RateInv PROVE target.fps <= last
  BY DEF RateInv, Done, Rates!WithinCapacity
<1>1. target.fps <= fps
  BY TargetTyped, Bounds DEF RateInv, Rates!TypeOK, Done
<1>2. target.fps \in Rates!Tiers /\ fps \in Rates!Tiers /\ last \in Rates!Tiers /\ fps <= last
  BY DEF RateInv, Rates!TypeOK, Done
<1> QED
  BY <1>1, <1>2 DEF Rates!Tiers

LEMMA RateStepEarned ==
    Rates!ConstantsAssumption /\ RateInv /\ [Rates!Next]_(Rates!vars)
      => [bitrate' > bitrate => calm' = 3 /\ paid >= 2]_(Rates!vars)
<1> SUFFICES ASSUME Rates!ConstantsAssumption, RateInv, Rates!Next, bitrate' > bitrate
             PROVE  calm' = 3 /\ paid >= 2
  OBVIOUS
<1>1. ASSUME NEW p \in Rates!Profiles, Rates!Select(p) PROVE FALSE
  BY <1>1, Bounds DEF Rates!Select, Rates!adaptive, RateInv, Rates!TypeOK, Rates!MAX_CEILING
<1> QED
  BY <1>1, RateKeeps DEF Rates!Next

LEMMA FrameRateStepEarned ==
    Rates!ConstantsAssumption /\ RateInv /\ [Rates!Next]_(Rates!vars)
      => [fps' > fps => quick' = 5]_(Rates!vars)
<1> SUFFICES ASSUME Rates!ConstantsAssumption, RateInv, Rates!Next, fps' > fps
             PROVE  quick' = 5
  OBVIOUS
<1>1. ASSUME NEW p \in Rates!Profiles, Rates!Select(p) PROVE FALSE
  BY <1>1 DEF Rates!Select, Rates!adaptive, RateInv, Rates!TypeOK, Rates!Tiers
<1> QED
  BY <1>1, FrameRateKeeps DEF Rates!Next

-----------------------------------------------------------------------------
(* ClipboardSync *)

FromUser == {"on", "off"}

\* What the user of this side did not copy, this side has seen or will see for the first time
Known == \A s \in Clipboards!Sides : owner[s] \notin FromUser => fingerprint[s] \in {None, clip[s]}

\* A copy of the user of s that the next look may send
Unsent(s) == IF owner[s] \in FromUser /\ fingerprint[s] \notin {None, clip[s]} THEN 1 ELSE 0

\* Every message, and every copy still to be sent, is for a copy of its own
Accounted == sent + Unsent("host") + Unsent("viewer") <= copies

ClipInv == Clipboards!TypeOK /\ Known /\ Accounted

-----------------------------------------------------------------------------
LEMMA ClipInit == Clipboards!ConstantsAssumption /\ Clipboards!Init => ClipInv
<1> SUFFICES ASSUME Clipboards!ConstantsAssumption, Clipboards!Init PROVE ClipInv
  OBVIOUS
<1>1. Clipboards!TypeOK
  <2>1. {MaxCopies, MaxToggles, MaxBusy} \subseteq Nat
    BY DEF Clipboards!ConstantsAssumption
  <2>2. copies \in 0 .. MaxCopies /\ toggles \in 0 .. MaxToggles /\ busy \in 0 .. MaxBusy
    BY <2>1 DEF Clipboards!Init
  <2>3. /\ wire \in [Clipboards!Sides -> Seq(Texts)] /\ inbox \in [Clipboards!Sides -> Seq(Texts)]
        /\ Len(inbox["viewer"]) <= 1
    BY DEF Clipboards!Init, Clipboards!Sides
  <2> QED
    BY <2>2, <2>3 DEF Clipboards!Init, Clipboards!TypeOK, Clipboards!Owners
<1>2. Known
  BY DEF Clipboards!Init, Known
<1>3. Accounted
  BY DEF Clipboards!Init, Accounted, Unsent, FromUser, Clipboards!Sides
<1> QED
  BY <1>1, <1>2, <1>3 DEF ClipInv

LEMMA TypeKept ==
    Clipboards!ConstantsAssumption /\ Clipboards!TypeOK /\ [Clipboards!Next]_(Clipboards!vars)
      => Clipboards!TypeOK'
<1> SUFFICES ASSUME Clipboards!ConstantsAssumption, Clipboards!TypeOK,
[Clipboards!Next]_(Clipboards!vars) PROVE Clipboards!TypeOK'
  OBVIOUS
<1>c. MaxCopies \in Nat /\ MaxToggles \in Nat /\ MaxBusy \in Nat
  BY DEF Clipboards!ConstantsAssumption
<1>u. CASE UNCHANGED Clipboards!vars
  BY <1>u DEF Clipboards!vars, Clipboards!counters, Clipboards!TypeOK
<1>1. ASSUME NEW s \in Clipboards!Sides, NEW t \in Texts,
             Clipboards!Copy(s, t) PROVE Clipboards!TypeOK'
  BY <1>1, <1>c DEF Clipboards!Copy, Clipboards!TypeOK, Clipboards!Owners
<1>2. ASSUME NEW s \in Clipboards!Sides, Clipboards!Toggle(s) PROVE Clipboards!TypeOK'
  BY <1>2, <1>c DEF Clipboards!Toggle, Clipboards!TypeOK
<1>3. ASSUME NEW s \in Clipboards!Sides, Clipboards!Forget(s) PROVE Clipboards!TypeOK'
  BY <1>3 DEF Clipboards!Forget, Clipboards!TypeOK, Clipboards!counters
<1>4. ASSUME NEW s \in Clipboards!Sides, Clipboards!Observe(s) PROVE Clipboards!TypeOK'
  <2>1. clip[s] \in Texts /\ wire[Clipboards!Peer(s)] \in Seq(Texts)
          /\ Append(wire[Clipboards!Peer(s)], clip[s]) \in Seq(Texts)
    BY DEF Clipboards!TypeOK, Clipboards!Sides, Clipboards!Peer
  <2>2. wire' \in [Clipboards!Sides -> Seq(Texts)]
    BY <1>4, <2>1 DEF Clipboards!Observe, Clipboards!TypeOK
  <2>3. sent' \in Nat
    BY <1>4 DEF Clipboards!Observe, Clipboards!TypeOK
  <2> QED
    BY <1>4, <2>2, <2>3 DEF Clipboards!Observe, Clipboards!TypeOK, Clipboards!counters
<1>5. ASSUME NEW s \in Clipboards!Sides, Clipboards!Receive(s) PROVE Clipboards!TypeOK'
  <2>1. Head(wire[s]) \in Texts /\ wire' \in [Clipboards!Sides -> Seq(Texts)]
    BY <1>5 DEF Clipboards!Receive, Clipboards!TypeOK
  <2>2. inbox' \in [Clipboards!Sides -> Seq(Texts)] /\ Len(inbox'["viewer"]) <= 1
    BY <1>5, <2>1 DEF Clipboards!Receive, Clipboards!Room, Clipboards!TypeOK, Clipboards!Sides
  <2> QED
    BY <1>5, <2>1, <2>2 DEF Clipboards!Receive, Clipboards!TypeOK, Clipboards!counters
<1>6. ASSUME NEW s \in Clipboards!Sides, Clipboards!Apply(s)
               \/ Clipboards!ApplyBusy(s) PROVE Clipboards!TypeOK'
  <2>i. inbox[s] # << >> /\ inbox' = [inbox EXCEPT ![s] = Tail(@)]
    BY <1>6 DEF Clipboards!Apply, Clipboards!ApplyBusy
  <2>q. /\ Head(inbox[s]) \in Texts /\ Tail(inbox[s]) \in Seq(Texts)
        /\ Len(Tail(inbox[s])) <= Len(inbox[s])
    BY <2>i DEF Clipboards!TypeOK
  <2>1. /\ Head(inbox[s]) \in Texts /\ inbox' \in [Clipboards!Sides -> Seq(Texts)]
        /\ Len(inbox'["viewer"]) <= 1
    BY <2>i, <2>q DEF Clipboards!TypeOK, Clipboards!Sides
  <2>2. CASE Clipboards!Apply(s)
    BY <2>1, <2>2 DEF Clipboards!Apply, Clipboards!TypeOK, Clipboards!Owners, Clipboards!counters
  <2>3. CASE Clipboards!ApplyBusy(s)
    BY <2>1, <2>3, <1>c DEF Clipboards!ApplyBusy, Clipboards!TypeOK
  <2> QED
    BY <1>6, <2>2, <2>3
<1> QED
  BY <1>u, <1>1, <1>2, <1>3, <1>4, <1>5, <1>6 DEF Clipboards!Next, Clipboards!User,
     Clipboards!Endpoint

-----------------------------------------------------------------------------
LEMMA KnownKept == Clipboards!TypeOK /\ Known /\ [Clipboards!Next]_(Clipboards!vars) => Known'
<1> SUFFICES ASSUME Clipboards!TypeOK, Known, [Clipboards!Next]_(Clipboards!vars) PROVE Known'
  OBVIOUS
<1>u. CASE UNCHANGED Clipboards!vars
  BY <1>u DEF Clipboards!vars, Known
<1>1. ASSUME NEW s \in Clipboards!Sides, NEW t \in Texts, Clipboards!Copy(s, t) PROVE Known'
  BY <1>1 DEF Clipboards!Copy, Clipboards!TypeOK, Known, FromUser
<1>2. ASSUME NEW s \in Clipboards!Sides, Clipboards!Toggle(s) PROVE Known'
  BY <1>2 DEF Clipboards!Toggle, Known
<1>3. ASSUME NEW s \in Clipboards!Sides, Clipboards!Forget(s) PROVE Known'
  BY <1>3 DEF Clipboards!Forget, Clipboards!TypeOK, Known
<1>4. ASSUME NEW s \in Clipboards!Sides, Clipboards!Observe(s) PROVE Known'
  BY <1>4 DEF Clipboards!Observe, Clipboards!TypeOK, Known
<1>5. ASSUME NEW s \in Clipboards!Sides, Clipboards!Receive(s) PROVE Known'
  BY <1>5 DEF Clipboards!Receive, Known
<1>6. ASSUME NEW s \in Clipboards!Sides, Clipboards!Apply(s) PROVE Known'
  BY ZenonT(30), <1>6 DEF Clipboards!Apply, Clipboards!TypeOK, Known
<1>7. ASSUME NEW s \in Clipboards!Sides, Clipboards!ApplyBusy(s) PROVE Known'
  BY <1>7 DEF Clipboards!ApplyBusy, Known
<1> QED
  BY <1>u, <1>1, <1>2, <1>3, <1>4, <1>5, <1>6, <1>7 DEF Clipboards!Next, Clipboards!User,
     Clipboards!Endpoint

\* A side has at most one copy still to be sent: the last one.
LEMMA UnsentIsBit == Unsent("host") \in {0, 1} /\ Unsent("viewer") \in {0, 1}
  BY DEF Unsent

\* A message is sent for the copy its own user made.
LEMMA SenderHasUnsent ==
    ASSUME Clipboards!TypeOK, Known, NEW s \in Clipboards!Sides, Clipboards!Observe(s),
           fingerprint[s] # None
    PROVE  Unsent(s) = 1 /\ Unsent(s)' = 0
<1>1. owner[s] \in FromUser
  BY DEF Clipboards!Observe, Known
<1>2. fingerprint'[s] = clip[s] /\ clip' = clip
  BY DEF Clipboards!Observe, Clipboards!TypeOK
<1> QED
  BY <1>1, <1>2 DEF Clipboards!Observe, Unsent

LEMMA AccountedKept ==
    Clipboards!TypeOK /\ Known /\ Accounted /\ [Clipboards!Next]_(Clipboards!vars) => Accounted'
<1> SUFFICES ASSUME Clipboards!TypeOK, Known, Accounted,
[Clipboards!Next]_(Clipboards!vars) PROVE Accounted'
  OBVIOUS
<1> USE UnsentIsBit
<1>n. copies \in Nat /\ sent \in Nat
  BY DEF Clipboards!TypeOK
<1>u. CASE UNCHANGED Clipboards!vars
  BY <1>u DEF Clipboards!vars, Clipboards!counters, Accounted, Unsent
<1>1. ASSUME NEW s \in Clipboards!Sides, NEW t \in Texts, Clipboards!Copy(s, t) PROVE Accounted'
  <2>1. \A p \in Clipboards!Sides \ {s} : Unsent(p)' = Unsent(p)
    BY <1>1 DEF Clipboards!Copy, Clipboards!TypeOK, Unsent
  <2>2. Unsent(s)' \in {0, 1}
    BY DEF Unsent
  <2>3. copies' = copies + 1 /\ sent' = sent
    BY <1>1 DEF Clipboards!Copy
  <2> QED
    BY <1>n, <2>1, <2>2, <2>3 DEF Clipboards!Sides, Accounted
<1>2. ASSUME NEW s \in Clipboards!Sides, Clipboards!Toggle(s) \/ Clipboards!Receive(s)
               \/ Clipboards!ApplyBusy(s) PROVE Accounted'
  <2>1. Unsent("host")' = Unsent("host") /\ Unsent("viewer")' = Unsent("viewer")
    BY <1>2 DEF Clipboards!Toggle, Clipboards!Receive, Clipboards!ApplyBusy, Unsent
  <2>2. copies' = copies /\ sent' = sent
    BY <1>2 DEF Clipboards!Toggle, Clipboards!Receive, Clipboards!ApplyBusy, Clipboards!counters
  <2> QED
    BY <2>1, <2>2 DEF Accounted
<1>3. ASSUME NEW s \in Clipboards!Sides, Clipboards!Forget(s)
               \/ Clipboards!Apply(s) PROVE Accounted'
  <2>1. \A p \in Clipboards!Sides : Unsent(p)' = Unsent(p) \/ Unsent(p)' = 0
    <3>1. CASE Clipboards!Forget(s)
      BY <3>1 DEF Clipboards!Forget, Clipboards!TypeOK, Unsent
    <3>2. CASE Clipboards!Apply(s)
      BY <3>2 DEF Clipboards!Apply, Clipboards!TypeOK, Unsent, FromUser
    <3> QED
      BY <1>3, <3>1, <3>2
  <2>2. copies' = copies /\ sent' = sent
    BY <1>3 DEF Clipboards!Forget, Clipboards!Apply, Clipboards!counters
  <2> QED
    BY <1>n, <2>1, <2>2 DEF Clipboards!Sides, Accounted
<1>4. ASSUME NEW s \in Clipboards!Sides, Clipboards!Observe(s) PROVE Accounted'
  <2>1. \A p \in Clipboards!Sides \ {s} : Unsent(p)' = Unsent(p)
    BY <1>4 DEF Clipboards!Observe, Clipboards!TypeOK, Unsent
  <2>2. copies' = copies
    BY <1>4 DEF Clipboards!Observe, Clipboards!counters
  <2>3. CASE fingerprint[s] = None
    <3>1. sent' = sent /\ Unsent(s)' = 0
      BY <1>4, <2>3 DEF Clipboards!Observe, Clipboards!TypeOK, Unsent
    <3> QED
      BY <1>n, <2>1, <2>2, <3>1 DEF Clipboards!Sides, Accounted
  <2>4. CASE fingerprint[s] # None
    <3>1. sent' = sent + 1
      BY <1>4, <2>4 DEF Clipboards!Observe
    <3>2. Unsent(s) = 1 /\ Unsent(s)' = 0
      BY <1>4, <2>4, SenderHasUnsent
    <3> QED
      BY <1>n, <2>1, <2>2, <3>1, <3>2 DEF Clipboards!Sides, Accounted
  <2> QED
    BY <2>3, <2>4
<1> QED
  BY <1>u, <1>1, <1>2, <1>3, <1>4 DEF Clipboards!Next, Clipboards!User, Clipboards!Endpoint

LEMMA ClipStep ==
    Clipboards!ConstantsAssumption /\ ClipInv /\ [Clipboards!Next]_(Clipboards!vars) => ClipInv'
  BY TypeKept, KnownKept, AccountedKept DEF ClipInv

LEMMA ClipMeans == ClipInv => Clipboards!TypeOK /\ Clipboards!OncePerCopy
  BY UnsentIsBit DEF ClipInv, Clipboards!TypeOK, Accounted, Clipboards!OncePerCopy

\* Only what its own user copied is sent by a side.
LEMMA SendsOwn ==
    ASSUME ClipInv, Clipboards!Next, NEW s \in Clipboards!Sides, Clipboards!Sends(s)
    PROVE  owner[s] \in FromUser
<1>1. PICK p \in Clipboards!Sides : Clipboards!Observe(p)
  <2>1. sent' # sent
    BY DEF Clipboards!Sends, ClipInv, Clipboards!TypeOK
  <2> QED
    BY <2>1 DEF Clipboards!Next, Clipboards!User, Clipboards!Endpoint, Clipboards!Copy,
       Clipboards!Toggle, Clipboards!Forget, Clipboards!Receive, Clipboards!Apply,
       Clipboards!ApplyBusy
<1>2. p = s /\ fingerprint[p] # None
  BY <1>1 DEF Clipboards!Observe, Clipboards!Sends, Clipboards!Sides, Clipboards!Peer, ClipInv,
     Clipboards!TypeOK
<1>3. owner[p] \in FromUser
  BY <1>1, <1>2 DEF Clipboards!Observe, ClipInv, Known
<1> QED
  BY <1>2, <1>3

-----------------------------------------------------------------------------
(* RemoteInput *)

\* In generation g the message m puts x down, or lets it go
Presses(m, g, x) == m.generation = g /\ m.what = x /\ m.down
Lifts(m, g, x)   == m.generation = g /\ (m.what = "all" \/ (m.what = x /\ ~m.down))

\* x is down after the messages s of generation g, if before them it was as begun says
DownAfter(s, g, x, begun) ==
    \/ begun /\ \A k \in 1 .. Len(s) : ~Lifts(s[k], g, x)
    \/ \E k \in 1 .. Len(s) : /\ Presses(s[k], g, x)
                              /\ \A j \in 1 .. Len(s) : j > k => ~Lifts(s[j], g, x)

LEMMA DownAfterOneMore ==
    ASSUME NEW s \in Seq(Input!Message), NEW m \in Input!Message, NEW g, NEW x,
           NEW begun \in BOOLEAN
    PROVE  DownAfter(Append(s, m), g, x, begun)
             <=> Presses(m, g, x) \/ (DownAfter(s, g, x, begun) /\ ~Lifts(m, g, x))
<1> DEFINE n == Len(s)
           t == Append(s, m)
<1>1. n \in Nat /\ Len(t) = n + 1 /\ t[n + 1] = m /\ \A k \in 1 .. n : t[k] = s[k]
  BY AppendPointwise
<1> HIDE DEF n, t
<1>3. ASSUME Presses(m, g, x) PROVE DownAfter(t, g, x, begun)
  <2>1. n + 1 \in 1 .. n + 1 /\ \A j \in 1 .. n + 1 : ~(j > n + 1)
    BY <1>1
  <2> QED
    BY <1>1, <1>3, <2>1 DEF DownAfter
<1>4. ASSUME DownAfter(s, g, x, begun), ~Lifts(m, g, x) PROVE DownAfter(t, g, x, begun)
  <2>1. \A k \in 1 .. n + 1 : k \in 1 .. n \/ k = n + 1
    BY <1>1
  <2>2. CASE begun /\ \A k \in 1 .. n : ~Lifts(s[k], g, x)
    BY <1>1, <1>4, <2>1, <2>2 DEF DownAfter
  <2>3. ASSUME NEW k \in 1 .. n, Presses(s[k], g, x), \A j \in 1 .. n : j > k => ~Lifts(s[j], g, x)
        PROVE  DownAfter(t, g, x, begun)
    <3>1. k \in 1 .. n + 1 /\ Presses(t[k], g, x)
      BY <1>1, <2>3
    <3>2. \A j \in 1 .. n + 1 : j > k => ~Lifts(t[j], g, x)
      BY <1>1, <1>4, <2>1, <2>3
    <3> QED
      BY <1>1, <3>1, <3>2 DEF DownAfter
  <2> QED
    BY <1>4, <2>2, <2>3 DEF DownAfter, n
<1>5. ASSUME DownAfter(t, g, x, begun), ~Presses(m, g, x)
      PROVE  DownAfter(s, g, x, begun) /\ ~Lifts(m, g, x)
  <2>1. n + 1 \in 1 .. n + 1 /\ \A k \in 1 .. n : k \in 1 .. n + 1
    BY <1>1
  <2>2. CASE begun /\ \A k \in 1 .. n + 1 : ~Lifts(t[k], g, x)
    BY <1>1, <2>1, <2>2 DEF DownAfter, n
  <2>3. ASSUME NEW k \in 1 .. n + 1, Presses(t[k], g, x),
               \A j \in 1 .. n + 1 : j > k => ~Lifts(t[j], g, x)
        PROVE  DownAfter(s, g, x, begun) /\ ~Lifts(m, g, x)
    <3>1. k # n + 1
      BY <1>1, <1>5, <2>3
    <3>2. k \in 1 .. n /\ n + 1 > k
      BY <1>1, <3>1
    <3>3. Presses(s[k], g, x) /\ \A j \in 1 .. n : j > k => ~Lifts(s[j], g, x)
      BY <1>1, <2>1, <2>3, <3>2
    <3>4. ~Lifts(m, g, x)
      BY <1>1, <2>1, <2>3, <3>2
    <3> QED
      BY <3>2, <3>3, <3>4 DEF DownAfter, n
  <2> QED
    BY <1>1, <1>5, <2>2, <2>3 DEF DownAfter
<1> QED
  BY <1>3, <1>4, <1>5 DEF t

\* The first message is taken; what was down before counts as it left it.
LEMMA DownAfterOneLess ==
    ASSUME NEW s \in Seq(Input!Message), s # << >>, NEW g, NEW x, NEW begun \in BOOLEAN,
           NEW then \in BOOLEAN
    PROVE  /\ (then => Presses(s[1], g, x) \/ (begun /\ ~Lifts(s[1], g, x)))
                => (DownAfter(Tail(s), g, x, then) => DownAfter(s, g, x, begun))
           /\ (Presses(s[1], g, x) \/ (begun /\ ~Lifts(s[1], g, x)) => then)
                => (DownAfter(s, g, x, begun) => DownAfter(Tail(s), g, x, then))
<1> DEFINE n == Len(s)
           t == Tail(s)
<1>1. n \in Nat \ {0} /\ Len(t) = n - 1 /\ \A k \in 1 .. n - 1 : t[k] = s[k + 1]
  BY TailPointwise
<1> HIDE DEF n, t
<1>2. /\ 1 \in 1 .. n
      /\ \A k \in 1 .. n - 1 : k + 1 \in 1 .. n /\ k + 1 > 1
      /\ \A k \in 1 .. n : k = 1 \/ (k - 1 \in 1 .. n - 1 /\ (k - 1) + 1 = k)
  BY <1>1
<1>3. \A k \in 1 .. n : k > 1 => k - 1 \in 1 .. n - 1 /\ t[k - 1] = s[k]
  BY <1>1, <1>2
<1>4. ASSUME then => Presses(s[1], g, x) \/ (begun /\ ~Lifts(s[1], g, x)), DownAfter(t, g, x, then)
      PROVE  DownAfter(s, g, x, begun)
  <2>1. CASE then /\ \A k \in 1 .. n - 1 : ~Lifts(t[k], g, x)
    <3>1. \A k \in 1 .. n : k > 1 => ~Lifts(s[k], g, x)
      BY <1>3, <2>1
    <3>2. CASE Presses(s[1], g, x)
      BY <1>2, <3>1, <3>2 DEF DownAfter, n
    <3>3. CASE begun /\ ~Lifts(s[1], g, x)
      <4>1. \A k \in 1 .. n : ~Lifts(s[k], g, x)
        BY <1>2, <3>1, <3>3
      <4> QED
        BY <3>3, <4>1 DEF DownAfter, n
    <3> QED
      BY <1>4, <2>1, <3>2, <3>3
  <2>2. ASSUME NEW k \in 1 .. n - 1, Presses(t[k], g, x),
               \A j \in 1 .. n - 1 : j > k => ~Lifts(t[j], g, x)
        PROVE  DownAfter(s, g, x, begun)
    <3>1. k + 1 \in 1 .. n /\ Presses(s[k + 1], g, x)
      BY <1>1, <1>2, <2>2
    <3>2. ASSUME NEW j \in 1 .. n, j > k + 1 PROVE ~Lifts(s[j], g, x)
      <4>1. j > 1 /\ j - 1 > k
        BY <3>2
      <4> QED
        BY <1>3, <2>2, <4>1
    <3> QED
      BY <3>1, <3>2 DEF DownAfter, n
  <2> QED
    BY <1>1, <1>4, <2>1, <2>2 DEF DownAfter
<1>5. ASSUME Presses(s[1], g, x) \/ (begun /\ ~Lifts(s[1], g, x)) => then, DownAfter(s, g, x, begun)
      PROVE  DownAfter(t, g, x, then)
  <2>1. CASE begun /\ \A k \in 1 .. n : ~Lifts(s[k], g, x)
    <3>1. \A k \in 1 .. n - 1 : ~Lifts(t[k], g, x)
      BY <1>1, <1>2, <2>1
    <3>2. then
      BY <1>2, <1>5, <2>1
    <3> QED
      BY <1>1, <3>1, <3>2 DEF DownAfter
  <2>2. ASSUME NEW k \in 1 .. n, Presses(s[k], g, x), \A j \in 1 .. n : j > k => ~Lifts(s[j], g, x)
        PROVE  DownAfter(t, g, x, then)
    <3>1. CASE k = 1
      <4>1. \A j \in 1 .. n - 1 : ~Lifts(t[j], g, x)
        BY <1>1, <1>2, <2>2, <3>1
      <4>2. then
        BY <1>5, <2>2, <3>1
      <4> QED
        BY <1>1, <4>1, <4>2 DEF DownAfter
    <3>2. CASE k # 1
      <4>1. k - 1 \in 1 .. n - 1 /\ Presses(t[k - 1], g, x)
        BY <1>1, <1>2, <2>2, <3>2
      <4>2. ASSUME NEW j \in 1 .. n - 1, j > k - 1 PROVE ~Lifts(t[j], g, x)
        <5>1. j + 1 \in 1 .. n /\ j + 1 > k
          BY <1>2, <4>2
        <5> QED
          BY <1>1, <2>2, <5>1
      <4> QED
        BY <1>1, <4>1, <4>2 DEF DownAfter
    <3> QED
      BY <3>1, <3>2
  <2> QED
    BY <1>5, <2>1, <2>2 DEF DownAfter, n
<1> QED
  BY <1>4, <1>5 DEF t

\* The host will hold x, in the generation the window sends, when it has had all the messages
Down(x) == DownAfter(messages, known, x, Input!Agreed /\ x \in held)

\* From event i of s on, none is about x and it is down only if it is in p, or the last one that is
\* tells whether it is
Follows(s, p, x, i, down) ==
    \/ (down => x \in p) /\ \A k \in 1 .. Len(s) : k >= i => s[k].what # x
    \/ \E k \in 1 .. Len(s) : /\ k >= i /\ s[k].what = x /\ (s[k].down <=> x \in p)
                              /\ \A j \in 1 .. Len(s) : j > k => s[j].what # x

LEMMA FollowsLess ==
    ASSUME NEW s, NEW p, NEW x, NEW i, NEW d \in BOOLEAN, NEW e \in BOOLEAN, e => d,
           Follows(s, p, x, i, d)
    PROVE  Follows(s, p, x, i, e)
  BY DEF Follows

\* One event is handled
LEMMA FollowsOn ==
    ASSUME NEW s, Len(s) \in Nat, NEW p, NEW x, NEW i \in 1 .. Len(s),
           NEW d \in BOOLEAN, NEW e \in BOOLEAN, Follows(s, p, x, i, d),
           IF s[i].what = x THEN e => s[i].down ELSE e => d
    PROVE  Follows(s, p, x, i + 1, e)
<1>1. CASE (d => x \in p) /\ \A k \in 1 .. Len(s) : k >= i => s[k].what # x
  <2>1. s[i].what # x
    BY <1>1
  <2>2. \A k \in 1 .. Len(s) : k >= i + 1 => s[k].what # x
    BY <1>1
  <2> QED
    BY <1>1, <2>1, <2>2 DEF Follows
<1>2. ASSUME NEW k \in 1 .. Len(s), k >= i, s[k].what = x, s[k].down <=> x \in p,
             \A j \in 1 .. Len(s) : j > k => s[j].what # x
      PROVE  Follows(s, p, x, i + 1, e)
  <2>1. CASE k = i
    <3>1. \A j \in 1 .. Len(s) : j >= i + 1 => s[j].what # x
      BY <1>2, <2>1
    <3>2. e => x \in p
      BY <1>2, <2>1
    <3> QED
      BY <3>1, <3>2 DEF Follows
  <2>2. CASE k # i
    <3>1. k >= i + 1
      BY <1>2, <2>2
    <3> QED
      BY <1>2, <3>1 DEF Follows
  <2> QED
    BY <2>1, <2>2
<1> QED
  BY <1>1, <1>2 DEF Follows

\* All are handled
LEMMA FollowsAll ==
    ASSUME NEW s, Len(s) \in Nat, NEW p, NEW x, NEW d \in BOOLEAN, Follows(s, p, x, Len(s) + 1, d)
    PROVE  d => x \in p
<1>1. \A k \in 1 .. Len(s) : ~(k >= Len(s) + 1)
  OBVIOUS
<1> QED
  BY <1>1 DEF Follows

LEMMA FollowsNone ==
    ASSUME NEW p, NEW x, NEW i, NEW d \in BOOLEAN, d => x \in p
    PROVE  Follows(<< >>, p, x, i, d)
<1>1. \A k \in 1 .. Len(<< >>) : FALSE
  OBVIOUS
<1> QED
  BY <1>1 DEF Follows

\* The numbers of generations
Numbered ==
    /\ 1 <= known /\ known <= advertised /\ accepted <= advertised /\ injected <= known
    /\ pending => advertised > 1 /\ accepted < advertised /\ injected < advertised
    /\ injected = 0 => held = {}
    /\ \A k \in 1 .. Len(messages) :
         /\ messages[k].generation <= known
         /\ messages[k].what # "select" => messages[k].generation >= 1

\* What the window believes
Believed ==
    /\ Down("button") => button
    /\ Down("ctrl") => modifiers
    /\ Input!Undisturbed => (button => Down("button")) /\ (modifiers => Down("ctrl"))

\* The picture has the focus, or had it in the last frame
HasFocus == focused \/ (step # "idle" /\ focus)

Focused ==
    /\ \A x \in {"ctrl", "letter", "arrow"} : Down(x) => HasFocus
    /\ modifiers => HasFocus

\* What the user holds, as far as the frame has come
Handled ==
    /\ Follows(events, pressed, "button",
               IF step = "idle" THEN 1 ELSE IF step = "buttons" THEN next ELSE Len(events) + 1,
               button)
    /\ Follows(events, pressed, "arrow", IF step = "keys" THEN next ELSE 1, Down("arrow"))
    /\ step = "idle" => next = 1
    /\ step = "keys" /\ focus /\ modifiers => "ctrl" \in pressed
    /\ settled => Len(events) = 0 /\ (modifiers => "ctrl" \in pressed)

InputInv == Input!TypeOK /\ Numbered /\ Believed /\ Focused /\ Handled

LEMMA InputTyped ==
    ASSUME Input!TypeOK
    PROVE  /\ messages \in Seq(Input!Message) /\ Len(messages) \in Nat
           /\ known \in Nat /\ advertised \in Nat /\ accepted \in Nat /\ injected \in Nat
           /\ events \in Seq(Input!Event) /\ Len(events) \in Nat /\ next \in Nat
           /\ next >= 1 /\ next <= Len(events) + 1
           /\ \A k \in 1 .. Len(events) :
                /\ events[k] \in Input!Event
                /\ events[k].what \in {"letter", "arrow", "button", "text", "paste"}
                /\ events[k].what \in {"letter", "arrow", "button"} => events[k].down \in BOOLEAN
<1>1. messages \in Seq(Input!Message) /\ events \in Seq(Input!Event)
        /\ next \in 1 .. Len(events) + 1
  BY DEF Input!TypeOK
<1>2. Len(messages) \in Nat /\ Len(events) \in Nat /\ next \in Nat /\ next >= 1
        /\ next <= Len(events) + 1
  BY <1>1
<1>3. \A k \in 1 .. Len(events) : events[k] \in Input!Event
  BY <1>1
<1>4. \A e \in Input!Event : /\ e.what \in {"letter", "arrow", "button", "text", "paste"}
                             /\ e.what \in {"letter", "arrow", "button"} => e.down \in BOOLEAN
  BY DEF Input!Event
<1> QED
  BY <1>1, <1>2, <1>3, <1>4 DEF Input!TypeOK

LEMMA DownIsBoolean == \A x : Down(x) \in BOOLEAN /\ Down(x)' \in BOOLEAN
  BY DEF Down, DownAfter

LEMMA DownWhenEmpty == messages = << >> => \A x : Down(x) <=> Input!Agreed /\ x \in held
<1>1. ASSUME messages = << >> PROVE \A k \in 1 .. Len(messages) : FALSE
  BY <1>1
<1> QED
  BY <1>1 DEF Down, DownAfter

LEMMA InputInit == Input!Init => InputInv
<1> SUFFICES ASSUME Input!Init PROVE InputInv
  OBVIOUS
<1>1. events = << >> /\ messages = << >> /\ Len(events) = 0 /\ Len(messages) = 0
        /\ events \in Seq(Input!Event) /\ messages \in Seq(Input!Message)
  BY DEF Input!Init
<1>2. Input!TypeOK
  <2>1. next \in 1 .. Len(events) + 1
    BY <1>1 DEF Input!Init
  <2>2. {known, advertised, accepted, injected} \subseteq Nat
    BY DEF Input!Init
  <2> QED
    BY <1>1, <2>1, <2>2 DEF Input!Init, Input!TypeOK
<1>3. \A x : ~Down(x)
  BY <1>1, DownWhenEmpty DEF Input!Init
<1>4. Numbered
  BY <1>1 DEF Input!Init, Numbered
<1>5. Handled
  <2>1. Follows(events, pressed, "button", 1, button)
    BY <1>1, FollowsNone DEF Input!Init
  <2>2. Follows(events, pressed, "arrow", 1, Down("arrow"))
    BY <1>1, <1>3, FollowsNone, DownIsBoolean
  <2> QED
    BY <1>1, <2>1, <2>2 DEF Input!Init, Handled
<1> QED
  BY <1>2, <1>3, <1>4, <1>5 DEF Input!Init, InputInv, Believed, Focused

-----------------------------------------------------------------------------
(* The window *)

\* What the window can send
Told(m) == /\ m \in Input!Message /\ m.generation <= known
           /\ m.what # "select" => m.generation >= 1

\* A message of the window's generation presses or lifts one thing, or lifts all
LEMMA InputTold ==
    ASSUME Input!TypeOK, Numbered, NEW y \in Input!Things \cup {"passing", "all"}, NEW d \in BOOLEAN
    PROVE  /\ Told(Input!Input(y, d)) /\ Input!Input(y, d).what = y
           /\ \A x : /\ Presses(Input!Input(y, d), known, x) <=> y = x /\ d
                     /\ Lifts(Input!Input(y, d), known, x) <=> y = "all" \/ (y = x /\ ~d)
<1>1. known \in Nat /\ known >= 1 /\ known <= known
  BY InputTyped DEF Numbered
<1>2. Input!Input(y, d) \in Input!Message
  BY <1>1 DEF Input!Input, Input!Message, Input!Things, Input!Keys
<1>3. Input!Input(y, d).what = y /\ Input!Input(y, d).down = d
        /\ Input!Input(y, d).generation = known
  BY DEF Input!Input
<1> HIDE DEF Input!Input
<1> QED
  BY <1>1, <1>2, <1>3 DEF Told, Presses, Lifts

LEMMA SelectTold ==
    ASSUME Input!TypeOK, Numbered
    PROVE  Told(Input!Select) /\ \A x : ~Presses(Input!Select, known, x)
             /\ ~Lifts(Input!Select, known, x)
<1>1. Input!Select \in Input!Message /\ Input!Select.generation = 0 /\ Input!Select.what = "select"
        /\ Input!Select.down = FALSE
  BY DEF Input!Select, Input!Message
<1>2. known \in Nat /\ known >= 1
  BY InputTyped DEF Numbered
<1> HIDE DEF Input!Select
<1> QED
  BY <1>1, <1>2 DEF Told, Presses, Lifts

\* What follows when the window sends one message, or none
LEMMA Sends ==
    ASSUME Input!TypeOK, Numbered, NEW m, Told(m), messages' = Append(messages, m),
           UNCHANGED << known, Input!host >>
    PROVE  /\ messages' \in Seq(Input!Message) /\ Numbered'
             /\ (Input!Undisturbed' => Input!Undisturbed)
           /\ \A x : Down(x)' <=> Presses(m, known, x) \/ (Down(x) /\ ~Lifts(m, known, x))
<1>1. messages \in Seq(Input!Message) /\ m \in Input!Message
  BY InputTyped DEF Told
<1>2. /\ messages' \in Seq(Input!Message) /\ Len(messages') = Len(messages) + 1
           /\ Len(messages) \in Nat
      /\ messages'[Len(messages) + 1] = m
           /\ \A k \in 1 .. Len(messages) : messages'[k] = messages[k]
  BY <1>1, AppendPointwise
<1>3. \A k \in 1 .. Len(messages) + 1 : k \in 1 .. Len(messages) \/ k = Len(messages) + 1
  BY <1>2
<1>h. UNCHANGED << known, advertised, pending, accepted, injected, held >>
  BY DEF Input!host
<1>4. Numbered'
  <2>1. \A k \in 1 .. Len(messages') :
          /\ messages'[k].generation <= known
          /\ messages'[k].what # "select" => messages'[k].generation >= 1
    BY <1>2, <1>3 DEF Numbered, Told
  <2> QED
    BY <1>h, <2>1 DEF Numbered
<1>5. Input!Undisturbed' => Input!Undisturbed
  BY <1>h, <1>2 DEF Input!Undisturbed
<1>6. ASSUME NEW x PROVE Down(x)' <=> Presses(m, known, x) \/ (Down(x) /\ ~Lifts(m, known, x))
  <2>1. Down(x)' <=> DownAfter(messages', known, x, Input!Agreed /\ x \in held)
    BY <1>h DEF Down, Input!Agreed
  <2> QED
    BY <1>1, <2>1, DownAfterOneMore DEF Down
<1> QED
  BY <1>2, <1>4, <1>5, <1>6

LEMMA SendsNone ==
    ASSUME Input!TypeOK, Numbered, UNCHANGED << messages, known, Input!host >>
    PROVE  /\ messages' \in Seq(Input!Message) /\ Numbered'
             /\ (Input!Undisturbed' => Input!Undisturbed)
           /\ \A x : Down(x)' <=> Down(x)
<1>h. UNCHANGED << messages, known, advertised, pending, accepted, injected, held >>
  BY DEF Input!host
<1>1. \A x : Down(x)' <=> Down(x)
  BY <1>h DEF Down, Input!Agreed
<1> QED
  BY <1>h, <1>1, InputTyped DEF Numbered, Input!Undisturbed

\* Something that holds nothing is sent, or nothing at all
LEMMA SendsPassing ==
    ASSUME Input!TypeOK, Numbered, Input!Send(Input!Passing) \/ UNCHANGED messages,
           UNCHANGED << known, Input!host >>
    PROVE  /\ messages' \in Seq(Input!Message) /\ Numbered'
             /\ (Input!Undisturbed' => Input!Undisturbed)
           /\ \A x \in Input!Things : Down(x)' <=> Down(x)
<1>1. CASE Input!Send(Input!Passing)
  <2>1. /\ Told(Input!Passing) /\ \A x : /\ Presses(Input!Passing, known, x) <=> "passing" = x
                                              /\ FALSE
                                         /\ Lifts(Input!Passing, known, x) <=> "passing" = "all"
                                              \/ ("passing" = x /\ ~FALSE)
    BY InputTold DEF Input!Passing
  <2>2. messages' = Append(messages, Input!Passing)
    BY <1>1 DEF Input!Send
  <2>3. \A x \in Input!Things : ~Presses(Input!Passing, known, x) /\ ~Lifts(Input!Passing, known, x)
    BY <2>1 DEF Input!Things, Input!Keys
  <2> QED
    BY <2>1, <2>2, <2>3, Sends
<1>2. CASE UNCHANGED messages
  BY <1>2, SendsNone
<1> QED
  BY <1>1, <1>2

\* Everything is let go
LEMMA SendsRelease ==
    ASSUME Input!TypeOK, Numbered, messages' = Append(messages, Input!ReleaseAll),
           UNCHANGED << known, Input!host >>
    PROVE  /\ messages' \in Seq(Input!Message) /\ Numbered'
             /\ (Input!Undisturbed' => Input!Undisturbed)
           /\ \A x \in Input!Things : ~Down(x)'
<1>1. /\ Told(Input!ReleaseAll) /\ \A x : /\ Presses(Input!ReleaseAll, known, x) <=> "all" = x
                                               /\ FALSE
                                          /\ Lifts(Input!ReleaseAll, known, x) <=> "all" = "all"
                                               \/ ("all" = x /\ ~FALSE)
  BY InputTold DEF Input!ReleaseAll
<1> QED
  BY <1>1, Sends

LEMMA FrameBeginsKeeps == ASSUME InputInv, Input!FrameBegins PROVE InputInv'
<1>1. /\ step = "idle" /\ step' = "buttons" /\ (Input!Send(Input!Passing) \/ UNCHANGED messages)
      /\ UNCHANGED << pressed, focus, events, settled, next, modifiers, button, focused >>
      /\ UNCHANGED << known, Input!host >>
  BY DEF Input!FrameBegins, Input!user, Input!belief
<1>2. /\ messages' \in Seq(Input!Message) /\ Numbered' /\ (Input!Undisturbed' => Input!Undisturbed)
      /\ \A x \in Input!Things : Down(x)' <=> Down(x)
  BY <1>1, SendsPassing DEF InputInv
<1>3. Input!TypeOK'
  BY <1>1, <1>2 DEF InputInv, Input!TypeOK, Input!host
<1>4. Believed'
  BY <1>1, <1>2 DEF InputInv, Believed, Input!Things
<1>5. Focused'
  BY <1>1, <1>2 DEF InputInv, Focused, HasFocus, Input!Things, Input!Keys
<1>6. Handled'
  <2>1. Follows(events, pressed, "arrow", 1, Down("arrow")')
    BY <1>1, <1>2, FollowsLess, DownIsBoolean DEF InputInv, Handled, Input!Things, Input!Keys
  <2> QED
    BY <1>1, <2>1 DEF InputInv, Handled
<1> QED
  BY <1>2, <1>3, <1>4, <1>5, <1>6 DEF InputInv

LEMMA HandleButtonKeeps == ASSUME InputInv, Input!HandleButton PROVE InputInv'
<1> DEFINE e == events[next]
<1>1. /\ step = "buttons" /\ next <= Len(events) /\ next' = next + 1
      /\ UNCHANGED << pressed, focus, events, settled, step, modifiers, focused >>
      /\ UNCHANGED << known, Input!host >>
  BY DEF Input!HandleButton, Input!user
<1>t. /\ next \in 1 .. Len(events) /\ Len(events) \in Nat /\ next + 1 \in 1 .. Len(events) + 1
      /\ e.what = "button" => e.down \in BOOLEAN
      /\ Input!TypeOK /\ Numbered /\ button \in BOOLEAN
  <2>1. Input!TypeOK /\ Numbered /\ button \in BOOLEAN
    BY DEF InputInv, Input!TypeOK
  <2>2. next \in 1 .. Len(events)
    BY <1>1, <2>1, InputTyped
  <2> QED
    BY <2>1, <2>2, InputTyped
<1>f. Follows(events, pressed, "button", next, button)
  BY <1>1 DEF InputInv, Handled
<1> HIDE DEF e
<1>2. CASE Input!PointerButton(e) /\ Input!Send(Input!Input("button", e.down)) /\ button' = e.down
  <2>1. e.what = "button" /\ e.down \in BOOLEAN
    BY <1>2, <1>t DEF Input!PointerButton
  <2>2. /\ Told(Input!Input("button", e.down))
        /\ \A x : /\ Presses(Input!Input("button", e.down), known, x) <=> "button" = x /\ e.down
                  /\ Lifts(Input!Input("button", e.down), known, x)
                       <=> "button" = "all" \/ ("button" = x /\ ~e.down)
    BY <1>t, <2>1, InputTold DEF Input!Things
  <2>3. messages' = Append(messages, Input!Input("button", e.down))
    BY <1>2 DEF Input!Send
  <2>4. /\ messages' \in Seq(Input!Message) /\ Numbered'
             /\ (Input!Undisturbed' => Input!Undisturbed)
        /\ \A x : Down(x)' <=> \/ Presses(Input!Input("button", e.down), known, x)
                               \/ Down(x) /\ ~Lifts(Input!Input("button", e.down), known, x)
    BY <1>1, <1>t, <2>2, <2>3, Sends
  <2>5. (Down("button")' <=> e.down) /\ \A x \in Input!Things : x # "button"
          => (Down(x)' <=> Down(x))
    BY <2>2, <2>4
  <2>6. Input!TypeOK'
    BY <1>1, <1>2, <1>t, <2>1, <2>4 DEF Input!TypeOK, Input!host
  <2>7. Believed'
    BY <1>1, <1>2, <2>4, <2>5 DEF InputInv, Believed, Input!Things, Input!Keys
  <2>8. Focused'
    BY <1>1, <2>5 DEF InputInv, Focused, HasFocus, Input!Things, Input!Keys
  <2>9. Handled'
    <3>1. Follows(events, pressed, "arrow", 1, Down("arrow")')
      BY <1>1, <2>5, FollowsLess, DownIsBoolean DEF InputInv, Handled, Input!Things, Input!Keys
    <3>2. Follows(events, pressed, "button", next + 1, button')
      BY <1>2, <1>f, <1>t, <2>1, FollowsOn DEF e
    <3> QED
      BY <1>1, <3>1, <3>2 DEF InputInv, Handled
  <2> QED
    BY <2>4, <2>6, <2>7, <2>8, <2>9 DEF InputInv
<1>3. CASE ~Input!PointerButton(e) /\ UNCHANGED << messages, button >>
  <2>1. /\ messages' \in Seq(Input!Message) /\ Numbered'
             /\ (Input!Undisturbed' => Input!Undisturbed)
        /\ \A x : Down(x)' <=> Down(x)
    BY <1>1, <1>3, <1>t, SendsNone
  <2>2. Input!TypeOK'
    BY <1>1, <1>3, <1>t, <2>1 DEF Input!TypeOK, Input!host
  <2>3. Believed' /\ Focused'
    BY <1>1, <1>3, <2>1 DEF InputInv, Believed, Focused, HasFocus
  <2>4. Handled'
    <3>1. Follows(events, pressed, "arrow", 1, Down("arrow")')
      BY <1>1, <2>1, FollowsLess, DownIsBoolean DEF InputInv, Handled
    <3>2. e.what = "button" => (button => e.down)
      BY <1>3, <1>t DEF Input!PointerButton
    <3>3. Follows(events, pressed, "button", next + 1, button)
      BY <1>f, <1>t, <3>2, FollowsOn DEF e
    <3> QED
      BY <1>1, <1>3, <3>1, <3>3 DEF InputInv, Handled
  <2> QED
    BY <2>1, <2>2, <2>3, <2>4 DEF InputInv
<1> QED
  BY <1>2, <1>3 DEF Input!HandleButton, e

LEMMA PollModifiersKeeps == ASSUME InputInv, Input!PollModifiers PROVE InputInv'
<1> DEFINE ctrl == "ctrl" \in pressed
           tell == ~Input!Pasting /\ focus /\ ctrl # modifiers
<1>1. /\ step = "buttons" /\ next = Len(events) + 1 /\ step' = "keys" /\ next' = 1
      /\ UNCHANGED << pressed, focus, events, settled, focused >>
      /\ UNCHANGED << known, Input!host >>
  BY DEF Input!PollModifiers, Input!user
<1>t. Input!TypeOK /\ Numbered /\ button \in BOOLEAN /\ modifiers \in BOOLEAN /\ Len(events) \in Nat
  BY InputTyped DEF InputInv, Input!TypeOK
<1>c. ctrl \in BOOLEAN
  OBVIOUS
<1>f. (button => "button" \in pressed)
        /\ Follows(events, pressed, "button", Len(events) + 1, button)
  <2>1. Follows(events, pressed, "button", Len(events) + 1, button)
    BY <1>1 DEF InputInv, Handled
  <2> QED
    BY <1>t, <2>1, FollowsAll
<1>a. Follows(events, pressed, "arrow", 1, Down("arrow"))
  BY <1>1 DEF InputInv, Handled
\* what is to show of each way
<1>q. ASSUME messages' \in Seq(Input!Message), Numbered', Input!Undisturbed' => Input!Undisturbed,
             button' => button, button' \in BOOLEAN, modifiers' \in BOOLEAN,
             Down("button")' => button', Down("ctrl")' => modifiers',
             Input!Undisturbed => (button' => Down("button")') /\ (modifiers' => Down("ctrl")'),
             \A x \in {"letter", "arrow"} : Down(x)' => Down(x),
             focus /\ modifiers' => ctrl, modifiers' => modifiers \/ (focus /\ ctrl)
      PROVE  InputInv'
  <2>1. Input!TypeOK'
    <3>1. next' \in 1 .. Len(events) + 1
      BY <1>1, <1>t
    <3> QED
      BY <1>1, <1>q, <1>t, <3>1 DEF Input!TypeOK, Input!host
  <2>2. Believed'
    BY <1>q DEF Believed
  <2>3. Focused'
    <3>1. modifiers' => focused \/ focus
      BY <1>1, <1>q DEF InputInv, Focused, HasFocus
    <3>2. \A x \in {"letter", "arrow"} : Down(x)' => focused \/ focus
      BY <1>1, <1>q DEF InputInv, Focused, HasFocus
    <3>3. HasFocus' <=> focused \/ focus
      BY <1>1 DEF HasFocus
    <3> QED
      BY <1>q, <3>1, <3>2, <3>3 DEF Focused
  <2>4. Handled'
    <3>1. Follows(events, pressed, "arrow", 1, Down("arrow")')
      BY <1>a, <1>q, FollowsLess, DownIsBoolean
    <3>2. Follows(events, pressed, "button", Len(events) + 1, button')
      BY <1>f, <1>q, <1>t, FollowsLess
    <3>3. settled => Len(events) = 0 /\ (modifiers' => "ctrl" \in pressed)
      BY <1>q DEF InputInv, Handled
    <3> QED
      BY <1>1, <1>q, <3>1, <3>2, <3>3 DEF Handled
  <2> QED
    BY <1>q, <2>1, <2>2, <2>3, <2>4 DEF InputInv
<1> HIDE DEF ctrl
<1>2. CASE Input!Pasting /\ Input!Send(Input!ReleaseAll) /\ button' = FALSE /\ modifiers' = FALSE
  <2>1. messages' = Append(messages, Input!ReleaseAll)
    BY <1>2 DEF Input!Send
  <2>2. /\ messages' \in Seq(Input!Message) /\ Numbered'
             /\ (Input!Undisturbed' => Input!Undisturbed)
        /\ \A x \in Input!Things : ~Down(x)'
    BY <1>1, <1>t, <2>1, SendsRelease
  <2> QED
    BY <1>2, <1>q, <2>2 DEF Input!Things, Input!Keys
<1>3. CASE tell /\ Input!Send(Input!Input("ctrl", ctrl)) /\ modifiers' = ctrl /\ UNCHANGED button
  <2>2. /\ Told(Input!Input("ctrl", ctrl))
        /\ \A x : /\ Presses(Input!Input("ctrl", ctrl), known, x) <=> "ctrl" = x /\ ctrl
                  /\ Lifts(Input!Input("ctrl", ctrl), known, x) <=> "ctrl" = "all"
                       \/ ("ctrl" = x /\ ~ctrl)
    BY <1>c, <1>t, InputTold DEF Input!Things
  <2>3. messages' = Append(messages, Input!Input("ctrl", ctrl))
    BY <1>3 DEF Input!Send
  <2>4. /\ messages' \in Seq(Input!Message) /\ Numbered'
             /\ (Input!Undisturbed' => Input!Undisturbed)
        /\ \A x : Down(x)' <=> \/ Presses(Input!Input("ctrl", ctrl), known, x)
                               \/ Down(x) /\ ~Lifts(Input!Input("ctrl", ctrl), known, x)
    BY <1>1, <1>t, <2>2, <2>3, Sends
  <2>5. (Down("ctrl")' <=> ctrl) /\ \A x \in Input!Things : x # "ctrl" => (Down(x)' <=> Down(x))
    BY <2>2, <2>4
  <2>6. (Down("button")' <=> Down("button")) /\ \A x \in {"letter", "arrow"} : Down(x)' => Down(x)
    BY <2>5 DEF Input!Things, Input!Keys
  <2>7. (Down("button") => button) /\ (Input!Undisturbed => (button => Down("button")))
    BY DEF InputInv, Believed
  <2> QED
    BY <1>3, <1>c, <1>q, <1>t, <2>4, <2>5, <2>6, <2>7
<1>4. CASE ~Input!Pasting /\ ~tell /\ UNCHANGED << messages, button, modifiers >>
  <2>1. /\ messages' \in Seq(Input!Message) /\ Numbered'
             /\ (Input!Undisturbed' => Input!Undisturbed)
        /\ \A x : Down(x)' <=> Down(x)
    BY <1>1, <1>4, <1>t, SendsNone
  <2>2. focus /\ modifiers' => ctrl
    BY <1>4, <1>c, <1>t
  <2>3. /\ Down("button") => button
        /\ Down("ctrl") => modifiers
        /\ Input!Undisturbed => (button => Down("button")) /\ (modifiers => Down("ctrl"))
    BY DEF InputInv, Believed
  <2> QED
    BY <1>4, <1>q, <1>t, <2>1, <2>2, <2>3
<1> QED
  BY <1>2, <1>3, <1>4 DEF Input!PollModifiers, ctrl

LEMMA HandleKeyKeeps == ASSUME InputInv, Input!HandleKey PROVE InputInv'
<1> DEFINE e == events[next]
<1>1. /\ step = "keys" /\ focus /\ next <= Len(events) /\ next' = next + 1
      /\ UNCHANGED << pressed, focus, events, settled, step, modifiers, button, focused >>
      /\ UNCHANGED << known, Input!host >>
  BY DEF Input!HandleKey, Input!user, Input!belief
<1>t. /\ next \in 1 .. Len(events) /\ Len(events) \in Nat /\ next + 1 \in 1 .. Len(events) + 1
      /\ e.what \in {"letter", "arrow"} => e.down \in BOOLEAN
      /\ Input!TypeOK /\ Numbered
  <2>1. Input!TypeOK /\ Numbered
    BY DEF InputInv
  <2>2. next \in 1 .. Len(events)
    BY <1>1, <2>1, InputTyped
  <2> QED
    BY <2>1, <2>2, InputTyped
<1>a. Follows(events, pressed, "arrow", next, Down("arrow"))
  BY <1>1 DEF InputInv, Handled
<1> HIDE DEF e
\* what is to show of each event
<1>q. ASSUME messages' \in Seq(Input!Message), Numbered', Input!Undisturbed' => Input!Undisturbed,
             \A x \in {"button", "ctrl"} : Down(x)' <=> Down(x),
             IF e.what = "arrow" THEN Down("arrow")' => e.down ELSE Down("arrow")' => Down("arrow")
      PROVE  InputInv'
  <2>1. Input!TypeOK'
    BY <1>1, <1>q, <1>t DEF Input!TypeOK, Input!host
  <2>2. Believed'
    BY <1>1, <1>q DEF InputInv, Believed
  <2>3. Focused'
    BY <1>1 DEF Focused, HasFocus
  <2>4. Handled'
    <3>1. Follows(events, pressed, "arrow", next + 1, Down("arrow")')
      BY <1>a, <1>q, <1>t, FollowsOn, DownIsBoolean DEF e
    <3> QED
      BY <1>1, <3>1 DEF InputInv, Handled
  <2> QED
    BY <1>q, <2>1, <2>2, <2>3, <2>4 DEF InputInv
<1>2. CASE Input!SendsKey(e) /\ Input!Send(Input!Input(e.what, e.down))
  <2>1. e.what \in {"letter", "arrow"} /\ e.down \in BOOLEAN /\ e.what \in Input!Things
    BY <1>2, <1>t DEF Input!SendsKey, Input!Keys, Input!Things
  <2>2. /\ Told(Input!Input(e.what, e.down))
        /\ \A x : /\ Presses(Input!Input(e.what, e.down), known, x) <=> e.what = x /\ e.down
                  /\ Lifts(Input!Input(e.what, e.down), known, x)
                       <=> e.what = "all" \/ (e.what = x /\ ~e.down)
    BY <1>t, <2>1, InputTold
  <2>3. messages' = Append(messages, Input!Input(e.what, e.down))
    BY <1>2 DEF Input!Send
  <2>4. /\ messages' \in Seq(Input!Message) /\ Numbered'
             /\ (Input!Undisturbed' => Input!Undisturbed)
        /\ \A x : Down(x)' <=> \/ Presses(Input!Input(e.what, e.down), known, x)
                               \/ Down(x) /\ ~Lifts(Input!Input(e.what, e.down), known, x)
    BY <1>1, <1>t, <2>2, <2>3, Sends
  <2>5. \A x \in {"button", "ctrl"} : Down(x)' <=> Down(x)
    BY <2>1, <2>2, <2>4
  <2>6. IF e.what = "arrow" THEN Down("arrow")' => e.down ELSE Down("arrow")' => Down("arrow")
    BY <2>1, <2>2, <2>4
  <2> QED
    BY <1>q, <2>4, <2>5, <2>6
<1>3. CASE ~Input!SendsKey(e) /\ (Input!Send(Input!Passing) \/ UNCHANGED messages)
  <2>1. /\ messages' \in Seq(Input!Message) /\ Numbered'
             /\ (Input!Undisturbed' => Input!Undisturbed)
        /\ \A x \in Input!Things : Down(x)' <=> Down(x)
    BY <1>1, <1>3, <1>t, SendsPassing
  <2>2. e.what # "arrow"
    BY <1>3 DEF Input!SendsKey, Input!Keys
  <2> QED
    BY <1>q, <2>1, <2>2 DEF Input!Things, Input!Keys
<1>4. Input!Writes(e) => ~Input!SendsKey(e)
  BY DEF Input!Writes, Input!SendsKey, Input!Keys
<1> QED
  BY <1>2, <1>3, <1>4 DEF Input!HandleKey, e

LEMMA FrameEndsKeeps == ASSUME InputInv, Input!FrameEnds PROVE InputInv'
<1> DEFINE leaves == focused /\ ~focus
<1>1. /\ step = "keys" /\ (focus => next = Len(events) + 1)
      /\ focused' = focus /\ events' = << >> /\ settled' = TRUE /\ step' = "idle" /\ next' = 1
      /\ UNCHANGED << pressed, focus >> /\ UNCHANGED << known, Input!host >>
  BY DEF Input!FrameEnds
<1>t. Input!TypeOK /\ Numbered /\ button \in BOOLEAN /\ modifiers \in BOOLEAN /\ Len(events) \in Nat
  BY InputTyped DEF InputInv, Input!TypeOK
<1>e. events' \in Seq(Input!Event) /\ Len(events') = 0
  BY <1>1
\* what is to show of each way
<1>q. ASSUME messages' \in Seq(Input!Message), Numbered', Input!Undisturbed' => Input!Undisturbed,
             button' \in BOOLEAN, modifiers' \in BOOLEAN,
             Down("button")' => button', Down("ctrl")' => modifiers',
             Input!Undisturbed => (button' => Down("button")') /\ (modifiers' => Down("ctrl")'),
             \A x \in {"ctrl", "letter", "arrow"} : Down(x)' => focus,
             modifiers' => focus /\ "ctrl" \in pressed,
             button' => "button" \in pressed, Down("arrow")' => "arrow" \in pressed
      PROVE  InputInv'
  <2>1. Input!TypeOK'
    <3>1. next' \in 1 .. Len(events') + 1
      BY <1>1, <1>e
    <3> QED
      BY <1>1, <1>e, <1>q, <1>t, <3>1 DEF Input!TypeOK, Input!host
  <2>2. Believed'
    BY <1>q DEF Believed
  <2>3. Focused'
    BY <1>1, <1>q DEF Focused, HasFocus
  <2>4. Handled'
    <3>1. Follows(<< >>, pressed, "arrow", 1, Down("arrow")')
      BY <1>q, FollowsNone, DownIsBoolean
    <3>2. Follows(<< >>, pressed, "button", 1, button')
      BY <1>q, FollowsNone
    <3> QED
      BY <1>1, <1>e, <1>q, <3>1, <3>2 DEF Handled
  <2> QED
    BY <1>q, <2>1, <2>2, <2>3, <2>4 DEF InputInv
<1>2. CASE leaves /\ Input!Send(Input!ReleaseAll) /\ button' = FALSE /\ modifiers' = FALSE
  <2>1. messages' = Append(messages, Input!ReleaseAll)
    BY <1>2 DEF Input!Send
  <2>2. /\ messages' \in Seq(Input!Message) /\ Numbered'
             /\ (Input!Undisturbed' => Input!Undisturbed)
        /\ \A x \in Input!Things : ~Down(x)'
    BY <1>1, <1>t, <2>1, SendsRelease
  <2> QED
    BY <1>2, <1>q, <2>2 DEF Input!Things, Input!Keys
<1>3. CASE ~leaves /\ UNCHANGED << messages, button, modifiers >>
  <2>1. /\ messages' \in Seq(Input!Message) /\ Numbered'
             /\ (Input!Undisturbed' => Input!Undisturbed)
        /\ \A x : Down(x)' <=> Down(x)
    BY <1>1, <1>3, <1>t, SendsNone
  <2>2. HasFocus => focus
    BY <1>3 DEF HasFocus
  <2>3. (modifiers => focus) /\ \A x \in {"ctrl", "letter", "arrow"} : Down(x) => focus
    BY <2>2 DEF InputInv, Focused
  <2>4. modifiers => "ctrl" \in pressed
    BY <1>1, <2>3 DEF InputInv, Handled
  <2>5. button => "button" \in pressed
    <3>1. Follows(events, pressed, "button", Len(events) + 1, button)
      BY <1>1 DEF InputInv, Handled
    <3> QED
      BY <1>t, <3>1, FollowsAll
  <2>6. Down("arrow") => "arrow" \in pressed
    <3>1. focus => Follows(events, pressed, "arrow", Len(events) + 1, Down("arrow"))
      BY <1>1 DEF InputInv, Handled
    <3>2. focus => (Down("arrow") => "arrow" \in pressed)
      BY <1>t, <3>1, FollowsAll, DownIsBoolean
    <3> QED
      BY <2>3, <3>2
  <2>7. /\ Down("button") => button
        /\ Down("ctrl") => modifiers
        /\ Input!Undisturbed => (button => Down("button")) /\ (modifiers => Down("ctrl"))
    BY DEF InputInv, Believed
  <2> QED
    BY <1>3, <1>q, <1>t, <2>1, <2>3, <2>4, <2>5, <2>6, <2>7
<1> QED
  BY <1>2, <1>3 DEF Input!FrameEnds

\* Between two frames everything is let go
LEMMA Released ==
    ASSUME InputInv, step = "idle", messages' \in Seq(Input!Message), Numbered',
           \A x \in Input!Things : ~Down(x)', Input!Undisturbed' => Input!Undisturbed,
           button' = FALSE, modifiers' = FALSE, focused' = FALSE,
           UNCHANGED << Input!user, Input!frame, known, Input!host >>
    PROVE  InputInv'
<1>1. /\ UNCHANGED << pressed, focus, events, settled, step, next, known >>
      /\ UNCHANGED << advertised, pending, accepted, injected, held >>
  BY DEF Input!user, Input!frame, Input!host
<1>2. Input!TypeOK'
  BY <1>1 DEF InputInv, Input!TypeOK
<1>3. Believed' /\ Focused'
  BY DEF Believed, Focused, Input!Things, Input!Keys
<1>4. Handled'
  <2>1. Follows(events, pressed, "arrow", 1, Down("arrow"))
          /\ Follows(events, pressed, "button", 1, button) /\ button \in BOOLEAN
    BY DEF InputInv, Handled, Input!TypeOK
  <2>2. ~Down("arrow")'
    BY DEF Input!Things, Input!Keys
  <2>3. Follows(events, pressed, "arrow", 1, Down("arrow")')
    BY <2>1, <2>2, FollowsLess, DownIsBoolean
  <2>4. Follows(events, pressed, "button", 1, FALSE)
    BY <2>1, FollowsLess
  <2> QED
    BY <1>1, <2>3, <2>4 DEF InputInv, Handled
<1> QED
  BY <1>2, <1>3, <1>4 DEF InputInv

LEMMA LetGoKeeps == ASSUME InputInv, Input!LetGo PROVE InputInv'
<1>1. /\ step = "idle" /\ messages' = Append(messages, Input!ReleaseAll)
      /\ button' = FALSE /\ modifiers' = FALSE /\ focused' = FALSE
      /\ UNCHANGED << Input!user, Input!frame, known, Input!host >>
  BY DEF Input!LetGo, Input!Send
<1>2. UNCHANGED << known, Input!host >>
  BY <1>1
<1>3. /\ messages' \in Seq(Input!Message) /\ Numbered' /\ (Input!Undisturbed' => Input!Undisturbed)
      /\ \A x \in Input!Things : ~Down(x)'
  BY <1>1, <1>2, SendsRelease DEF InputInv
<1> QED
  BY <1>1, <1>3, Released

LEMMA SelectProfileKeeps == ASSUME InputInv, Input!SelectProfile PROVE InputInv'
<1> DEFINE s == Append(messages, Input!ReleaseAll)
           begun(x) == Input!Agreed /\ x \in held
<1>1. /\ step = "idle" /\ messages' = Append(s, Input!Select)
      /\ button' = FALSE /\ modifiers' = FALSE /\ focused' = FALSE
      /\ UNCHANGED << Input!user, Input!frame, known, Input!host >>
  BY DEF Input!SelectProfile
<1>2. UNCHANGED << known, advertised, pending, accepted, injected, held >>
  BY <1>1 DEF Input!host
<1>t. Input!TypeOK /\ Numbered /\ messages \in Seq(Input!Message)
  BY InputTyped DEF InputInv
<1>3. Told(Input!Select) /\ Input!Select \in Input!Message
        /\ \A x : ~Presses(Input!Select, known, x) /\ ~Lifts(Input!Select, known, x)
  BY <1>t, SelectTold DEF Told
<1>4. /\ Told(Input!ReleaseAll) /\ Input!ReleaseAll \in Input!Message
      /\ \A x : /\ Presses(Input!ReleaseAll, known, x) <=> "all" = x /\ FALSE
                /\ Lifts(Input!ReleaseAll, known, x) <=> "all" = "all" \/ ("all" = x /\ ~FALSE)
  BY <1>t, InputTold DEF Input!ReleaseAll, Told
<1>5. /\ s \in Seq(Input!Message) /\ Len(s) = Len(messages) + 1 /\ Len(messages) \in Nat
      /\ s[Len(messages) + 1] = Input!ReleaseAll /\ \A k \in 1 .. Len(messages) : s[k] = messages[k]
  BY <1>t, <1>4, AppendPointwise
<1> HIDE DEF s
<1>6. /\ messages' \in Seq(Input!Message) /\ Len(messages') = Len(messages) + 2
      /\ messages'[Len(messages) + 2] = Input!Select
           /\ messages'[Len(messages) + 1] = Input!ReleaseAll
      /\ \A k \in 1 .. Len(messages) : messages'[k] = messages[k]
  <2>1. /\ Append(s, Input!Select) \in Seq(Input!Message)
             /\ Len(Append(s, Input!Select)) = Len(s) + 1
        /\ Append(s, Input!Select)[Len(s) + 1] = Input!Select
        /\ \A k \in 1 .. Len(s) : Append(s, Input!Select)[k] = s[k]
    BY <1>3, <1>5, AppendPointwise
  <2>2. Len(s) + 1 = Len(messages) + 2 /\ Len(messages) + 1 \in 1 .. Len(s)
          /\ \A k \in 1 .. Len(messages) : k \in 1 .. Len(s)
    BY <1>5
  <2> QED
    BY <1>1, <1>5, <2>1, <2>2
<1>7. Numbered'
  <2>1. ASSUME NEW k \in 1 .. Len(messages') PROVE messages'[k].generation <= known
          /\ (messages'[k].what # "select" => messages'[k].generation >= 1)
    <3>1. k \in 1 .. Len(messages) \/ k = Len(messages) + 1 \/ k = Len(messages) + 2
      BY <1>5, <1>6
    <3> QED
      BY <1>3, <1>4, <1>6, <1>t, <3>1 DEF Numbered, Told
  <2> QED
    BY <1>2, <1>t, <2>1 DEF Numbered
<1>8. Input!Undisturbed' => Input!Undisturbed
  BY <1>2, <1>5, <1>6 DEF Input!Undisturbed
<1>9. ASSUME NEW x \in Input!Things PROVE ~Down(x)'
  <2>1. begun(x) \in BOOLEAN
    OBVIOUS
  <2>2. Down(x)' <=> DownAfter(Append(s, Input!Select), known, x, begun(x))
    BY <1>1, <1>2 DEF Down, Input!Agreed
  <2> HIDE DEF begun
  <2>3. ~DownAfter(s, known, x, begun(x))
    BY <1>4, <1>t, <2>1, DownAfterOneMore DEF s
  <2>4. ~DownAfter(Append(s, Input!Select), known, x, begun(x))
    BY <1>3, <1>5, <2>1, <2>3, DownAfterOneMore
  <2> QED
    BY <2>2, <2>4
<1> QED
  BY <1>1, <1>6, <1>7, <1>8, <1>9, Released

\* Nothing happens in the window but that it sends, or that the host goes on
LEMMA WindowStays ==
    ASSUME InputInv, messages' \in Seq(Input!Message), Numbered',
           \A x \in Input!Things : Down(x)' => Down(x),
           Input!Undisturbed' => Input!Undisturbed /\ \A x \in Input!Things : Down(x) => Down(x)',
           {advertised', accepted', injected'} \subseteq Nat, pending' \in BOOLEAN,
           held' \subseteq Input!Things,
           UNCHANGED << Input!user, Input!window >>
    PROVE  InputInv'
<1>1. UNCHANGED << pressed, focus, events, settled, step, next, known, modifiers, button, focused >>
  BY DEF Input!user, Input!window, Input!frame, Input!belief
<1>2. Input!TypeOK'
  BY <1>1 DEF InputInv, Input!TypeOK
<1>3. Believed'
  BY <1>1 DEF InputInv, Believed, Input!Things
<1>4. Focused'
  BY <1>1 DEF InputInv, Focused, HasFocus, Input!Things, Input!Keys
<1>5. Handled'
  <2>1. Follows(events, pressed, "arrow", IF step = "keys" THEN next ELSE 1, Down("arrow"))
          /\ (Down("arrow")' => Down("arrow"))
    BY DEF InputInv, Handled, Input!Things, Input!Keys
  <2>2. Follows(events, pressed, "arrow", IF step = "keys" THEN next ELSE 1, Down("arrow")')
    BY <2>1, FollowsLess, DownIsBoolean
  <2> QED
    BY <1>1, <2>2 DEF InputInv, Handled
<1> QED
  BY <1>2, <1>3, <1>4, <1>5 DEF InputInv

LEMMA SelectMonitorKeeps == ASSUME InputInv, Input!SelectMonitor PROVE InputInv'
<1>1. messages' = Append(messages, Input!Select) /\ UNCHANGED << Input!user, Input!window >>
        /\ UNCHANGED << known, Input!host >>
  BY DEF Input!SelectMonitor, Input!Send, Input!window
<1>2. Told(Input!Select) /\ \A x : ~Presses(Input!Select, known, x)
        /\ ~Lifts(Input!Select, known, x)
  BY SelectTold DEF InputInv
<1>3. /\ messages' \in Seq(Input!Message) /\ Numbered' /\ (Input!Undisturbed' => Input!Undisturbed)
      /\ \A x : Down(x)' <=> Down(x)
  BY <1>1, <1>2, Sends DEF InputInv
<1>4. {advertised', accepted', injected'} \subseteq Nat /\ pending' \in BOOLEAN
        /\ held' \subseteq Input!Things
  BY <1>1 DEF InputInv, Input!TypeOK, Input!host
<1> QED
  BY <1>1, <1>3, <1>4, WindowStays

\* A new generation: nothing that is held is of it
LEMMA TakeFormatsKeeps == ASSUME InputInv, Input!TakeFormats PROVE InputInv'
<1>1. /\ step = "idle" /\ known' \in known + 1 .. advertised
      /\ UNCHANGED << Input!user, Input!frame, Input!belief, messages, Input!host >>
  BY DEF Input!TakeFormats
<1>2. /\ UNCHANGED << pressed, focus, events, settled, step, next, modifiers, button, focused,
         messages >>
      /\ UNCHANGED << advertised, pending, accepted, injected, held >>
  BY <1>1 DEF Input!user, Input!frame, Input!belief, Input!host
<1>t. Input!TypeOK /\ known \in Nat /\ advertised \in Nat /\ accepted \in Nat /\ injected \in Nat
        /\ messages \in Seq(Input!Message)
  BY InputTyped DEF InputInv
<1>3. known' \in Nat /\ known' > known /\ known' <= advertised
  BY <1>1, <1>t
<1>g. \A k \in 1 .. Len(messages) : messages[k].generation \in Nat
        /\ messages[k].generation < known'
  <2>1. ASSUME NEW k \in 1 .. Len(messages)
        PROVE  messages[k].generation \in Nat /\ messages[k].generation < known'
    <3>1. messages[k] \in Input!Message /\ messages[k].generation <= known
      BY <1>t DEF InputInv, Numbered
    <3>2. messages[k].generation \in Nat
      BY <3>1 DEF Input!Message
    <3> QED
      BY <1>3, <1>t, <3>1, <3>2
  <2> QED
    BY <2>1
<1>4. Numbered'
  <2>1. \A k \in 1 .. Len(messages) : messages[k].generation <= known'
    BY <1>g, <1>3
  <2>2. 1 <= known' /\ injected <= known'
    BY <1>3, <1>t DEF InputInv, Numbered
  <2> QED
    BY <1>2, <1>3, <2>1, <2>2 DEF InputInv, Numbered
<1>5. \A x : ~Down(x)'
  <2>1. injected # known'
    BY <1>3, <1>t DEF InputInv, Numbered
  <2>2. \A k \in 1 .. Len(messages) : messages[k].generation # known'
    BY <1>g, <1>3
  <2> QED
    BY <1>2, <2>1, <2>2 DEF Down, DownAfter, Input!Agreed, Presses
<1>6. ~Input!Undisturbed'
  BY <1>2, <1>3, <1>t DEF Input!Undisturbed, InputInv, Numbered
<1>7. Input!TypeOK'
  BY <1>2, <1>3 DEF InputInv, Input!TypeOK
<1>8. Believed' /\ Focused'
  BY <1>2, <1>5, <1>6 DEF InputInv, Believed, Focused, HasFocus
<1>9. Handled'
  <2>1. Follows(events, pressed, "arrow", 1, Down("arrow"))
    BY <1>1 DEF InputInv, Handled
  <2>2. Follows(events, pressed, "arrow", 1, Down("arrow")')
    BY <1>5, <2>1, FollowsLess, DownIsBoolean
  <2> QED
    BY <1>1, <1>2, <2>2 DEF InputInv, Handled
<1> QED
  BY <1>4, <1>7, <1>8, <1>9 DEF InputInv

-----------------------------------------------------------------------------
(* The host *)

LEMMA ReceiveKeeps == ASSUME InputInv, Input!Receive PROVE InputInv'
<1> DEFINE m == messages[1]
           begun(x) == Input!Agreed /\ x \in held
           then(x) == begun(x)'
<1>1. messages # << >> /\ messages' = Tail(messages)
        /\ UNCHANGED << Input!user, Input!window, advertised, pending >>
  BY DEF Input!Receive
<1>t. /\ messages \in Seq(Input!Message) /\ known \in Nat /\ advertised \in Nat /\ accepted \in Nat
      /\ injected \in Nat /\ pending \in BOOLEAN /\ held \subseteq Input!Things /\ Numbered
  BY InputTyped DEF InputInv, Input!TypeOK
<1>2. /\ messages' \in Seq(Input!Message) /\ Len(messages') = Len(messages) - 1
      /\ Len(messages) \in Nat \ {0} /\ Head(messages) = m /\ m \in Input!Message
      /\ \A k \in 1 .. Len(messages) - 1 : messages'[k] = messages[k + 1]
  BY <1>1, <1>t, TailPointwise
<1>w. UNCHANGED << known, advertised, pending >>
  BY <1>1 DEF Input!window
<1>m. /\ m.what \in Input!Things \cup {"passing", "all", "select"} /\ m.down \in BOOLEAN
      /\ m.generation \in Nat /\ m.generation <= known
      /\ m.what # "select" => m.generation >= 1
  BY <1>2 DEF Input!Message, Numbered, InputInv
<1>3. \A k \in 1 .. Len(messages') : /\ messages'[k].generation <= known
                                     /\ messages'[k].what # "select" => messages'[k].generation >= 1
  <2>1. \A k \in 1 .. Len(messages) - 1 : k + 1 \in 1 .. Len(messages)
    BY <1>2
  <2> QED
    BY <1>2, <1>t, <2>1 DEF Numbered
<1> HIDE DEF m
\* what is to show of each message
<1>q. ASSUME Numbered', accepted' \in Nat, injected' \in Nat, held' \subseteq Input!Things,
             \A x \in Input!Things : then(x) => Presses(m, known, x)
               \/ (begun(x) /\ ~Lifts(m, known, x)),
             Input!Undisturbed' => /\ Input!Undisturbed
                                   /\ \A x \in Input!Things :
                                        Presses(m, known, x) \/ (begun(x) /\ ~Lifts(m, known, x))
                                          => then(x)
      PROVE  InputInv'
  <2>1. \A x : begun(x) \in BOOLEAN /\ then(x) \in BOOLEAN
    BY DEF Input!Agreed
  <2>2. \A x : /\ Down(x) <=> DownAfter(messages, known, x, begun(x))
               /\ Down(x)' <=> DownAfter(Tail(messages), known, x, then(x))
    BY <1>1, <1>w DEF Down, Input!Agreed
  <2> HIDE DEF begun, then
  <2>3. \A x \in Input!Things : Down(x)' => Down(x)
    BY <1>1, <1>q, <1>t, <2>1, <2>2, DownAfterOneLess DEF m
  <2>4. Input!Undisturbed' => \A x \in Input!Things : Down(x) => Down(x)'
    BY <1>1, <1>q, <1>t, <2>1, <2>2, DownAfterOneLess DEF m
  <2>5. {advertised', accepted', injected'} \subseteq Nat /\ pending' \in BOOLEAN
    BY <1>q, <1>t, <1>w
  <2>6. UNCHANGED << Input!user, Input!window >>
    BY <1>1
  <2> QED
    BY <1>2, <1>q, <2>3, <2>4, <2>5, <2>6, WindowStays
\* the messages behind the first are no selection, and the first is none
<1>u. ASSUME m.what # "select", Input!Undisturbed', accepted = 1 PROVE Input!Undisturbed
  <2>1. advertised = 1
    BY <1>u, <1>w DEF Input!Undisturbed
  <2>2. \A k \in 1 .. Len(messages) - 1 : messages[k + 1].what # "select"
    BY <1>2, <1>u DEF Input!Undisturbed
  <2>3. \A k \in 1 .. Len(messages) : k = 1 \/ (k - 1 \in 1 .. Len(messages) - 1 /\ (k - 1) + 1 = k)
    BY <1>2
  <2>4. \A k \in 1 .. Len(messages) : messages[k].what # "select"
    BY <1>u, <2>2, <2>3 DEF m
  <2> QED
    BY <1>u, <2>1, <2>4 DEF Input!Undisturbed
<1>5. CASE m.what = "select" /\ Input!TakeSelect
  <2>1. held' = {} /\ accepted' = 0 /\ injected' = injected
    BY <1>5 DEF Input!TakeSelect
  <2>2. Numbered'
    BY <1>3, <1>t, <1>w, <2>1 DEF Numbered
  <2>3. \A x : ~then(x)
    BY <2>1
  <2>4. ~Input!Undisturbed'
    BY <2>1 DEF Input!Undisturbed
  <2> QED
    BY <1>q, <1>t, <2>1, <2>2, <2>3, <2>4
<1>6. CASE m.what # "select" /\ Input!DropInput(m)
  <2>1. m.generation # accepted /\ UNCHANGED << held, injected, accepted >>
    BY <1>6 DEF Input!DropInput
  <2>2. Numbered'
    BY <1>3, <1>t, <1>w, <2>1 DEF Numbered
  <2>3. \A x \in Input!Things : then(x) => begun(x) /\ ~Lifts(m, known, x)
    BY <1>w, <2>1 DEF Input!Agreed, Lifts
  <2>4. ~Input!Undisturbed'
    <3>1. SUFFICES ASSUME Input!Undisturbed' PROVE FALSE
      OBVIOUS
    <3>2. accepted = 1 /\ advertised = 1
      BY <1>w, <2>1, <3>1 DEF Input!Undisturbed
    <3>3. known = 1 /\ m.generation = 1
      BY <1>6, <1>m, <1>t, <3>2 DEF Numbered
    <3> QED
      BY <2>1, <3>2, <3>3
  <2> QED
    BY <1>q, <1>t, <2>1, <2>2, <2>3, <2>4
<1>7. CASE m.what # "select" /\ Input!TakeInput(m)
  <2> DEFINE base == IF injected = accepted THEN held ELSE {}
  <2>1. m.generation = accepted /\ held' = Input!Applied(base, m) /\ injected' = accepted
          /\ accepted' = accepted
    BY <1>7 DEF Input!TakeInput
  <2>2. accepted >= 1 /\ accepted <= known
    BY <1>7, <1>m, <2>1
  <2>3. Numbered'
    BY <1>3, <1>t, <1>w, <2>1, <2>2 DEF Numbered
  <2>4. base \subseteq Input!Things
    BY <1>t
  <2>5. \A x \in Input!Things : x \in held' <=> \/ m.what = x /\ m.down
                                                \/ x \in base
                                                     /\ ~(m.what = "all" \/ (m.what = x /\ ~m.down))
    <3> HIDE DEF base
    <3> QED
      BY <1>7, <1>m, <2>1, <2>4 DEF Input!Applied, Input!Things, Input!Keys
  <2>6. held' \subseteq Input!Things
    <3> HIDE DEF base
    <3>1. m.what \in Input!Things \cup {"passing", "all"}
      BY <1>7, <1>m
    <3> QED
      BY <2>1, <2>4, <3>1 DEF Input!Applied
  <2>7. \A x \in Input!Things : then(x) <=> known = accepted /\ x \in held'
    BY <1>w, <2>1 DEF Input!Agreed
  <2>8. \A x \in Input!Things : begun(x) <=> known = accepted /\ x \in base
    BY DEF Input!Agreed
  <2>9. \A x \in Input!Things : /\ Presses(m, known, x) <=> known = accepted /\ m.what = x /\ m.down
                                /\ Lifts(m, known, x)
                                     <=> known = accepted
                                       /\ (m.what = "all" \/ (m.what = x /\ ~m.down))
    BY <2>1 DEF Presses, Lifts
  <2> HIDE DEF base, begun, then
  <2>10. \A x \in Input!Things : then(x) <=> Presses(m, known, x)
           \/ (begun(x) /\ ~Lifts(m, known, x))
    BY <2>5, <2>7, <2>8, <2>9
  <2>11. Input!Undisturbed' => Input!Undisturbed
    <3>1. Input!Undisturbed' => accepted = 1
      BY <2>1 DEF Input!Undisturbed
    <3> QED
      BY <1>7, <1>u, <3>1
  <2> QED
    BY <1>q, <1>t, <2>1, <2>3, <2>6, <2>10, <2>11
<1> QED
  BY <1>2, <1>5, <1>6, <1>7 DEF Input!Receive

LEMMA FormatKeeps == ASSUME InputInv, Input!Advertise \/ Input!Activate PROVE InputInv'
<1>t. /\ messages \in Seq(Input!Message) /\ known \in Nat /\ advertised \in Nat /\ accepted \in Nat
      /\ injected \in Nat /\ pending \in BOOLEAN /\ held \subseteq Input!Things /\ Numbered
  BY InputTyped DEF InputInv, Input!TypeOK
<1>1. CASE Input!Advertise
  <2>1. /\ advertised' = advertised + 1 /\ pending' = TRUE
        /\ UNCHANGED << Input!user, Input!window >>
             /\ UNCHANGED << messages, accepted, injected, held >>
    BY <1>1 DEF Input!Advertise
  <2>2. UNCHANGED known
    BY <2>1 DEF Input!window
  <2>3. Numbered'
    BY <1>t, <2>1, <2>2 DEF Numbered
  <2>4. \A x : Down(x)' <=> Down(x)
    BY <2>1, <2>2 DEF Down, Input!Agreed
  <2>5. ~Input!Undisturbed'
    BY <1>t, <2>1 DEF Input!Undisturbed, Numbered
  <2>6. {advertised', accepted', injected'} \subseteq Nat /\ pending' \in BOOLEAN
          /\ held' \subseteq Input!Things
    BY <1>t, <2>1
  <2>7. messages' \in Seq(Input!Message)
    BY <1>t, <2>1
  <2> QED
    BY <2>1, <2>3, <2>4, <2>5, <2>6, <2>7, WindowStays
<1>2. CASE Input!Activate
  <2>1. /\ pending /\ accepted' = advertised /\ pending' = FALSE
        /\ UNCHANGED << Input!user, Input!window >>
             /\ UNCHANGED << messages, advertised, injected, held >>
    BY <1>2 DEF Input!Activate
  <2>2. UNCHANGED known
    BY <2>1 DEF Input!window
  <2>3. Numbered'
    BY <1>t, <2>1, <2>2 DEF Numbered
  <2>4. \A x : Down(x)' => Down(x)
    <3>1. ~Input!Agreed'
      BY <1>t, <2>1, <2>2 DEF Input!Agreed, Numbered
    <3> QED
      BY <2>1, <2>2, <3>1 DEF Down, DownAfter
  <2>5. ~Input!Undisturbed'
    BY <1>t, <2>1 DEF Input!Undisturbed, Numbered
  <2>6. {advertised', accepted', injected'} \subseteq Nat /\ pending' \in BOOLEAN
          /\ held' \subseteq Input!Things
    BY <1>t, <2>1
  <2>7. messages' \in Seq(Input!Message)
    BY <1>t, <2>1
  <2> QED
    BY <2>1, <2>3, <2>4, <2>5, <2>6, <2>7, WindowStays
<1> QED
  BY <1>1, <1>2

-----------------------------------------------------------------------------
(* The user *)

\* What the window and the host have is left alone
LEMMA UserLeaves ==
    ASSUME NEW new, Input!Happens(new)
    PROVE  /\ step = "idle" /\ events' = events \o new /\ settled' = FALSE
           /\ UNCHANGED << step, next, modifiers, button, focused, known, messages >>
           /\ UNCHANGED << advertised, pending, accepted, injected, held >>
           /\ \A x : Down(x)' <=> Down(x)
<1>1. /\ step = "idle" /\ events' = events \o new /\ settled' = FALSE
      /\ UNCHANGED << Input!window, messages, Input!host >>
  BY DEF Input!Happens
<1>2. /\ UNCHANGED << step, next, modifiers, button, focused, known, messages >>
      /\ UNCHANGED << advertised, pending, accepted, injected, held >>
  BY <1>1 DEF Input!window, Input!frame, Input!belief, Input!host
<1>3. \A x : Down(x)' <=> Down(x)
  BY <1>2 DEF Down, Input!Agreed
<1> QED
  BY <1>1, <1>2, <1>3

LEMMA EventsJoined ==
    ASSUME Input!TypeOK, NEW new \in Seq(Input!Event), Input!Happens(new)
    PROVE  /\ events' \in Seq(Input!Event) /\ Len(events') = Len(events) + Len(new)
           /\ Len(events) \in Nat /\ Len(new) \in Nat
           /\ \A k \in 1 .. Len(events) : events'[k] = events[k]
           /\ \A k \in 1 .. Len(new) : events'[Len(events) + k] = new[k]
<1>1. events' = events \o new /\ events \in Seq(Input!Event)
  BY DEF Input!Happens, Input!TypeOK
<1> QED
  BY <1>1

\* Nothing happens to x
LEMMA OthersHappen ==
    ASSUME Input!TypeOK, NEW new \in Seq(Input!Event), Input!Happens(new), NEW x, NEW d \in BOOLEAN,
           Follows(events, pressed, x, 1, d),
           \A k \in 1 .. Len(new) : new[k].what # x,
           x \in pressed' <=> x \in pressed
    PROVE  Follows(events', pressed', x, 1, d)
<1> DEFINE n == Len(events)
           m == Len(new)
<1>1. /\ Len(events') = n + m /\ n \in Nat /\ m \in Nat
      /\ \A k \in 1 .. n : events'[k] = events[k]
      /\ \A k \in 1 .. m : events'[n + k] = new[k]
  BY EventsJoined
<1> HIDE DEF n, m
<1>2. \A k \in 1 .. n + m : k > n => events'[k].what # x
  <2> SUFFICES ASSUME NEW k \in 1 .. n + m, k > n PROVE events'[k].what # x
    OBVIOUS
  <2>1. k - n \in 1 .. m /\ n + (k - n) = k
    BY <1>1
  <2>2. events'[n + (k - n)] = new[k - n]
    BY <1>1, <2>1
  <2> QED
    BY <2>1, <2>2 DEF m
<1>3. CASE (d => x \in pressed) /\ \A k \in 1 .. n : k >= 1 => events[k].what # x
  <2>0. \A k \in 1 .. n : events'[k].what # x
    BY <1>1, <1>3
  <2>1. \A k \in 1 .. n + m : events'[k].what # x
    BY <1>1, <1>2, <2>0
  <2> QED
    BY <1>1, <1>3, <2>1 DEF Follows
<1>4. ASSUME NEW k \in 1 .. n, events[k].what = x, events[k].down <=> x \in pressed,
             \A j \in 1 .. n : j > k => events[j].what # x
      PROVE  Follows(events', pressed', x, 1, d)
  <2>1. \A j \in 1 .. n + m : j > k => events'[j].what # x
    BY <1>1, <1>2, <1>4
  <2>2. k \in 1 .. n + m /\ k >= 1 /\ events'[k].what = x /\ (events'[k].down <=> x \in pressed')
    BY <1>1, <1>4
  <2> QED
    BY <1>1, <2>1, <2>2 DEF Follows
<1> QED
  BY <1>3, <1>4 DEF Follows, n

\* x goes down or up, and nothing more happens to it
LEMMA ItHappens ==
    ASSUME Input!TypeOK, NEW new \in Seq(Input!Event), Input!Happens(new), NEW x, NEW d \in BOOLEAN,
           new # << >>, new[1].what = x, new[1].down <=> x \in pressed',
           \A k \in 2 .. Len(new) : new[k].what # x
    PROVE  Follows(events', pressed', x, 1, d)
<1> DEFINE n == Len(events)
           m == Len(new)
<1>1. /\ Len(events') = n + m /\ n \in Nat /\ m \in Nat
      /\ \A k \in 1 .. m : events'[n + k] = new[k]
  BY EventsJoined
<1>2. m >= 1
  BY <1>1
<1> HIDE DEF n, m
<1>3. \A k \in 1 .. n + m : k > n + 1 => events'[k].what # x
  <2> SUFFICES ASSUME NEW k \in 1 .. n + m, k > n + 1 PROVE events'[k].what # x
    OBVIOUS
  <2>1. k - n \in 1 .. m /\ k - n \in 2 .. m /\ n + (k - n) = k
    BY <1>1
  <2>2. events'[n + (k - n)] = new[k - n]
    BY <1>1, <2>1
  <2> QED
    BY <2>1, <2>2 DEF m
<1>4. n + 1 \in 1 .. n + m /\ n + 1 >= 1 /\ events'[n + 1] = new[1]
  BY <1>1, <1>2
<1> QED
  BY <1>1, <1>3, <1>4 DEF Follows

\* Where button and arrow follow the events, the invariant holds
LEMMA UserKeeps ==
    ASSUME InputInv, NEW new \in Seq(Input!Event), Input!Happens(new),
           pressed' \subseteq Input!Things, focus' \in BOOLEAN,
           \A x \in {"button", "arrow"}, d \in BOOLEAN :
             Follows(events, pressed, x, 1, d) => Follows(events', pressed', x, 1, d)
    PROVE  InputInv'
<1>1. /\ step = "idle" /\ settled' = FALSE
      /\ UNCHANGED << step, next, modifiers, button, focused, known, messages >>
      /\ UNCHANGED << advertised, pending, accepted, injected, held >>
      /\ \A x : Down(x)' <=> Down(x)
  BY UserLeaves
<1>2. Input!TypeOK'
  <2>1. /\ events' \in Seq(Input!Event) /\ Len(events') = Len(events) + Len(new)
        /\ Len(events) \in Nat /\ Len(new) \in Nat
    BY EventsJoined DEF InputInv
  <2>2. next' \in 1 .. Len(events') + 1
    BY <1>1, <2>1 DEF InputInv, Input!TypeOK
  <2> QED
    BY <1>1, <2>1, <2>2 DEF InputInv, Input!TypeOK
<1>3. Numbered'
  BY <1>1 DEF InputInv, Numbered
<1>4. Believed' /\ Focused'
  BY <1>1 DEF InputInv, Believed, Focused, HasFocus, Input!Undisturbed
<1>5. Handled'
  <2>1. /\ Follows(events, pressed, "button", 1, button) /\ button \in BOOLEAN
        /\ Follows(events, pressed, "arrow", 1, Down("arrow")) /\ next = 1
    BY <1>1 DEF InputInv, Handled, Input!TypeOK
  <2>2. Follows(events', pressed', "button", 1, button)
    BY <2>1
  <2>3. Follows(events', pressed', "arrow", 1, Down("arrow")')
    BY <1>1, <2>1, DownIsBoolean
  <2> QED
    BY <1>1, <2>1, <2>2, <2>3 DEF Handled
<1> QED
  BY <1>2, <1>3, <1>4, <1>5 DEF InputInv

\* An event of the user
LEMMA KeyEvent ==
    ASSUME NEW x \in {"letter", "arrow", "button"}, NEW d \in BOOLEAN, NEW w \in BOOLEAN
    PROVE  LET e == [what |-> x, down |-> d, with |-> w]
           IN  e \in Input!Event /\ << e >> \in Seq(Input!Event) /\ Len(<< e >>) = 1
             /\ << e >>[1] = e
<1> DEFINE e == [what |-> x, down |-> d, with |-> w]
<1>1. e \in Input!Event
  BY DEF Input!Event
<1> HIDE DEF e
<1>2. << e >> \in Seq(Input!Event) /\ Len(<< e >>) = 1 /\ << e >>[1] = e
  BY <1>1
<1> QED
  BY <1>1, <1>2 DEF e

LEMMA PressKeeps == ASSUME InputInv, NEW k \in Input!Keys, Input!Press(k) PROVE InputInv'
<1> DEFINE ctrl == "ctrl" \in pressed
           e == [what |-> k, down |-> TRUE, with |-> ctrl]
           text == [what |-> "text"]
           new == << e >> \o IF k = "letter" /\ ~ctrl THEN << text >> ELSE << >>
<1>1. Input!Happens(new) /\ pressed' = pressed \cup {k} /\ focus' = focus
  BY DEF Input!Press
<1>k. k \in {"letter", "arrow"}
  BY DEF Input!Keys
<1>2. e \in Input!Event /\ e.what = k /\ e.down = TRUE
  <2>1. ctrl \in BOOLEAN
    OBVIOUS
  <2> HIDE DEF ctrl
  <2> QED
    BY <1>k, <2>1 DEF Input!Event
<1>3. text \in Input!Event /\ text.what = "text"
  BY DEF Input!Event
<1> HIDE DEF e, text, ctrl
<1>4. new \in Seq(Input!Event) /\ new # << >> /\ new[1] = e
        /\ \A i \in 2 .. Len(new) : new[i] = text
  BY <1>2, <1>3
<1> HIDE DEF new
<1>5. \A i \in 1 .. Len(new) : i = 1 \/ i \in 2 .. Len(new)
  BY <1>4
<1>6. ASSUME NEW d \in BOOLEAN PROVE Follows(events', pressed', k, 1, d)
  <2>1. new[1].what = k /\ (new[1].down <=> k \in pressed')
          /\ \A i \in 2 .. Len(new) : new[i].what # k
    BY <1>1, <1>2, <1>3, <1>4, <1>k
  <2> QED
    BY <1>1, <1>4, <2>1, ItHappens DEF InputInv
<1>7. ASSUME NEW x \in {"button", "arrow"}, x # k, NEW d \in BOOLEAN,
             Follows(events, pressed, x, 1, d)
      PROVE  Follows(events', pressed', x, 1, d)
  <2>1. \A i \in 1 .. Len(new) : new[i].what # x
    BY <1>2, <1>3, <1>4, <1>5, <1>7
  <2>2. x \in pressed' <=> x \in pressed
    BY <1>1, <1>7
  <2> QED
    BY <1>1, <1>4, <1>7, <2>1, <2>2, OthersHappen DEF InputInv
<1>8. \A x \in {"button", "arrow"}, d \in BOOLEAN :
        Follows(events, pressed, x, 1, d) => Follows(events', pressed', x, 1, d)
  BY <1>6, <1>7
<1>9. pressed' \subseteq Input!Things /\ focus' \in BOOLEAN
  BY <1>1, <1>k DEF InputInv, Input!TypeOK, Input!Things, Input!Keys
<1> QED
  BY <1>1, <1>4, <1>8, <1>9, UserKeeps

\* one event of a key or the button
LEMMA OneEventKeeps ==
    ASSUME InputInv, NEW x \in {"letter", "arrow", "button"}, NEW d \in BOOLEAN, NEW w \in BOOLEAN,
           Input!Happens(<< [what |-> x, down |-> d, with |-> w] >>),
           pressed' = IF d THEN pressed \cup {x} ELSE pressed \ {x}, focus' = focus
    PROVE  InputInv'
<1> DEFINE e == [what |-> x, down |-> d, with |-> w]
           new == << e >>
<1>1. e.what = x /\ e.down = d
  OBVIOUS
<1>2. new \in Seq(Input!Event) /\ new # << >> /\ Len(new) = 1 /\ new[1] = e /\ Input!Happens(new)
  BY KeyEvent
<1> HIDE DEF e, new
<1>3. ASSUME NEW b \in BOOLEAN PROVE Follows(events', pressed', x, 1, b)
  <2>1. (new[1].down <=> x \in pressed') /\ \A i \in 2 .. Len(new) : FALSE
    BY <1>1, <1>2
  <2> QED
    BY <1>1, <1>2, <2>1, ItHappens DEF InputInv
<1>4. ASSUME NEW y \in {"button", "arrow"}, y # x, NEW b \in BOOLEAN,
             Follows(events, pressed, y, 1, b)
      PROVE  Follows(events', pressed', y, 1, b)
  <2>1. \A i \in 1 .. Len(new) : new[i].what # y
    BY <1>1, <1>2, <1>4
  <2>2. y \in pressed' <=> y \in pressed
    BY <1>4
  <2> QED
    BY <1>2, <1>4, <2>1, <2>2, OthersHappen DEF InputInv
<1>5. \A y \in {"button", "arrow"}, b \in BOOLEAN :
        Follows(events, pressed, y, 1, b) => Follows(events', pressed', y, 1, b)
  BY <1>3, <1>4
<1>6. pressed' \subseteq Input!Things /\ focus' \in BOOLEAN
  BY DEF InputInv, Input!TypeOK, Input!Things, Input!Keys
<1> QED
  BY <1>2, <1>5, <1>6, UserKeeps

LEMMA ReleaseKeeps == ASSUME InputInv, NEW k \in Input!Keys, Input!Release(k) PROVE InputInv'
<1> DEFINE ctrl == "ctrl" \in pressed
<1>1. Input!Happens(<< [what |-> k, down |-> FALSE, with |-> ctrl] >>) /\ pressed' = pressed \ {k}
        /\ focus' = focus
  BY DEF Input!Release
<1>2. ctrl \in BOOLEAN /\ k \in {"letter", "arrow", "button"}
  BY DEF Input!Keys
<1> HIDE DEF ctrl
<1> QED
  BY <1>1, <1>2, OneEventKeeps

LEMMA ClickKeeps == ASSUME InputInv, NEW down \in BOOLEAN, Input!Click(down) PROVE InputInv'
<1>1. PICK inside \in BOOLEAN : Input!Happens(<< [what |-> "button", down |-> down,
      with |-> inside] >>)
  BY DEF Input!Click
<1>2. pressed' = (IF down THEN pressed \cup {"button"} ELSE pressed \ {"button"}) /\ focus' = focus
  BY DEF Input!Click
<1> QED
  BY <1>1, <1>2, OneEventKeeps

\* no event, or a paste
LEMMA NothingKeeps ==
    ASSUME InputInv, NEW new \in Seq(Input!Event), Input!Happens(new),
           \A k \in 1 .. Len(new) : new[k].what = "paste",
           pressed' \subseteq Input!Things, pressed' \ {"ctrl"} = pressed \ {"ctrl"},
           focus' \in BOOLEAN
    PROVE  InputInv'
<1>1. ASSUME NEW x \in {"button", "arrow"}, NEW d \in BOOLEAN, Follows(events, pressed, x, 1, d)
      PROVE  Follows(events', pressed', x, 1, d)
  <2>1. (\A k \in 1 .. Len(new) : new[k].what # x) /\ (x \in pressed' <=> x \in pressed)
    BY <1>1
  <2> QED
    BY <1>1, <2>1, OthersHappen DEF InputInv
<1> QED
  BY <1>1, UserKeeps

LEMMA QuietKeeps == ASSUME InputInv, Input!Modify \/ Input!Paste \/ Input!MoveFocus PROVE InputInv'
<1>t. pressed \subseteq Input!Things /\ focus \in BOOLEAN
  BY DEF InputInv, Input!TypeOK
<1>1. CASE Input!Modify
  <2>1. Input!Happens(<< >>) /\ pressed' \subseteq Input!Things
          /\ pressed' \ {"ctrl"} = pressed \ {"ctrl"} /\ focus' = focus
    BY <1>1, <1>t DEF Input!Modify, Input!Things
  <2> DEFINE new == << >>
  <2>2. new \in Seq(Input!Event) /\ \A k \in 1 .. Len(new) : new[k].what = "paste"
    OBVIOUS
  <2>3. Input!Happens(new) /\ pressed' \subseteq Input!Things
          /\ pressed' \ {"ctrl"} = pressed \ {"ctrl"} /\ focus' \in BOOLEAN
    BY <1>t, <2>1
  <2> HIDE DEF new
  <2> QED
    BY <2>2, <2>3, NothingKeeps
<1>2. CASE Input!Paste
  <2> DEFINE e == [what |-> "paste"]
  <2>1. Input!Happens(<< e >>) /\ pressed' = pressed /\ focus' = focus
    BY <1>2 DEF Input!Paste
  <2>2. e \in Input!Event /\ e.what = "paste"
    BY DEF Input!Event
  <2> HIDE DEF e
  <2>3. << e >> \in Seq(Input!Event) /\ \A k \in 1 .. Len(<< e >>) : << e >>[k].what = "paste"
    BY <2>2
  <2> QED
    BY <1>t, <2>1, <2>3, NothingKeeps
<1>3. CASE Input!MoveFocus
  <2>1. Input!Happens(<< >>) /\ pressed' = pressed /\ focus' \in BOOLEAN
    BY <1>3, <1>t DEF Input!MoveFocus
  <2> DEFINE new == << >>
  <2>2. new \in Seq(Input!Event) /\ \A k \in 1 .. Len(new) : new[k].what = "paste"
    OBVIOUS
  <2>3. Input!Happens(new) /\ pressed' \subseteq Input!Things
          /\ pressed' \ {"ctrl"} = pressed \ {"ctrl"} /\ focus' \in BOOLEAN
    BY <1>t, <2>1
  <2> HIDE DEF new
  <2> QED
    BY <2>2, <2>3, NothingKeeps
<1> QED
  BY <1>1, <1>2, <1>3

-----------------------------------------------------------------------------
LEMMA InputStep == InputInv /\ [Input!Next]_(Input!vars) => InputInv'
<1> SUFFICES ASSUME InputInv, [Input!Next]_(Input!vars) PROVE InputInv'
  OBVIOUS
<1>1. CASE UNCHANGED Input!vars
  <2>1. UNCHANGED << Input!user, Input!window, Input!host >> /\ UNCHANGED messages
    BY <1>1 DEF Input!vars
  <2>2. /\ messages' \in Seq(Input!Message) /\ Numbered'
             /\ (Input!Undisturbed' => Input!Undisturbed)
        /\ \A x : Down(x)' <=> Down(x)
    BY <2>1, SendsNone DEF InputInv, Input!window
  <2>3. {advertised', accepted', injected'} \subseteq Nat /\ pending' \in BOOLEAN
          /\ held' \subseteq Input!Things
    BY <2>1 DEF InputInv, Input!TypeOK, Input!host
  <2> QED
    BY <2>1, <2>2, <2>3, WindowStays
<1>2. CASE Input!User
  BY <1>2, PressKeeps, ReleaseKeeps, QuietKeeps, ClickKeeps DEF Input!User
<1>3. CASE Input!WindowSteps
  BY <1>3, FrameBeginsKeeps, HandleButtonKeeps, PollModifiersKeeps, HandleKeyKeeps, FrameEndsKeeps,
     LetGoKeeps, SelectProfileKeeps, SelectMonitorKeeps, TakeFormatsKeeps DEF Input!WindowSteps
<1>4. CASE Input!Host
  BY <1>4, ReceiveKeeps, FormatKeeps DEF Input!Host
<1> QED
  BY <1>1, <1>2, <1>3, <1>4 DEF Input!Next

LEMMA InputMeans ==
    InputInv => Input!TypeOK /\ Input!MirrorsHost /\ Input!UnfocusedHoldsNoKey
      /\ Input!HeldIsPressed
<1> SUFFICES ASSUME InputInv PROVE Input!TypeOK /\ Input!MirrorsHost /\ Input!UnfocusedHoldsNoKey
  /\ Input!HeldIsPressed
  OBVIOUS
<1>t. Input!TypeOK /\ held \subseteq Input!Things /\ button \in BOOLEAN /\ modifiers \in BOOLEAN
        /\ Len(events) \in Nat
  BY InputTyped DEF InputInv, Input!TypeOK
<1>1. Input!Quiet => \A x : Down(x) <=> Input!Agreed /\ x \in held
  BY DownWhenEmpty DEF Input!Quiet
<1>2. Input!MirrorsHost
  <2>1. Input!Quiet /\ Input!Agreed => ("button" \in held => button)
          /\ ("ctrl" \in held => modifiers)
    BY <1>1 DEF InputInv, Believed
  <2>2. ASSUME Input!Quiet, Input!Undisturbed PROVE button = ("button" \in held)
                 /\ modifiers = ("ctrl" \in held)
    <3>1. (button => "button" \in held /\ Input!Agreed)
            /\ (modifiers => "ctrl" \in held /\ Input!Agreed)
      BY <1>1, <2>2 DEF InputInv, Believed
    <3>2. ("button" \in held => button) /\ ("ctrl" \in held => modifiers)
      <4>1. held # {} => Input!Agreed
        <5>1. known = 1 /\ accepted = 1 /\ (injected = 0 \/ injected = 1)
          BY <2>2, InputTyped DEF InputInv, Numbered, Input!Undisturbed
        <5> QED
          BY <5>1 DEF Input!Agreed, InputInv, Numbered
      <4> QED
        BY <2>1, <2>2, <4>1
    <3>3. (button <=> "button" \in held) /\ (modifiers <=> "ctrl" \in held)
      BY <3>1, <3>2
    <3> DEFINE b == "button" \in held
               c == "ctrl" \in held
    <3>4. b \in BOOLEAN /\ c \in BOOLEAN /\ (button <=> b) /\ (modifiers <=> c)
      BY <3>3
    <3> HIDE DEF b, c
    <3>5. button = b /\ modifiers = c
      BY <1>t, <3>4
    <3> QED
      BY <3>5 DEF b, c
  <2> QED
    BY <2>1, <2>2 DEF Input!MirrorsHost
<1>3. Input!UnfocusedHoldsNoKey
  <2>1. Input!Quiet /\ ~focused => ~HasFocus
    BY DEF HasFocus, Input!Quiet
  <2>2. Input!Quiet /\ Input!Agreed /\ ~focused
          => \A x \in {"ctrl", "letter", "arrow"} : x \notin held
    BY <1>1, <2>1 DEF InputInv, Focused
  <2> QED
    BY <1>t, <2>2 DEF Input!UnfocusedHoldsNoKey, Input!Things, Input!Keys
<1>4. Input!HeldIsPressed
  <2>1. SUFFICES ASSUME Input!Quiet, Input!Agreed, settled PROVE held \ {"letter"} \subseteq pressed
    BY DEF Input!HeldIsPressed
  <2>2. /\ Len(events) + 1 = 1 /\ (modifiers => "ctrl" \in pressed)
        /\ Follows(events, pressed, "button", 1, button)
        /\ Follows(events, pressed, "arrow", 1, Down("arrow"))
    <3>1. step = "idle" /\ Len(events) = 0 /\ (modifiers => "ctrl" \in pressed)
      BY <2>1 DEF InputInv, Handled, Input!Quiet
    <3> QED
      BY <3>1 DEF InputInv, Handled
  <2>3. (button => "button" \in pressed) /\ (Down("arrow") => "arrow" \in pressed)
    BY <1>t, <2>2, FollowsAll, DownIsBoolean
  <2>4. (Down("button") => button) /\ (Down("ctrl") => modifiers)
    BY DEF InputInv, Believed
  <2> QED
    BY <1>1, <1>t, <2>1, <2>2, <2>3, <2>4 DEF Input!Things, Input!Keys
<1> QED
  BY <1>t, <1>2, <1>3, <1>4

-----------------------------------------------------------------------------
(* All four in one program.  A behaviour moves one of them; the others keep *)
(* their invariants because none of their variables change.                 *)

MediaInv == VideoInv /\ RateInv /\ ClipInv /\ InputInv

\* While one part moves, the others stay as they are.
LEMMA OneMoves ==
    ASSUME [Next]_vars
    PROVE  /\ [Video!Next]_(Video!vars) /\ [Rates!Next]_(Rates!vars)
           /\ [Clipboards!Next]_(Clipboards!vars) /\ [Input!Next]_(Input!vars)
<1> USE DEF vars, videoVars, rateVars, clipVars, inputVars, VideoMoves, RatesMove, ClipboardsMove,
            InputMoves
<1>1. [Video!Next]_(Video!vars)
  BY DEF Next, Video!vars, Video!host, Video!viewer, Video!screen
<1>2. [Rates!Next]_(Rates!vars)
  BY DEF Next, Rates!vars, Rates!adaptive, Rates!history
<1>3. [Clipboards!Next]_(Clipboards!vars)
  BY DEF Next, Clipboards!vars, Clipboards!counters
<1>4. [Input!Next]_(Input!vars)
  BY DEF Next, Input!vars, Input!user, Input!window, Input!frame, Input!belief, Input!host
<1> QED
  BY <1>1, <1>2, <1>3, <1>4

\* Every state a behaviour reaches has frames, rates, texts and input that agree.
THEOREM MediaInvariant == Spec => []MediaInv
<1>a. Video!ConstantsAssumption /\ Rates!ConstantsAssumption /\ Clipboards!ConstantsAssumption
  BY InstanceAssumption
<1>1. Init => MediaInv
  BY <1>a, VideoInit, RateInit, ClipInit, InputInit DEF Init, MediaInv
<1>2. MediaInv /\ [Next]_vars => MediaInv'
  BY <1>a, OneMoves, VideoStep, RateStep, ClipStep, InputStep DEF MediaInv
<1> QED
  BY <1>1, <1>2, PTL DEF Spec

\* Every decoder gets what its encoder put out, from the first frame on, no fragment is refused,
\* the window holds what is under way and its bytes (send_video_packets, FlightWindow, Assembler),
\* and no more is asked of the encoder than the last window could do (Adaptive::target): for any
\* window, sizes, generations, conditions and ceiling.
THEOREM StreamSound == Spec => []StreamIsSound
<1>1. MediaInv => StreamIsSound
  BY InstanceAssumption, VideoMeans, RateMeans DEF MediaInv, StreamIsSound
<1> QED
  BY <1>1, MediaInvariant, PTL

\* "Missing feedback never grants an increase", and the frame rate rises after five windows that
\* could have done more (Adaptive::observe).
THEOREM EveryIncreaseEarned == Spec => RatesAreEarned
<1>1. MediaInv /\ [Next]_vars => [bitrate' > bitrate => calm' = 3 /\ paid >= 2]_(Rates!vars)
  BY InstanceAssumption, OneMoves, RateStepEarned DEF MediaInv
<1>2. MediaInv /\ [Next]_vars => [fps' > fps => quick' = 5]_(Rates!vars)
  BY InstanceAssumption, OneMoves, FrameRateStepEarned DEF MediaInv
<1> QED
  BY <1>1, <1>2, MediaInvariant, PTL
     DEF Spec, RatesAreEarned, Rates!RatesAreEarned, Rates!RateIsEarned, Rates!FrameRateIsEarned

\* Whatever generations come while frames, messages and selections are under way: of the one the
\* window sends the host holds nothing down the window does not believe it holds, no key without the
\* focus, and nothing but a text key that the user has let go of; in an undisturbed session it holds
\* what the window believes (App::remote, spawn_host_reader, the Injector).
THEOREM HostMirrored == Spec => []MirrorsHost
<1>1. MediaInv => MirrorsHost
  BY InputMeans DEF MediaInv, MirrorsHost
<1> QED
  BY <1>1, MediaInvariant, PTL

\* Two clipboards never send one text to and fro (TextClipboard.fingerprint).
THEOREM NoPingPong == Spec => []OncePerCopy
<1>1. MediaInv => OncePerCopy
  BY ClipMeans DEF MediaInv, OncePerCopy
<1> QED
  BY <1>1, MediaInvariant, PTL

\* "Echo prevention": what the peer put on the clipboard is never sent back (TextClipboard::poll
\* and apply), nor what was there before the session (the baseline in poll), in whatever order
\* copies, switches, messages and refusals come.
THEOREM EchoPrevented == Spec => NoEcho
<1>1. MediaInv /\ [Next]_vars
      => [\A s \in Clipboards!Sides : Clipboards!Sends(s) => owner[s] # "peer"]_(Clipboards!vars)
  BY OneMoves, SendsOwn DEF MediaInv, FromUser
<1>2. MediaInv /\ [Next]_vars
      => [\A s \in Clipboards!Sides : Clipboards!Sends(s) => owner[s] # "before"]_(Clipboards!vars)
  BY OneMoves, SendsOwn DEF MediaInv, FromUser
<1> QED
  BY <1>1, <1>2, MediaInvariant, PTL
     DEF Spec, NoEcho, Clipboards!NoEcho, Clipboards!NothingFromBefore
=============================================================================
