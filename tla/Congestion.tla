----------------------------- MODULE Congestion -----------------------------
(***************************************************************************)
(* The rate control of the host's video (Adaptive, crates/sensor-media/src/ *)
(* adaptive.rs, and its use in host_desktop, crates/sensor-desktop/src/     *)
(* worker.rs).                                                              *)
(*                                                                          *)
(* Once a second the host looks at what the last window told it: whether    *)
(* frames were acknowledged and how late, the round trip, the time that     *)
(* decoding or encoding a frame takes, and whether its own queue was full.  *)
(* From that it moves the bitrate and the highest frame rate; the target    *)
(* follows from both, and a target with another size or frame rate costs a  *)
(* new encoder.                                                             *)
(*                                                                          *)
(* Bits per second, milliseconds and microseconds are the code's.  The size *)
(* of the picture is the number of its tier.                                *)
(*                                                                          *)
(* A definition marked "Mutation" is not the code: it is a plausible wrong  *)
(* version of the definition below it, used to see a property fail.         *)
(***************************************************************************)
EXTENDS Integers, FiniteSetsExt

CONSTANTS
    Asked,      \* the ceilings SENSOR_VIDEO_MAX_BITRATE may ask for
    Deliveries, \* the delivery times of a window (0: nothing was delivered)
    Works,      \* the times one frame may take
    Grain       \* bound: bitrates are rounded down to multiples of it, 1 in the code

ConstantsAssumption ==
    /\ Asked \subseteq Nat /\ Deliveries \subseteq Nat /\ Works \subseteq Nat \ {0}
    /\ Grain \in Nat \ {0} /\ 100000 % Grain = 0

MIN_BITRATE == 300000
MAX_CEILING == 50000000
Unknown     == 1000000000  \* u64::MAX, later than anything
Tiers       == {10, 15, 24, 30, 60}
Profiles    == {"Auto", "Quality", "Performance"}

VARIABLES
    bitrate, ceiling, baseline, healthy, congested,
    fps,     \* fps_ceiling
    faster,  \* faster_windows
    profile,
    target,  \* the size and frame rate of the encoder
    calm,    \* history: windows in a row that were acknowledged, quick and free of congestion, to 3
    paid,    \* history: windows since the bitrate grew, to 3
    quick,   \* history: windows in a row that could have done more frames, to 5
    last     \* history: what the last window could do

adaptive == << bitrate, ceiling, baseline, healthy, congested, fps, faster >>
history  == << calm, paid, quick, last >>
vars     == << adaptive, profile, target, history >>

Feedback == [acknowledged : BOOLEAN, saturated : BOOLEAN, slow : BOOLEAN,
             delivery : Deliveries, work : Works]

Clamp(x, low, high) == IF x < low THEN low ELSE IF x > high THEN high ELSE x
Least(x, y) == IF x < y THEN x ELSE y

TypeOK ==
    /\ ceiling \in MIN_BITRATE .. MAX_CEILING
    /\ bitrate \in MIN_BITRATE .. ceiling
    /\ baseline \in Deliveries \cup {Unknown}
    /\ healthy \in 0 .. 2 /\ faster \in 0 .. 4
    /\ congested \in BOOLEAN
    /\ fps \in Tiers
    /\ profile \in Profiles
    /\ target \in [size : 0 .. 5, fps : Tiers]

-----------------------------------------------------------------------------
\* the size and frame rate a bitrate is for
Tier(b, p) ==
    IF b < 800000 THEN [size |-> 0, fps |-> 15]
    ELSE IF b < 1600000 THEN [size |-> 1, fps |-> 24]
    ELSE IF b < 3000000 THEN [size |-> 2, fps |-> 30]
    ELSE IF b < 5000000 THEN CASE p = "Performance" -> [size |-> 2, fps |-> 60]
                               [] p = "Quality"     -> [size |-> 4, fps |-> 30]
                               [] OTHER             -> [size |-> 3, fps |-> 30]
    ELSE IF b < 8000000 THEN [size |-> 4, fps |-> 30]
    ELSE [size |-> 4, fps |-> 60]

Target(b, p, f) == [size |-> Tier(b, p).size, fps |-> Least(Tier(b, p).fps, f)]

\* the highest tier that leaves a margin of 15 %
Sustainable(work) == Max({ t \in Tiers : t <= Clamp(850000 \div work, 10, 60) })

Init ==
    /\ ceiling \in { Clamp(a, MIN_BITRATE, MAX_CEILING) : a \in Asked }
    /\ bitrate = Least(1800000, ceiling)
    /\ baseline = Unknown /\ healthy = 0 /\ congested = FALSE
    /\ fps = 60 /\ faster = 0
    /\ profile = "Auto"
    /\ target = Target(bitrate, profile, fps)
    /\ calm = 0 /\ paid = 3 /\ quick = 0 /\ last = 60

-----------------------------------------------------------------------------
(* observe *)

\* what observe makes of the delivery times
Baseline(f) == IF f.acknowledged /\ f.delivery # 0 THEN Least(baseline, f.delivery) ELSE baseline

Congested(f) ==
    \/ f.saturated
    \/ f.delivery > Least(Baseline(f) + 120, 600) /\ f.delivery > 200

\* down at once, up after five windows
FrameRate(f) ==
    LET tier == Sustainable(f.work) IN
    \/ tier < fps /\ fps' = tier /\ faster' = 0
    \/ /\ tier > fps /\ f.acknowledged /\ ~Congested(f)
       /\ IF faster + 1 >= 5 THEN fps' = tier /\ faster' = 0 ELSE fps' = fps /\ faster' = faster + 1
    \/ tier >= fps /\ ~(tier > fps /\ f.acknowledged /\ ~Congested(f)) /\ fps' = fps /\ faster' = 0

Rounded(b) == b - (b % Grain)

\* bitrate * 65 / 100
Cut(b) == Rounded(65 * (b \div 100) + (65 * (b % 100)) \div 100)

Grown(b) == Rounded(b + (IF b \div 5 > 100000 THEN b \div 5 ELSE 100000))

\* Mutation: a window without feedback does not end the count
RateKeepingCount(f) ==
    \/ Congested(f) /\ bitrate' = Least(Clamp(Cut(bitrate), MIN_BITRATE, MAX_CEILING), ceiling) /\ healthy' = 0
    \/ /\ ~Congested(f) /\ f.acknowledged /\ ~f.slow
       /\ IF healthy + 1 >= 3 THEN bitrate' = Least(Grown(bitrate), ceiling) /\ healthy' = 0
          ELSE bitrate' = bitrate /\ healthy' = healthy + 1
    \/ ~Congested(f) /\ ~(f.acknowledged /\ ~f.slow) /\ UNCHANGED << bitrate, healthy >>

\* Mutation: the rate grows in every healthy window
RateImpatient(f) ==
    \/ Congested(f) /\ bitrate' = Least(Clamp(Cut(bitrate), MIN_BITRATE, MAX_CEILING), ceiling) /\ healthy' = 0
    \/ ~Congested(f) /\ f.acknowledged /\ ~f.slow /\ bitrate' = Least(Grown(bitrate), ceiling) /\ healthy' = 0
    \/ ~Congested(f) /\ ~(f.acknowledged /\ ~f.slow) /\ bitrate' = bitrate /\ healthy' = 0

\* down by 35 % at once, up by 20 % after three healthy windows
Rate(f) ==
    \/ Congested(f) /\ bitrate' = Least(Clamp(Cut(bitrate), MIN_BITRATE, MAX_CEILING), ceiling) /\ healthy' = 0
    \/ /\ ~Congested(f) /\ f.acknowledged /\ ~f.slow
       /\ IF healthy + 1 >= 3 THEN bitrate' = Least(Grown(bitrate), ceiling) /\ healthy' = 0
          ELSE bitrate' = bitrate /\ healthy' = healthy + 1
    \/ ~Congested(f) /\ ~(f.acknowledged /\ ~f.slow) /\ bitrate' = bitrate /\ healthy' = 0

\* a window ends: observe, then the target of what it decided
Observe(f) ==
    /\ baseline' = Baseline(f)
    /\ congested' = Congested(f)
    /\ FrameRate(f)
    /\ Rate(f)
    /\ target' = Target(bitrate', profile, fps')
    /\ calm' = IF ~Congested(f) /\ f.acknowledged /\ ~f.slow THEN Least(calm + 1, 3) ELSE 0
    /\ paid' = IF bitrate' > bitrate THEN 0 ELSE Least(paid + 1, 3)
    /\ quick' = IF ~Congested(f) /\ f.acknowledged /\ Sustainable(f.work) > fps THEN Least(quick + 1, 5) ELSE 0
    /\ last' = Sustainable(f.work)
    /\ UNCHANGED << ceiling, profile >>

\* SelectVideoProfile, which reconfigures
Select(p) ==
    /\ p # profile
    /\ profile' = p
    /\ target' = Target(bitrate, p, fps)
    /\ UNCHANGED << adaptive, history >>

Next ==
    \/ \E f \in Feedback : Observe(f)
    \/ \E p \in Profiles : Select(p)

Spec == Init /\ [][Next]_vars

-----------------------------------------------------------------------------
(* Properties *)

\* "Missing feedback never grants an increase": the rate only grows when the three last windows
\* were all acknowledged, quick and free of congestion, and had not been paid for already.
RateIsEarned == [][bitrate' > bitrate => calm' = 3 /\ paid >= 2]_vars

\* "FPS recovery now requires five healthy windows" (ADAPTIVE-0.3.4.md): the frame rate only rises
\* after five windows in a row that each could have done more, so that a single quick frame does
\* not recreate the encoder.
FrameRateIsEarned == [][fps' > fps => quick' = 5]_vars

\* Rate and frame rate grow only after the windows that pay for it (Adaptive::observe).
RatesAreEarned == RateIsEarned /\ FrameRateIsEarned

\* The encoder is never asked for more frames than the last window could decode and encode, nor
\* for a larger picture than the rate is for.
WithinCapacity ==
    /\ target.fps <= last
    /\ target = Target(bitrate, profile, fps)
=============================================================================
