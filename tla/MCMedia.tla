------------------------------ MODULE MCMedia -------------------------------
(***************************************************************************)
(* Media for TLC: two generations of the encoder; windows of a few kinds in *)
(* any order, or of any kind again and again; users who copy and switch on  *)
(* both sides, or one who only copies; a user who presses a few things, with*)
(* two events between two frames and two generations of the picture.        *)
(***************************************************************************)
EXTENDS Media

CONSTANTS m1, m2, t1, t2

VARIABLES
    conditions, \* what every window tells, or a link; None: they change
    recreated,  \* history: in which of the last four windows the encoder was recreated
    alone,      \* only the user of the viewer copies, and nothing else happens to the clipboards
    used        \* what the user presses

mcVars == << vars, conditions, recreated, alone, used >>

-----------------------------------------------------------------------------
(* Conditions that do not change: every window tells the same, or the link carries so much and is  *)
(* saturated by more.                                                                              *)

Steady == { f \in Rates!Feedback : f.delivery # 400 }

Links == [bandwidth : {250000, 700000, 900000, 1700000, 3200000, 4900000, 9000000},
          work : {5000, 30000, 50000}]

Over(link) == [acknowledged |-> TRUE, saturated |-> bitrate > link.bandwidth, slow |-> FALSE,
               delivery |-> 80, work |-> link.work]

SteadyMoves ==
    /\ part = "rates" /\ conditions # None
    /\ \/ conditions \in Steady /\ Rates!Observe(conditions)
       \/ conditions \in Links /\ Rates!Observe(Over(conditions))
    /\ recreated' = Append(Tail(recreated), target' # target)
    /\ UNCHANGED << part, videoVars, clipVars, inputVars, conditions, alone, used >>

\* Conditions that change: deliveries and works far from what matters, on both sides of it
Changing == { f \in Rates!Feedback : f.delivery \in {80, 400} /\ f.work # 30000 }

ChangingMoves ==
    /\ part = "rates" /\ conditions = None
    /\ \/ \E f \in Changing : Rates!Observe(f)
       \/ \E p \in Rates!Profiles : Rates!Select(p)
    /\ UNCHANGED << part, videoVars, clipVars, inputVars, conditions, recreated, alone, used >>

-----------------------------------------------------------------------------
(* Input of a user who presses a few things.  The host waits for nothing but messages, the window  *)
(* for nothing but Formats, so that what the host does with a message can be put before what the   *)
(* user and the window do next, and its other steps before a frame or behind it.                   *)

Hands == {{"ctrl", "letter"}, {"ctrl", "button"}, {"arrow"}}

InOrder ==
    \/ messages # << >> /\ Input!Host
    \/ messages = << >> /\ step # "idle" /\ Input!WindowSteps
    \/ messages = << >> /\ step = "idle" /\ Input!Next

UserMoves ==
    /\ InputMoves /\ InOrder
    /\ pressed' \subseteq used
    /\ UNCHANGED << conditions, recreated, alone, used >>

-----------------------------------------------------------------------------
\* One user copies, Windows gives access, nobody uses the switches
OnlyViewerCopies == owner["host"] \in {"before", "peer"} /\ toggles = 0 /\ busy = 0

MCInit ==
    /\ Init
    /\ conditions \in IF part = "rates" THEN Steady \cup Links \cup {None} ELSE {None}
    /\ recreated = << FALSE, FALSE, FALSE, FALSE >>
    /\ alone \in BOOLEAN /\ (part # "clipboards" => ~alone)
    /\ IF part # "rates" THEN ceiling = 50000000
       ELSE ceiling \in IF conditions = None THEN {200000, 1700000} ELSE {200000, 2000000, 16000000, 50000000}
    /\ part # "clipboards" => \A s \in DOMAIN clip : clip[s] = t1
    /\ used \in IF part = "input" THEN Hands ELSE {{}}

MCNext ==
    \/ VideoMoves /\ UNCHANGED << conditions, recreated, alone, used >>
    \/ SteadyMoves
    \/ ChangingMoves
    \/ ClipboardsMove /\ (alone => OnlyViewerCopies') /\ UNCHANGED << conditions, recreated, alone, used >>
    \/ UserMoves

\* time goes on, also under conditions that do not change
MCSpec == MCInit /\ [][MCNext]_mcVars /\ Fairness /\ WF_<< rateVars, recreated >>(SteadyMoves)

-----------------------------------------------------------------------------
(* Properties *)

\* Under conditions that do not change the encoder is not recreated for ever, and on a link of a
\* given bandwidth the rate sooner or later recreates it at most twice in four windows, up once and
\* down once ("previously recreated the MFT almost every second" in observe).
RatesSettle ==
    /\ conditions \in Steady => <>[][target' = target]_rateVars
    /\ conditions \in Links => <>[](Cardinality({ k \in 1 .. 4 : recreated[k] }) <= 2)

\* What is under way arrives: a frame leaves the flight window, the last text a user copied reaches
\* the other side, and the rate settles (the loops of worker.rs, observe).
MediaSettles ==
    /\ Video!WindowDrains /\ RatesSettle
    /\ alone => Clipboards!ViewerCopiesArrive
=============================================================================
