--------------------------- MODULE MCDisplayPower ---------------------------
(***************************************************************************)
(* DisplayPower with every mode and way to count but no TV, and with a TV, *)
(* calls for which go on beside the loop.                                  *)
(***************************************************************************)
EXTENDS DisplayPower

\* DisplayPower's, for the mirror that has no TV; its own are those of the mirror with one.
CONSTANTS LoopModes, LoopExtends, LoopAsks, LoopKinds, LoopHappens, LoopFaults

CONSTANT Parts  \* the components a configuration checks, of "tv", "loop"

VARIABLE part  \* which of them the behaviour is one of

Loop == INSTANCE DisplayPower WITH
  Modes <- LoopModes, Extends <- LoopExtends, Asks <- LoopAsks, Cec <- FALSE, HasTv <- FALSE, Drops <- {FALSE},
  Wakers <- {}, Kinds <- LoopKinds, MaxHappens <- LoopHappens, MaxFaults <- LoopFaults

PowerInit ==
  /\ part \in Parts
  /\ IF part = "loop" THEN Loop!Init ELSE Init
PowerNext ==
  \/ part = "tv" /\ Next /\ UNCHANGED <<part>>
  \/ part = "loop" /\ Loop!Next /\ UNCHANGED <<part>>
power_vars == <<part, vars>>

ASSUME LoopAssumption ==
  /\ LoopModes \subseteq {"manual", "interval", "wake"} /\ LoopModes # {} /\ LoopExtends \subseteq BOOLEAN /\ LoopExtends # {}
  /\ LoopAsks \subseteq Nat /\ LoopHappens \in Nat /\ LoopFaults \in Nat
  /\ LoopKinds \subseteq {"call", "move", "turn", "save", "restart", "remote"}

PowerSpec == PowerInit /\ [][PowerNext]_power_vars
PowerFairSpec == /\ PowerSpec
                 /\ WF_vars(part = "loop" /\ Loop!LoopSteps) /\ WF_vars(part = "loop" /\ Loop!Tick)
                 /\ WF_vars(part = "tv" /\ LoopSteps) /\ WF_vars(part = "tv" /\ TvSteps) /\ WF_vars(part = "tv" /\ Tick)

\* BelievedIsSo and OffStands of DisplayPower hold with and without a TV. With one, and all at rest: it is on
\* when the screen is, unless someone else handled it or the last switch left them otherwise, and who watches another input
\* is left alone (set_tv_power).
TvIsAsMeant == part = "tv" => TypeOK /\ TvFollowsScreen /\ OtherInputLeftAlone
\* A wake lights the screen up though a switch fails; it isn't dark over someone it has seen; it goes dark for good when
\* nothing keeps it on; and a TV that shows the mirror is asked to turn off before the signal goes (_run_loop, set_state).
LitWhenMeant == WakeLights /\ PresenceHolds /\ GoesDark /\ TvOffFirst
=============================================================================
