---------------------------- MODULE MCConfiguration ----------------------------
(* What a unit is configured to, for TLC: the addresses of the units and   *)
(* their heating limits.  The two share no state and no step, so one run   *)
(* explores each by itself while the other rests: what it finds of either  *)
(* holds of both together.                                                 *)
(*                                                                         *)
(* The readings are on and beside the thresholds the code compares with,   *)
(* of the two extreme bands, two of the cold and one of the warm ones, and *)
(* of the release.                                                         *)
EXTENDS AddressConfig

CONSTANTS Profiles, OutsideTemp, WaterTemp, Levels, INVALID

VARIABLES profile, outside_band, high_levels_released, result, asked, left_band

limits == <<profile, outside_band, high_levels_released, result, asked, left_band>>

Limits == INSTANCE HeatingLimits

ASSUME LimitsAssumed == Limits!LimitsAssumption

VARIABLE explored  \* "limits" or "addresses"

MCInit == explored \in {"limits", "addresses"} /\ Init /\ Limits!Init

MCNext ==
  \/ explored = "limits" /\ Limits!Next /\ UNCHANGED <<explored, vars>>
  \/ explored = "addresses" /\ Next /\ UNCHANGED <<explored, limits>>

MCSpec == MCInit /\ [][MCNext]_<<explored, vars, limits>>

\* A ceiling is that of a temperature nearby: see HeatingLimits.
CeilingIsNearby == Limits!CeilingIsNearby

\* Every reason of a lower level is reported: see HeatingLimits.
EveryReasonReported == Limits!EveryReasonReported

\* A small swing does not move the ceiling to and fro: see HeatingLimits.
NoChatter == Limits!NoChatter

HalfDegrees(c) == 2 * c

Beside(c) == {HalfDegrees(c) + d : d \in {-3, -2, 0, 1, 2, 3}}

MCOutsideTemp ==
  UNION {Beside(c) : c \in {-4, 1, 12, 46}}
    \cup {HalfDegrees(c) : c \in {-25, -20, -13}}
    \cup {HalfDegrees(-20) + 1, HalfDegrees(-13) - 1}

MCWaterTemp == {HalfDegrees(34), HalfDegrees(35), HalfDegrees(35) + 1}

==============================================================================
