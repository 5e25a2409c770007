---------------------------- MODULE HeatingLimits ----------------------------
(***************************************************************************)
(* The bounded heating profile of an outdoor unit: the ceiling that the    *)
(* outside temperature puts on the physical level, with its hysteresis,    *)
(* the release of the highest levels and the quiet cap.                    *)
(*                                                                         *)
(* Temperatures are in half degrees, so that the strict and the other      *)
(* comparisons of the code differ.  A reading that is not finite is        *)
(* INVALID.  Bands are counted from 0, the coldest, to 9, the warmest.     *)
(***************************************************************************)
EXTENDS Integers, FiniteSets

CONSTANTS
  Profiles,     \* profiles that are ever configured
  OutsideTemp,  \* readings, in half degrees
  WaterTemp,
  Levels,       \* levels that are ever requested
  INVALID       \* a reading that is not finite

NO_BAND == 255
Band == 0 .. 9
Reason == {"outside", "high_level_release", "quiet", "invalid_temperature"}

LimitsAssumption ==
  /\ Profiles \subseteq {"V1", "V1_5", "V2_OLD", "V2_NEW"}
  /\ OutsideTemp \subseteq Int /\ WaterTemp \subseteq Int
  /\ Levels \subseteq 0 .. 20
  /\ INVALID \notin Int

Degrees(c) == 2 * c

\* OUTSIDE_BOUNDARIES[band]: the warm end of a band.
Boundary ==
  [band \in 0 .. 8 |->
     Degrees(<<-25, -4, 1, 6, 12, 20, 24, 28, 46>>[band + 1])]

HeatingOutsideLevels(profile) ==
  CASE profile = "V2_NEW" -> <<14, 12, 10, 8, 6, 0>>
    [] profile = "V2_OLD" -> <<7, 6, 5, 4, 3, 0>>
    [] profile \in {"V1", "V1_5"} -> <<10, 8, 5, 3, 2, 0>>

VARIABLES
  profile,
  outside_band,
  high_levels_released,
  result,   \* the last HeatingLimitResult
  asked,    \* history: the level, outside temperature and quiet switch it answers
  left_band \* history: the band left last since a reset, and where

vars == <<profile, outside_band, high_levels_released, result, asked, left_band>>

extended == profile = "V2_NEW"

ColdestBand == IF extended THEN 0 ELSE 4

FreshBand(outside) ==
  ColdestBand
    + Cardinality({b \in ColdestBand .. 8 : \A c \in ColdestBand .. b : outside > Boundary[c]})

Held_NoMargin(band, outside) ==
  band \in Band /\ band = FreshBand(outside)

Held_ColdShutdownAsCold(band, outside) ==
  \/ band \in {0, 1} /\ extended /\ outside <= Degrees(-3)
  \/ band = 4 /\ ~extended /\ outside <= Degrees(13)
  \/ /\ band \in 2 .. 8
     /\ outside >= Boundary[band - 1] - Degrees(1)
     /\ outside <= Boundary[band] + Degrees(1)
  \/ band = 9 /\ outside >= Degrees(45)

\* A band is kept within its window.
Held(band, outside) ==
  \/ band = 0 /\ extended /\ outside <= Degrees(-20)
  \/ band = 1 /\ extended /\ outside > Degrees(-25) /\ outside <= Degrees(-3)
  \/ band = 4 /\ ~extended /\ outside <= Degrees(13)
  \/ /\ band \in 2 .. 8
     /\ outside >= Boundary[band - 1] - Degrees(1)
     /\ outside <= Boundary[band] + Degrees(1)
  \/ band = 9 /\ outside >= Degrees(45)

update_outside_band(outside) ==
  IF Held(outside_band, outside) THEN outside_band ELSE FreshBand(outside)

outside_level_limit(band) ==
  CASE band \in 4 .. 9 -> HeatingOutsideLevels(profile)[band - 3]
    [] band \in 0 .. 3 -> <<0, 20, 18, 16>>[band + 1]
    [] OTHER -> 0

\* The release of F19 and F20: gained in the inner window, kept in the outer.
Released(outside, water) ==
  /\ extended
  /\ outside >= Degrees(-13) /\ outside <= Degrees(0) /\ water <= Degrees(35)
  /\ \/ high_levels_released
     \/ /\ outside >= Degrees(-12) /\ outside <= Degrees(-1)
        /\ water <= Degrees(34)

\* The caps that are in force, each with its reason.
Caps(band, released, quiet) ==
  {[level |-> outside_level_limit(band), reason |-> "outside"]}
    \cup {[level |-> 18, reason |-> "high_level_release"] : x \in {y \in {1} : extended /\ ~released}}
    \cup {[level |-> 14, reason |-> "quiet"] : x \in {y \in {1} : extended /\ quiet}}

Least(S) == CHOOSE x \in S : \A y \in S : x <= y

Limited_OnlyDecisive(requested, caps) ==
  LET level == Least({requested} \cup {c.level : c \in caps})
  IN  [physical_level |-> level,
       reasons |-> {c.reason : c \in {d \in caps : requested > d.level /\ d.level = level}}]

Limited(requested, caps) ==
  [physical_level |-> Least({requested} \cup {c.level : c \in caps}),
   reasons |-> {c.reason : c \in {d \in caps : requested > d.level}}]

------------------------------------------------------------------------------

NoResult == [physical_level |-> 0, reasons |-> {}]
Nothing == [level |-> 0, outside |-> INVALID, quiet |-> FALSE]
NeverLeft == [band |-> NO_BAND, at |-> 0]

Init ==
  /\ profile \in Profiles
  /\ outside_band = NO_BAND /\ high_levels_released = FALSE
  /\ result = NoResult /\ asked = Nothing /\ left_band = NeverLeft

Forget ==
  /\ outside_band' = NO_BAND
  /\ high_levels_released' = FALSE
  /\ left_band' = NeverLeft

\* configure(): activating a profile.
Configure(p) ==
  /\ profile' = p
  /\ Forget
  /\ result' = NoResult /\ asked' = Nothing

\* reset(): an update of the model in which the limits are not active.
Reset ==
  /\ Forget
  /\ result' = NoResult /\ asked' = Nothing
  /\ UNCHANGED profile

ApplyInvalid(level, outside, water, quiet) ==
  /\ outside = INVALID \/ (extended /\ water = INVALID)
  /\ Forget
  /\ result' = [physical_level |-> 0, reasons |-> {"invalid_temperature"}]
  /\ asked' = [level |-> level, outside |-> outside, quiet |-> quiet]
  /\ UNCHANGED profile

ApplyValid(level, outside, water, quiet) ==
  /\ outside # INVALID /\ (extended => water # INVALID)
  /\ high_levels_released' = (extended /\ Released(outside, water))
  /\ outside_band' = update_outside_band(outside)
  /\ result' = Limited(level, Caps(outside_band', high_levels_released', quiet))
  /\ asked' = [level |-> level, outside |-> outside, quiet |-> quiet]
  /\ left_band' = IF outside_band \in {NO_BAND, outside_band'} THEN left_band
                  ELSE [band |-> outside_band, at |-> outside]
  /\ UNCHANGED profile

apply(level, outside, water, quiet) ==
  \/ ApplyInvalid(level, outside, water, quiet)
  \/ ApplyValid(level, outside, water, quiet)

Next ==
  \/ \E p \in Profiles : Configure(p)
  \/ Reset
  \/ \E level \in Levels, outside \in OutsideTemp \cup {INVALID},
        water \in WaterTemp \cup {INVALID}, quiet \in BOOLEAN :
       apply(level, outside, water, quiet)

Spec == Init /\ [][Next]_vars

------------------------------------------------------------------------------
(* Properties.                                                             *)

\* The ceiling is that of a fresh scenario at a temperature within 1 degree,
\* except that the cold shutdown is kept until the temperature is 5 degrees
\* above the one that caused it.  (Bands exclude their cold end, so the
\* smallest step of the readings is added.)
Margin(band) == IF band = 0 THEN Degrees(5) ELSE Degrees(1) + 1

CeilingIsNearby ==
  outside_band # NO_BAND =>
    \E d \in -Margin(outside_band) .. Margin(outside_band) :
      outside_band = FreshBand(asked.outside + d)

\* A temperature that swings by less than the hysteresis does not move the
\* ceiling to and fro: whoever returns to the band it left has come at least
\* two degrees back.
NoChatter ==
  [][/\ NO_BAND \notin {outside_band, outside_band'} /\ outside_band' # outside_band
     /\ outside_band' = left_band.band
     => LET moved == asked'.outside - left_band.at
        IN  moved >= Degrees(2) \/ moved <= -Degrees(2)]_vars

\* Each of the three caps is reported exactly when it is below what was asked for,
\* whichever of them decides the level, and a level is lowered exactly for a
\* reported reason.
EveryReasonReported ==
  outside_band # NO_BAND =>
    /\ result.physical_level < asked.level <=> result.reasons # {}
    /\ "outside" \in result.reasons <=> asked.level > outside_level_limit(outside_band)
    /\ "quiet" \in result.reasons <=> extended /\ asked.quiet /\ asked.level > 14
    /\ "high_level_release" \in result.reasons <=>
         extended /\ ~high_levels_released /\ asked.level > 18

==============================================================================
