-------------------------- MODULE Configuration_proofs --------------------------
(***************************************************************************)
(* What a unit is configured to.  The addresses by which the hub finds the *)
(* units, for every set of addresses a user may choose from and whatever a *)
(* power cut left in flash.  The heating limits, for every set of readings *)
(* and requested levels and each of the profiles: TLC tries readings beside*)
(* the thresholds, here they are all half degrees.                         *)
(***************************************************************************)
EXTENDS MCConfiguration, FiniteSetTheorems, TLAPS

Known == Addresses \cup {1, 2}

\* The units' addresses: two different ones.  It is inductive by itself, since
\* only Restart and PowerCut set them, through set_address.
Distinct ==
  /\ addresses_ \in [Odu -> Known]
  /\ addresses_[0] # addresses_[1]

\* What the globals and their copies in flash hold
Persisted ==
  {active_address, flash, pending} \subseteq [Odu -> Known]

AInv == Distinct /\ Persisted

\* Handing one unit an address never makes it that of the other unit.
LEMMA SetAddressKeepsDistinct ==
  ASSUME NEW a \in [Odu -> Known], NEW index \in Odu, NEW address \in Known,
         a[0] # a[1]
  PROVE  /\ set_address(a, index, address) \in [Odu -> Known]
         /\ set_address(a, index, address)[0] # set_address(a, index, address)[1]
BY DEF set_address, Other, Odu

\* The boot lambda ends with two different addresses, whatever was persisted.
LEMMA BootedIsDistinct ==
  ASSUME NEW p \in [Odu -> Known]
  PROVE  Booted(p) \in [Odu -> Known] /\ Booted(p)[0] # Booted(p)[1]
<1> DEFINE first == set_address(Factory, 0, p[0])
<1>1. Factory \in [Odu -> Known] /\ Factory[0] # Factory[1]
  BY DEF Factory, Odu, Known
<1>2. 0 \in Odu /\ 1 \in Odu /\ p[0] \in Known /\ p[1] \in Known
  BY DEF Odu
<1>3. first \in [Odu -> Known] /\ first[0] # first[1]
  BY <1>1, <1>2, SetAddressKeepsDistinct
<1> QED
  BY <1>2, <1>3, SetAddressKeepsDistinct DEF Booted

\* AInv holds in every reachable state: no interleaving of edits, flash writes,
\* restarts and power cuts gives the two units one address.
THEOREM AddressesDistinct == Spec => []AInv
<1>1. Init => AInv
  <2> SUFFICES ASSUME Init PROVE AInv
    OBVIOUS
  <2>1. Factory \in [Odu -> Known]
    BY DEF Factory, Odu, Known
  <2> QED
    BY <2>1, BootedIsDistinct DEF Init, AInv, Distinct, Persisted
<1>2. AInv /\ [Next]_vars => AInv'
  <2> SUFFICES ASSUME AInv, [Next]_vars PROVE AInv'
    OBVIOUS
  <2> USE DEF AInv, Distinct, Persisted
  <2>1. ASSUME NEW index \in Odu, NEW address \in Addresses,
               SetPending(index, address)
        PROVE  AInv'
    <3>1. address \in Known
      BY DEF Known
    <3> QED
      BY <2>1, <3>1 DEF SetPending
  <2>2. CASE Apply
    BY <2>2 DEF Apply
  <2>3. ASSUME NEW index \in Odu, WriteFlash(index)
        PROVE  AInv'
    BY <2>3 DEF WriteFlash
  <2>4. CASE Restart
    BY <2>4, BootedIsDistinct DEF Restart
  <2>5. CASE PowerCut
    BY <2>5, BootedIsDistinct DEF PowerCut
  <2>6. CASE UNCHANGED vars
    BY <2>6 DEF vars
  <2> QED
    BY <2>1, <2>2, <2>3, <2>4, <2>5, <2>6 DEF Next
<1> QED
  BY <1>1, <1>2, PTL DEF Spec

\* A request that carries a unit's address reaches that unit and no other.
THEOREM UnitsReachable == Spec => []EachUnitReachable
<1>1. AInv => EachUnitReachable
  BY DEF AInv, Distinct, EachUnitReachable, find_odu_by_address, Odu
<1> QED
  BY <1>1, AddressesDistinct, PTL
------------------------------------------------------------------------------
(* The bands of the outside temperature.                                   *)

LEMMA Boundaries ==
  /\ Limits!Boundary[0] = -50 /\ Limits!Boundary[1] = -8 /\ Limits!Boundary[2] = 2
  /\ Limits!Boundary[3] = 12 /\ Limits!Boundary[4] = 24 /\ Limits!Boundary[5] = 40
  /\ Limits!Boundary[6] = 48 /\ Limits!Boundary[7] = 56
  /\ Limits!Boundary[8] = 92
<1> DEFINE ends == <<-25, -4, 1, 6, 12, 20, 24, 28, 46>>
<1>1. \A band \in 0 .. 8 : Limits!Boundary[band] = 2 * ends[band + 1]
  BY DEF Limits!Boundary, Limits!Degrees
<1>2. /\ ends[1] = -25 /\ ends[2] = -4 /\ ends[3] = 1 /\ ends[4] = 6 /\ ends[5] = 12
      /\ ends[6] = 20 /\ ends[7] = 24 /\ ends[8] = 28 /\ ends[9] = 46
  OBVIOUS
<1> HIDE DEF ends
<1>3. /\ Limits!Boundary[0] = 2 * ends[1] /\ Limits!Boundary[1] = 2 * ends[2]
      /\ Limits!Boundary[2] = 2 * ends[3] /\ Limits!Boundary[3] = 2 * ends[4]
      /\ Limits!Boundary[4] = 2 * ends[5] /\ Limits!Boundary[5] = 2 * ends[6]
      /\ Limits!Boundary[6] = 2 * ends[7] /\ Limits!Boundary[7] = 2 * ends[8]
      /\ Limits!Boundary[8] = 2 * ends[9]
  <2>1. /\ 0 \in 0 .. 8 /\ 1 \in 0 .. 8 /\ 2 \in 0 .. 8 /\ 3 \in 0 .. 8 /\ 4 \in 0 .. 8
        /\ 5 \in 0 .. 8 /\ 6 \in 0 .. 8 /\ 7 \in 0 .. 8 /\ 8 \in 0 .. 8
    OBVIOUS
  <2> QED
    BY <1>1, <2>1
<1> QED
  BY <1>2, <1>3

\* A warmer band ends at least 4 degrees above the one before.
LEMMA BoundariesRise ==
  /\ \A i \in 0 .. 8 : Limits!Boundary[i] \in Int
  /\ \A i \in 1 .. 8 : Limits!Boundary[i] >= Limits!Boundary[i - 1] + 8
  /\ \A i, j \in 0 .. 8 : i <= j => Limits!Boundary[i] <= Limits!Boundary[j]
<1>1. \A i \in 0 .. 8 : i \in {0, 1, 2, 3, 4, 5, 6, 7, 8}
  OBVIOUS
<1>2. \A i \in 0 .. 8 : Limits!Boundary[i] \in Int
  BY <1>1, Boundaries
<1>3. \A i \in 1 .. 8 : Limits!Boundary[i] >= Limits!Boundary[i - 1] + 8
  BY Boundaries
<1>4. \A i, j \in 0 .. 8 : i <= j => Limits!Boundary[i] <= Limits!Boundary[j]
  BY <1>1, Boundaries
<1> QED
  BY <1>2, <1>3, <1>4

LEMMA Coldest ==
  Limits!ColdestBand \in {0, 4} /\ (Limits!ColdestBand = 0 <=> Limits!extended)
BY DEF Limits!ColdestBand

Within(outside, n) ==
  /\ n \in Limits!ColdestBand .. 9
  /\ n = 9 \/ outside <= Limits!Boundary[n]
  /\ n = Limits!ColdestBand \/ outside > Limits!Boundary[n - 1]

\* A fresh scenario starts in the band whose ends enclose the temperature.
LEMMA FreshIs ==
  ASSUME NEW outside \in Int, NEW n, Within(outside, n)
  PROVE  Limits!FreshBand(outside) = n
<1>1. Limits!ColdestBand \in {0, 4} /\ n \in Limits!ColdestBand .. 9 /\ n \in Int
  BY Coldest DEF Within
<1> DEFINE passed ==
             {b \in Limits!ColdestBand .. 8 :
                \A c \in Limits!ColdestBand .. b : outside > Limits!Boundary[c]}
<1>2. passed = Limits!ColdestBand .. n - 1
  <2>1. ASSUME NEW b \in Limits!ColdestBand .. 8,
               \A c \in Limits!ColdestBand .. b : outside > Limits!Boundary[c]
        PROVE  b \in Limits!ColdestBand .. n - 1
    <3>1. CASE n = 9
      BY <1>1, <3>1
    <3>2. CASE n # 9
      <4>1. outside <= Limits!Boundary[n] /\ n \in 0 .. 8 /\ Limits!Boundary[n] \in Int
        <5>1. n \in 0 .. 8
          BY <1>1, <3>2
        <5> QED
          BY <3>2, <5>1, BoundariesRise DEF Within
      <4>2. ~(n \in Limits!ColdestBand .. b)
        BY <2>1, <4>1
      <4>3. /\ Limits!ColdestBand \in Int /\ b \in Int
            /\ Limits!ColdestBand <= n /\ Limits!ColdestBand <= b
        <5>1. Limits!ColdestBand \in Int
          BY <1>1
        <5>2. b \in Limits!ColdestBand .. 8
          BY <2>1
        <5> QED
          BY <1>1, <5>1, <5>2
      <4>4. b <= n - 1
        BY <1>1, <4>2, <4>3
      <4> QED
        BY <1>1, <4>3, <4>4
    <3> QED
      BY <3>1, <3>2
  <2>2. ASSUME NEW b \in Limits!ColdestBand .. n - 1, NEW c \in Limits!ColdestBand .. b
        PROVE  outside > Limits!Boundary[c]
    <3>1. n # Limits!ColdestBand /\ c \in 0 .. 8 /\ n - 1 \in 0 .. 8 /\ c <= n - 1
      BY <1>1
    <3>2. outside > Limits!Boundary[n - 1]
      BY <3>1 DEF Within
    <3>3. /\ Limits!Boundary[c] \in Int /\ Limits!Boundary[n - 1] \in Int
          /\ Limits!Boundary[c] <= Limits!Boundary[n - 1]
      BY <3>1, BoundariesRise
    <3> QED
      BY <3>2, <3>3
  <2>3. Limits!ColdestBand .. n - 1 \subseteq Limits!ColdestBand .. 8
    BY <1>1
  <2> QED
    BY <2>1, <2>2, <2>3
<1>3. Cardinality(Limits!ColdestBand .. n - 1) = n - Limits!ColdestBand
  <2>1. Limits!ColdestBand \in Int /\ n - 1 \in Int
    BY <1>1
  <2>2. Cardinality(Limits!ColdestBand .. n - 1)
          = IF Limits!ColdestBand > n - 1 THEN 0 ELSE (n - 1) - Limits!ColdestBand + 1
    BY <2>1, FS_Interval
  <2> QED
    BY <1>1, <2>2
<1>4. Limits!FreshBand(outside) = Limits!ColdestBand + Cardinality(passed)
  BY DEF Limits!FreshBand, Limits!Cardinality, Cardinality
<1> HIDE DEF passed
<1> QED
  BY <1>1, <1>2, <1>3, <1>4

LEMMA FreshWithin ==
  ASSUME NEW outside \in Int
  PROVE  Within(outside, Limits!FreshBand(outside))
<1>1. \E n : Within(outside, n)
  <2>1. CASE Limits!ColdestBand = 0
    <3> DEFINE n == IF outside <= -50 THEN 0 ELSE IF outside <= -8 THEN 1
                    ELSE IF outside <= 2 THEN 2 ELSE IF outside <= 12 THEN 3
                    ELSE IF outside <= 24 THEN 4 ELSE IF outside <= 40 THEN 5
                    ELSE IF outside <= 48 THEN 6 ELSE IF outside <= 56 THEN 7
                    ELSE IF outside <= 92 THEN 8 ELSE 9
    <3>1. Within(outside, n)
      BY <2>1, Boundaries DEF Within
    <3> QED
      BY <3>1
  <2>2. CASE Limits!ColdestBand = 4
    <3> DEFINE n == IF outside <= 24 THEN 4 ELSE IF outside <= 40 THEN 5
                    ELSE IF outside <= 48 THEN 6 ELSE IF outside <= 56 THEN 7
                    ELSE IF outside <= 92 THEN 8 ELSE 9
    <3>1. Within(outside, n)
      BY <2>2, Boundaries DEF Within
    <3> QED
      BY <3>1
  <2> QED
    BY <2>1, <2>2, Coldest
<1>2. PICK n : Within(outside, n)
  BY <1>1
<1>3. Limits!FreshBand(outside) = n
  BY <1>2, FreshIs
<1> QED
  BY <1>2, <1>3

------------------------------------------------------------------------------

\* A band is that of a fresh scenario, or kept.
Kept(band, outside) == Limits!Held(band, outside) \/ band = Limits!FreshBand(outside)

LEMMA KeptIsNear ==
  ASSUME NEW band \in Limits!ColdestBand .. 9, NEW outside \in Int, Kept(band, outside)
  PROVE  \E d \in -Limits!Margin(band) .. Limits!Margin(band) :
           band = Limits!FreshBand(outside + d)
<1>1. Limits!ColdestBand \in {0, 4} /\ (Limits!ColdestBand = 0 <=> Limits!extended)
  BY Coldest
<1>2. \E d \in -Limits!Margin(band) .. Limits!Margin(band) : Within(outside + d, band)
  <2>1. Limits!Margin(band) \in Nat
    BY DEF Limits!Margin, Limits!Degrees
  <2>2. CASE band = Limits!FreshBand(outside)
    <3>1. Within(outside + 0, band) /\ 0 \in -Limits!Margin(band) .. Limits!Margin(band)
      BY <2>1, <2>2, FreshWithin
    <3> QED
      BY <3>1
  <2>3. CASE Limits!Held(band, outside) /\ band = 0
    <3>1. outside <= -40 /\ Limits!Margin(band) = 10 /\ Limits!ColdestBand = 0
      BY <1>1, <2>3 DEF Limits!Held, Limits!Margin, Limits!Degrees
    <3>2. /\ Within(outside + -10, band)
          /\ -10 \in -Limits!Margin(band) .. Limits!Margin(band)
      BY <2>3, <3>1, Boundaries DEF Within
    <3> QED
      BY <3>2
  <2>4. CASE Limits!Held(band, outside) /\ band = 1
    <3>1. /\ outside > -50 /\ outside <= -6 /\ Limits!Margin(band) = 3
          /\ Limits!ColdestBand = 0
      BY <1>1, <2>4 DEF Limits!Held, Limits!Margin, Limits!Degrees
    <3> DEFINE d == IF outside <= -8 THEN 0 ELSE -2
    <3>2. Within(outside + d, band) /\ d \in -Limits!Margin(band) .. Limits!Margin(band)
      BY <2>4, <3>1, Boundaries DEF Within
    <3> QED
      BY <3>2
  <2>5. CASE Limits!Held(band, outside) /\ band = 4 /\ ~Limits!extended
    <3>1. outside <= 26 /\ Limits!Margin(band) = 3 /\ Limits!ColdestBand = 4
      BY <1>1, <2>5, Boundaries DEF Limits!Held, Limits!Margin, Limits!Degrees
    <3> DEFINE d == IF outside <= 24 THEN 0 ELSE -2
    <3>2. Within(outside + d, band) /\ d \in -Limits!Margin(band) .. Limits!Margin(band)
      BY <2>5, <3>1, Boundaries DEF Within
    <3> QED
      BY <3>2
  <2>6. CASE Limits!Held(band, outside) /\ band \in 2 .. 8 /\ ~(band = 4 /\ ~Limits!extended)
    <3>1. /\ outside >= Limits!Boundary[band - 1] - 2
          /\ outside <= Limits!Boundary[band] + 2
          /\ Limits!Margin(band) = 3 /\ band # 9
      BY <2>6 DEF Limits!Held, Limits!Margin, Limits!Degrees
    <3>2. /\ Limits!Boundary[band - 1] \in Int /\ Limits!Boundary[band] \in Int
          /\ Limits!Boundary[band] >= Limits!Boundary[band - 1] + 8
      BY <2>6, BoundariesRise
    <3> DEFINE d == IF outside <= Limits!Boundary[band - 1] THEN 3
                    ELSE IF outside > Limits!Boundary[band] THEN -3 ELSE 0
    <3>3. /\ d \in -3 .. 3 /\ outside + d > Limits!Boundary[band - 1]
          /\ outside + d <= Limits!Boundary[band]
      BY <3>1, <3>2
    <3> HIDE DEF d
    <3> QED
      BY <3>1, <3>3 DEF Within
  <2>7. CASE Limits!Held(band, outside) /\ band = 9
    <3>1. outside >= 90 /\ Limits!Margin(band) = 3
      BY <2>7 DEF Limits!Held, Limits!Margin, Limits!Degrees
    <3>2. Within(outside + 3, band) /\ 3 \in -Limits!Margin(band) .. Limits!Margin(band)
      BY <1>1, <2>7, <3>1, Boundaries DEF Within
    <3> QED
      BY <3>2
  <2> QED
    BY <1>1, <2>2, <2>3, <2>4, <2>5, <2>6, <2>7 DEF Kept
<1>3. PICK d \in -Limits!Margin(band) .. Limits!Margin(band) : Within(outside + d, band)
  BY <1>2
<1>4. outside + d \in Int
  BY DEF Limits!Margin, Limits!Degrees
<1> QED
  BY <1>3, <1>4, FreshIs

\* Of two bands, the temperatures that leave the one for the other and come
\* back are two degrees apart.
LEMMA BandsApart ==
  ASSUME NEW low \in Limits!ColdestBand .. 9, NEW high \in Limits!ColdestBand .. 9,
         low < high,
         NEW cold \in Int, NEW warm \in Int,
         low = Limits!FreshBand(cold), high = Limits!FreshBand(warm),
         ~Limits!Held(high, cold), ~Limits!Held(low, warm)
  PROVE  warm - cold >= 4
<1>1. Within(cold, low) /\ Within(warm, high)
  BY FreshWithin
<1>2. Limits!ColdestBand \in {0, 4} /\ (Limits!ColdestBand = 0 <=> Limits!extended)
  BY Coldest
<1>3. /\ high # Limits!ColdestBand /\ high - 1 \in 0 .. 8 /\ low \in 0 .. 8
      /\ low <= high - 1
  BY <1>2
<1>4. /\ Limits!Boundary[high - 1] \in Int /\ Limits!Boundary[low] \in Int
      /\ Limits!Boundary[low] <= Limits!Boundary[high - 1]
  BY <1>3, BoundariesRise
<1>5. cold <= Limits!Boundary[low] /\ warm > Limits!Boundary[high - 1]
  BY <1>1, <1>2, <1>3 DEF Within
<1>6. CASE high = 1
  <2>1. low = 0 /\ Limits!extended
    BY <1>2, <1>6
  <2>2. cold <= -50 /\ warm > -40
    BY <1>5, <2>1, Boundaries DEF Limits!Held, Limits!Degrees
  <2> QED
    BY <2>2
<1>7. CASE high \in 2 .. 8
  <2>1. /\ Limits!Boundary[high] \in Int
        /\ Limits!Boundary[high] >= Limits!Boundary[high - 1] + 8
    BY <1>7, BoundariesRise
  <2>2. ~(cold >= Limits!Boundary[high - 1] - 2 /\ cold <= Limits!Boundary[high] + 2)
    BY <1>7 DEF Limits!Held, Limits!Degrees
  <2> QED
    BY <1>4, <1>5, <2>1, <2>2
<1>8. CASE high = 9
  <2>1. cold < 90
    BY <1>8 DEF Limits!Held, Limits!Degrees
  <2>2. warm > 92
    BY <1>5, <1>8, Boundaries
  <2> QED
    BY <2>1, <2>2
<1> QED
  BY <1>2, <1>3, <1>6, <1>7, <1>8
------------------------------------------------------------------------------
(* The level.                                                              *)

HasLeast(S) == \E m \in S : \A x \in S : m <= x

LEMMA LeastIs ==
  ASSUME NEW S, HasLeast(S)
  PROVE  Limits!Least(S) \in S /\ \A x \in S : Limits!Least(S) <= x
BY DEF HasLeast, Limits!Least

LEMMA OneMore ==
  ASSUME NEW S \in SUBSET Int, HasLeast(S), NEW e \in Int
  PROVE  HasLeast(S \cup {e}) /\ S \cup {e} \in SUBSET Int
<1>1. PICK m \in S : \A x \in S : m <= x
  BY DEF HasLeast
<1>2. m \in Int /\ \A x \in S : x \in Int
  OBVIOUS
<1>3. CASE m <= e
  BY <1>1, <1>2, <1>3 DEF HasLeast
<1>4. CASE ~(m <= e)
  <2>1. \A x \in S \cup {e} : e <= x
    BY <1>1, <1>2, <1>4
  <2> QED
    BY <2>1 DEF HasLeast
<1> QED
  BY <1>3, <1>4

LEMMA LimitIsLevel ==
  ASSUME NEW band \in Limits!ColdestBand .. 9,
         profile \in {"V1", "V1_5", "V2_OLD", "V2_NEW"}
  PROVE  Limits!outside_level_limit(band) \in Int
<1>1. band \in 0 .. 9
  BY Coldest
<1>2. CASE band \in 4 .. 9
  <2>1. Limits!outside_level_limit(band) = Limits!HeatingOutsideLevels(profile)[band - 3]
    BY <1>2 DEF Limits!outside_level_limit
  <2>2. band - 3 \in 1 .. 6
    BY <1>2
  <2>3. \A i \in 1 .. 6 : Limits!HeatingOutsideLevels(profile)[i] \in Int
    <3>1. /\ <<14, 12, 10, 8, 6, 0>> \in [1 .. 6 -> Int]
          /\ <<7, 6, 5, 4, 3, 0>> \in [1 .. 6 -> Int]
          /\ <<10, 8, 5, 3, 2, 0>> \in [1 .. 6 -> Int]
      OBVIOUS
    <3>2. Limits!HeatingOutsideLevels(profile) \in
            {<<14, 12, 10, 8, 6, 0>>, <<7, 6, 5, 4, 3, 0>>, <<10, 8, 5, 3, 2, 0>>}
      BY DEF Limits!HeatingOutsideLevels
    <3> QED
      BY <3>1, <3>2
  <2> QED
    BY <2>1, <2>2, <2>3
<1>3. CASE band \in 0 .. 3
  <2>1. Limits!outside_level_limit(band) = <<0, 20, 18, 16>>[band + 1]
    BY <1>3 DEF Limits!outside_level_limit
  <2>2. band + 1 \in {1, 2, 3, 4}
    BY <1>3
  <2> QED
    BY <2>1, <2>2
<1> QED
  BY <1>1, <1>2, <1>3

LEMMA LimitedIs ==
  ASSUME NEW band \in Limits!ColdestBand .. 9,
         profile \in {"V1", "V1_5", "V2_OLD", "V2_NEW"},
         NEW released, NEW quiet, NEW level \in Int
  PROVE  LET caps == Limits!Caps(band, released, quiet)
             limited == Limits!Limited(level, caps)
         IN  /\ limited.physical_level \in {level} \cup {c.level : c \in caps}
             /\ \A c \in caps : limited.physical_level <= c.level /\ c.level \in Int
             /\ limited.reasons = {c.reason : c \in {d \in caps : level > d.level}}
<1> DEFINE caps == Limits!Caps(band, released, quiet)
           levels == {c.level : c \in caps}
           outside == Limits!outside_level_limit(band)
           release == {[level |-> 18, reason |-> "high_level_release"] :
                         x \in {y \in {1} : Limits!extended /\ ~released}}
           still == {[level |-> 14, reason |-> "quiet"] :
                       x \in {y \in {1} : Limits!extended /\ quiet}}
<1>1. outside \in Int
  BY LimitIsLevel
<1>2. caps = {[level |-> outside, reason |-> "outside"]} \cup release \cup still
  BY DEF Limits!Caps
<1>3. release \in {{}, {[level |-> 18, reason |-> "high_level_release"]}}
  OBVIOUS
<1>4. still \in {{}, {[level |-> 14, reason |-> "quiet"]}}
  OBVIOUS
<1> HIDE DEF outside, release, still, caps
<1>5. \/ levels = {outside} \/ levels = {outside} \cup {18}
      \/ levels = {outside} \cup {14} \/ levels = ({outside} \cup {18}) \cup {14}
  <2> DEFINE more == {c.level : c \in release}
             yet == {c.level : c \in still}
  <2>1. levels = {outside} \cup more \cup yet
    <3> DEFINE one == [level |-> outside, reason |-> "outside"]
    <3>1. one.level = outside /\ caps = {one} \cup release \cup still
      BY <1>2
    <3> HIDE DEF one
    <3>2. \A x : x \in levels <=> x \in {outside} \cup more \cup yet
      BY <3>1
    <3> HIDE DEF levels, more, yet
    <3> QED
      BY <3>2
  <2>2. more \in {{}, {18}}
    BY <1>3
  <2>3. yet \in {{}, {14}}
    BY <1>4
  <2> HIDE DEF more, yet, levels
  <2> QED
    BY <2>1, <2>2, <2>3
<1> DEFINE some == {level} \cup {outside}
<1>6. HasLeast(some) /\ some \in SUBSET Int
  <2>1. HasLeast({level}) /\ {level} \in SUBSET Int
    BY DEF HasLeast
  <2> QED
    BY <1>1, <2>1, OneMore
<1>7. /\ HasLeast(some \cup {18}) /\ some \cup {18} \in SUBSET Int
      /\ HasLeast(some \cup {14}) /\ some \cup {14} \in SUBSET Int
  BY <1>6, OneMore
<1>8. HasLeast((some \cup {18}) \cup {14}) /\ (some \cup {18}) \cup {14} \in SUBSET Int
  BY <1>7, OneMore
<1>9. {level} \cup levels \in
        {some, some \cup {18}, some \cup {14}, (some \cup {18}) \cup {14}}
  BY <1>5
<1>10. HasLeast({level} \cup levels) /\ {level} \cup levels \in SUBSET Int
  <2> HIDE DEF some, levels
  <2> QED
    BY <1>6, <1>7, <1>8, <1>9
<1> DEFINE limited == Limits!Limited(level, caps)
<1>11. /\ limited.physical_level = Limits!Least({level} \cup levels)
       /\ limited.reasons = {c.reason : c \in {d \in caps : level > d.level}}
  BY DEF Limits!Limited
<1> HIDE DEF limited
<1>12. /\ limited.physical_level \in {level} \cup levels
       /\ \A x \in {level} \cup levels : limited.physical_level <= x
  BY <1>10, <1>11, LeastIs
<1>13. \A c \in caps : c.level \in {level} \cup levels
  OBVIOUS
<1>14. \A c \in caps : limited.physical_level <= c.level /\ c.level \in Int
  BY <1>10, <1>12, <1>13
<1> QED
  BY <1>11, <1>12, <1>14 DEF limited, caps

------------------------------------------------------------------------------

\* A unit that left a band is in the one its temperature then gave it, and that
\* temperature was outside the window of the band it left.
Left(left, band) ==
  left.band # Limits!NO_BAND =>
    /\ left.at \in Int /\ left.band \in Limits!ColdestBand .. 9 /\ left.band # band
    /\ band = Limits!FreshBand(left.at) /\ ~Limits!Held(left.band, left.at)

CeilingInv ==
  /\ profile \in Profiles
  /\ outside_band \in {Limits!NO_BAND} \cup (Limits!ColdestBand .. 9)
  /\ outside_band = Limits!NO_BAND => left_band.band = Limits!NO_BAND
  /\ Left(left_band, outside_band)
  /\ outside_band # Limits!NO_BAND =>
       /\ asked.outside \in Int /\ Kept(outside_band, asked.outside)
       /\ asked.level \in Levels
       /\ result = Limits!Limited(asked.level,
                           Limits!Caps(outside_band, high_levels_released, asked.quiet))

\* A valid reading: the band is kept or fresh, and a band that is left is left
\* for a fresh one.
LEMMA ValidBand ==
  ASSUME Limits!LimitsAssumption, CeilingInv, NEW outside \in OutsideTemp \cup {INVALID},
         NEW level, NEW water, NEW quiet, Limits!ApplyValid(level, outside, water, quiet)
  PROVE  /\ outside \in Int /\ asked'.outside = outside
         /\ outside_band' \in Limits!ColdestBand .. 9 /\ Kept(outside_band', outside)
         /\ outside_band' # outside_band =>
              outside_band' = Limits!FreshBand(outside) /\ ~Limits!Held(outside_band, outside)
         /\ (Limits!ColdestBand)' = Limits!ColdestBand
         /\ \A x : Limits!FreshBand(x)' = Limits!FreshBand(x)
         /\ \A b, x : Limits!Held(b, x)' <=> Limits!Held(b, x)
<1>1. /\ outside \in Int /\ UNCHANGED profile
      /\ asked' = [level |-> level, outside |-> outside, quiet |-> quiet]
      /\ outside_band' = IF Limits!Held(outside_band, outside) THEN outside_band
                         ELSE Limits!FreshBand(outside)
  BY DEF Limits!LimitsAssumption, Limits!ApplyValid, Limits!update_outside_band
<1>2. ~Limits!Held(Limits!NO_BAND, outside)
  BY DEF Limits!Held, Limits!NO_BAND
<1>3. outside_band' \in Limits!ColdestBand .. 9
  BY <1>1, <1>2, FreshWithin DEF CeilingInv, Within
<1>4. /\ (Limits!ColdestBand)' = Limits!ColdestBand
      /\ \A x : Limits!FreshBand(x)' = Limits!FreshBand(x)
      /\ \A b, x : Limits!Held(b, x)' <=> Limits!Held(b, x)
  BY <1>1 DEF Limits!ColdestBand, Limits!extended, Limits!FreshBand, Limits!Held
<1> QED
  BY <1>1, <1>3, <1>4 DEF Kept

LEMMA CeilingNext ==
  ASSUME Limits!LimitsAssumption, CeilingInv, [Limits!Next]_Limits!vars
  PROVE  CeilingInv'
<1>1. CASE Limits!Forget /\ profile' \in Profiles
  BY <1>1 DEF Limits!Forget, CeilingInv, Left, Limits!NO_BAND, Limits!NeverLeft
<1>2. ASSUME NEW p \in Profiles, Limits!Configure(p)
      PROVE  CeilingInv'
  BY <1>1, <1>2 DEF Limits!Configure
<1>3. CASE Limits!Reset
  BY <1>1, <1>3 DEF Limits!Reset, CeilingInv
<1>4. ASSUME NEW level \in Levels, NEW outside \in OutsideTemp \cup {INVALID},
             NEW water \in WaterTemp \cup {INVALID}, NEW quiet \in BOOLEAN,
             Limits!apply(level, outside, water, quiet)
      PROVE  CeilingInv'
  <2>1. CASE Limits!ApplyInvalid(level, outside, water, quiet)
    BY <1>1, <2>1 DEF Limits!ApplyInvalid, CeilingInv
  <2>2. CASE Limits!ApplyValid(level, outside, water, quiet)
    <3>1. /\ outside \in Int /\ asked'.outside = outside
          /\ outside_band' \in Limits!ColdestBand .. 9 /\ Kept(outside_band', outside)
          /\ outside_band' # outside_band =>
               outside_band' = Limits!FreshBand(outside) /\ ~Limits!Held(outside_band, outside)
          /\ (Limits!ColdestBand)' = Limits!ColdestBand
          /\ \A x : Limits!FreshBand(x)' = Limits!FreshBand(x)
          /\ \A b, x : Limits!Held(b, x)' <=> Limits!Held(b, x)
      BY <2>2, ValidBand
    <3>2. /\ asked'.level = level /\ asked'.quiet = quiet /\ profile' = profile
          /\ left_band' = IF outside_band \in {Limits!NO_BAND, outside_band'} THEN left_band
                          ELSE [band |-> outside_band, at |-> outside]
      BY <2>2 DEF Limits!ApplyValid
    <3>3. result' = Limits!Limited(level,
                      Limits!Caps(outside_band, high_levels_released, quiet)')
      BY <2>2
         DEF Limits!ApplyValid, Limits!Caps, Limits!outside_level_limit, Limits!extended
    <3>4. Left(left_band, outside_band)'
      <4>1. CASE outside_band \in {Limits!NO_BAND, outside_band'}
        BY <3>1, <3>2, <4>1 DEF CeilingInv, Left
      <4>2. CASE outside_band \notin {Limits!NO_BAND, outside_band'}
        <5>1. /\ left_band'.band = outside_band /\ left_band'.at = outside
              /\ outside_band \in Limits!ColdestBand .. 9
          BY <3>2, <4>2 DEF CeilingInv
        <5> QED
          BY <3>1, <4>2, <5>1 DEF Left
      <4> QED
        BY <4>1, <4>2
    <3>5. outside_band' # Limits!NO_BAND
      BY <3>1, Coldest DEF Limits!NO_BAND
    <3>6. Kept(outside_band, asked.outside)'
      BY <3>1, <3>2
         DEF Kept, Limits!FreshBand, Limits!Held, Limits!ColdestBand, Limits!extended
    <3> QED
      BY <3>1, <3>2, <3>3, <3>4, <3>5, <3>6 DEF CeilingInv
  <2> QED
    BY <1>4, <2>1, <2>2 DEF Limits!apply
<1>5. CASE UNCHANGED Limits!vars
  BY <1>5 DEF Limits!vars, CeilingInv, Left, Kept, Limits!FreshBand, Limits!Held,
              Limits!ColdestBand, Limits!extended,
              Limits!Limited, Limits!Caps, Limits!outside_level_limit
<1> QED
  BY <1>2, <1>3, <1>4, <1>5 DEF Limits!Next

LEMMA CeilingAlways == Limits!Spec => []CeilingInv
<1>1. Limits!Init => CeilingInv
  BY DEF Limits!Init, CeilingInv, Left, Limits!NO_BAND, Limits!NeverLeft
<1>2. CeilingInv /\ [Limits!Next]_Limits!vars => CeilingInv'
  BY CeilingNext, LimitsAssumed
<1> QED
  BY <1>1, <1>2, PTL DEF Limits!Spec

\* A ceiling is that of a fresh scenario within a degree, or of a cold shutdown
\* within five.
THEOREM CeilingsAreNearby == Limits!Spec => []CeilingIsNearby
<1>1. CeilingInv => CeilingIsNearby
  BY KeptIsNear DEF CeilingInv, CeilingIsNearby, Limits!CeilingIsNearby
<1> QED
  BY <1>1, CeilingAlways, PTL

\* A level is lowered exactly for the reported reasons, and each of the three caps,
\* that of the outside temperature included, is reported exactly when it applies.
THEOREM ReasonsReported == Limits!Spec => []EveryReasonReported
<1>1. CeilingInv => EveryReasonReported
  <2> SUFFICES ASSUME CeilingInv, outside_band # Limits!NO_BAND
               PROVE  /\ result.physical_level < asked.level <=> result.reasons # {}
                      /\ "outside" \in result.reasons <=>
                           asked.level > Limits!outside_level_limit(outside_band)
                      /\ "quiet" \in result.reasons <=>
                           Limits!extended /\ asked.quiet /\ asked.level > 14
                      /\ "high_level_release" \in result.reasons <=>
                           Limits!extended /\ ~high_levels_released /\ asked.level > 18
    BY DEF EveryReasonReported, Limits!EveryReasonReported
  <2> DEFINE caps == Limits!Caps(outside_band, high_levels_released, asked.quiet)
             level == asked.level
             ceiling == Limits!outside_level_limit(outside_band)
             cold == [level |-> ceiling, reason |-> "outside"]
             silent == [level |-> 14, reason |-> "quiet"]
             locked == [level |-> 18, reason |-> "high_level_release"]
  <2>1. /\ outside_band \in Limits!ColdestBand .. 9 /\ level \in Int
        /\ profile \in {"V1", "V1_5", "V2_OLD", "V2_NEW"}
        /\ result = Limits!Limited(level, caps)
    <3>1. /\ outside_band \in Limits!ColdestBand .. 9 /\ level \in Levels
          /\ profile \in Profiles
          /\ result = Limits!Limited(level, caps)
      BY DEF CeilingInv
    <3>2. /\ Profiles \subseteq {"V1", "V1_5", "V2_OLD", "V2_NEW"}
          /\ \A l \in Levels : l \in Int
      BY LimitsAssumed DEF Limits!LimitsAssumption
    <3> HIDE DEF caps, level
    <3> QED
      BY <3>1, <3>2
  <2>2. /\ result.physical_level \in {level} \cup {c.level : c \in caps}
        /\ \A c \in caps : result.physical_level <= c.level /\ c.level \in Int
        /\ result.reasons = {c.reason : c \in {d \in caps : level > d.level}}
    BY <2>1, LimitedIs
  <2>3. /\ cold \in caps
        /\ silent \in caps <=> Limits!extended /\ asked.quiet
        /\ locked \in caps <=> Limits!extended /\ ~high_levels_released
        /\ \A c \in caps : c \in {cold, silent, locked}
    BY DEF Limits!Caps
  <2> HIDE DEF caps
  <2>4. result.physical_level < level => result.reasons # {}
    <3> SUFFICES ASSUME result.physical_level < level PROVE result.reasons # {}
      OBVIOUS
    <3>1. result.physical_level # level
      BY <2>1
    <3>2. PICK c \in caps : result.physical_level = c.level
      BY <2>2, <3>1
    <3>3. c \in {d \in caps : level > d.level}
      BY <2>1, <2>2, <3>2
    <3> QED
      BY <2>2, <3>3
  <2>5. result.reasons # {} => result.physical_level < level
    <3> SUFFICES ASSUME result.reasons # {} PROVE result.physical_level < level
      OBVIOUS
    <3>1. PICK c \in caps : level > c.level
      BY <2>2
    <3>2. result.physical_level \in Int
      BY <2>1, <2>2
    <3> QED
      BY <2>1, <2>2, <3>1, <3>2
  <2>6. ASSUME NEW cap \in {cold, silent, locked}
        PROVE  cap.reason \in result.reasons <=> cap \in caps /\ level > cap.level
    <3>1. \A c \in caps : c.reason = cap.reason => c = cap
      BY <2>3, <2>6
    <3> QED
      BY <2>2, <3>1
  <2>7. /\ "outside" \in result.reasons <=> cold \in caps /\ level > ceiling
        /\ "quiet" \in result.reasons <=> silent \in caps /\ level > 14
        /\ "high_level_release" \in result.reasons <=> locked \in caps /\ level > 18
    BY <2>6
  <2> QED
    BY <2>3, <2>4, <2>5, <2>7
<1> QED
  BY <1>1, CeilingAlways, PTL

\* A swing below the hysteresis never moves the ceiling away and back.
THEOREM NoSwingChatters == Limits!Spec => NoChatter
<1>1. CeilingInv /\ [Limits!Next]_Limits!vars =>
        [/\ Limits!NO_BAND \notin {outside_band, outside_band'}
         /\ outside_band' # outside_band
         /\ outside_band' = left_band.band
         => LET moved == asked'.outside - left_band.at
            IN  moved >= Limits!Degrees(2) \/ moved <= -Limits!Degrees(2)]_Limits!vars
  <2> SUFFICES ASSUME CeilingInv, Limits!Next,
                      Limits!NO_BAND \notin {outside_band, outside_band'},
                      outside_band' # outside_band, outside_band' = left_band.band
               PROVE  \/ asked'.outside - left_band.at >= 4
                      \/ asked'.outside - left_band.at <= -4
    BY DEF Limits!Degrees
  <2>1. PICK level \in Levels, outside \in OutsideTemp \cup {INVALID},
             water \in WaterTemp \cup {INVALID}, quiet \in BOOLEAN :
               Limits!ApplyValid(level, outside, water, quiet)
    BY DEF Limits!Next, Limits!Configure, Limits!Reset, Limits!apply,
           Limits!ApplyInvalid, Limits!Forget
  <2>2. /\ outside \in Int /\ asked'.outside = outside
        /\ outside_band' \in Limits!ColdestBand .. 9
        /\ outside_band' = Limits!FreshBand(outside)
        /\ ~Limits!Held(outside_band, outside)
    BY <2>1, LimitsAssumed, ValidBand
  <2>3. /\ left_band.at \in Int /\ outside_band = Limits!FreshBand(left_band.at)
        /\ ~Limits!Held(outside_band', left_band.at)
        /\ outside_band \in Limits!ColdestBand .. 9
    BY DEF CeilingInv, Left
  <2>4. CASE outside_band' < outside_band
    <3>1. left_band.at - outside >= 4
      BY <2>2, <2>3, <2>4, BandsApart
    <3> QED
      BY <2>2, <2>3, <3>1
  <2>5. CASE outside_band < outside_band'
    <3>1. outside - left_band.at >= 4
      BY <2>2, <2>3, <2>5, BandsApart
    <3> QED
      BY <2>2, <2>3, <3>1
  <2>6. outside_band' \in Int /\ outside_band \in Int
    BY <2>2, <2>3, Coldest
  <2> QED
    BY <2>4, <2>5, <2>6
<1> QED
  BY <1>1, CeilingAlways, PTL DEF Limits!Spec, NoChatter, Limits!NoChatter
==============================================================================
