------------------------------ MODULE Almanac ------------------------------
(* The pure computations of the core crate: separations and aspects,       *)
(* houses, signs, patterns, stelliums, balance, moon phase, the calendar   *)
(* and the topics a chart subscribes to.  Longitudes are whole degrees     *)
(* 0..359.  A Julian date is counted in twentieths of a day (the smallest  *)
(* step of any scan, planet_step_days), so it is an integer throughout;    *)
(* the floors of the calendar's products are the exact integer divisions.  *)
EXTENDS Integers, Sequences, FiniteSets, FiniteSetsExt

DAY == 20                            \* twentieths in a day

Planets == <<"sun", "moon", "mercury", "venus", "mars",
             "jupiter", "saturn", "uranus", "neptune", "pluto">>
Planet == {Planets[i] : i \in DOMAIN Planets}
Ord == [p \in Planet |-> CHOOSE i \in DOMAIN Planets : Planets[i] = p]

(***************************************************************************)
(* Aspects                                                                 *)
(***************************************************************************)
ASPECTS == <<"conjunction", "semi_sextile", "sextile", "square",
             "trine", "quincunx", "opposition">>
Angle == [conjunction |-> 0, semi_sextile |-> 30, sextile |-> 60, square |-> 90,
          trine |-> 120, quincunx |-> 150, opposition |-> 180]
Orb == [conjunction |-> 8, semi_sextile |-> 3, sextile |-> 6, square |-> 7,
        trine |-> 8, quincunx |-> 3, opposition |-> 8]
None == "none"

Norm(lon) == lon % 360
Abs(n) == IF n < 0 THEN -n ELSE n
AngularSeparation(a, b) ==
  LET d == Norm(b - a) IN IF d > 180 THEN 360 - d ELSE d

InOrb(sep, kind, widening) == Abs(sep - Angle[kind]) <= Orb[kind] + widening

\* ASPECTS.iter().find: the first kind in the table within orb.
FirstWithin(sep, widening) ==
  LET hits == {i \in DOMAIN ASPECTS : InOrb(sep, ASPECTS[i], widening)}
  IN  IF hits = {} THEN None ELSE ASPECTS[Min(hits)]
DetectAspect(sep) == FirstWithin(sep, 0)
DetectWide(sep) == FirstWithin(sep, 5)

ComputeCross(from, onto) ==
  {x \in {[a |-> p, b |-> q, kind |-> DetectAspect(AngularSeparation(from[p], onto[q]))] :
            p \in DOMAIN from, q \in DOMAIN onto} : x.kind # None}
\* Within one chart each unordered pair once, the earlier planet first.
ComputeAspects(pos) == {x \in ComputeCross(pos, pos) : Ord[x.a] < Ord[x.b]}

SynastryTone(aspects) ==
  LET Of(kinds) == Cardinality({a \in aspects : a.kind \in kinds})
      score == Of({"trine", "sextile"}) - Of({"square", "opposition"})
  IN  IF score >= 3 THEN "harmonious" ELSE IF score <= -3 THEN "challenging" ELSE "balanced"

ApproximateAspects(month, pos) ==
  {<<DetectWide(AngularSeparation(30 * month + 15, pos[p])), p>> : p \in DOMAIN pos}
    \ ({None} \X Planet)

(***************************************************************************)
(* Signs, houses, balance, stelliums, moon phase                           *)
(***************************************************************************)
SignOf(lon) == Norm(lon) \div 30
IsCriticalDegree(lon) == Norm(lon) % 30 >= 29

Stub == [i \in 1..12 |-> 0]
IsStub(cusps) == \A i \in 1..12 : cusps[i] = 0
WholeSignCusps(asc) == [i \in 1..12 |-> ((SignOf(asc) + i - 1) % 12) * 30]
EqualHouseCusps(asc) == [i \in 1..12 |-> Norm(asc + 30 * (i - 1))]

HouseOfNoWrap(cusps, longitude) ==
  LET inside == {i \in 1..12 : Norm(longitude) >= cusps[i]
                               /\ Norm(longitude) < cusps[(i % 12) + 1]}
  IN  IF inside = {} THEN 1 ELSE Min(inside)
HouseOf(cusps, longitude) ==
  LET lon == Norm(longitude)
      Contains(i) == LET end == cusps[(i % 12) + 1] IN
                     IF cusps[i] < end THEN lon >= cusps[i] /\ lon < end
                                       ELSE lon >= cusps[i] \/ lon < end
      inside == {i \in 1..12 : Contains(i)}
  IN  IF inside = {} THEN 1 ELSE Min(inside)
HousePositions(cusps, sky) == [p \in DOMAIN sky |-> HouseOf(cusps, sky[p])]

MIN_STELLIUM_SIZE == 3
Groups(of, size) ==                  \* the groups of size or more sharing a value
  {g \in {[at |-> of[p], planets |-> {q \in DOMAIN of : of[q] = of[p]}] : p \in DOMAIN of} :
     Cardinality(g.planets) >= size}
SignsOf(pos) == [p \in DOMAIN pos |-> SignOf(pos[p])]
StelliumsBySign(pos) == Groups(SignsOf(pos), MIN_STELLIUM_SIZE)
StelliumsByHouse(cusps, pos) ==
  IF IsStub(cusps) THEN {} ELSE Groups(HousePositions(cusps, pos), MIN_STELLIUM_SIZE)

\* natal_balance: how many planets per element (sign mod 4) and modality (mod 3).
NatalBalance(pos) ==
  LET Count(m, r) == Cardinality({p \in DOMAIN pos : SignOf(pos[p]) % m = r})
  IN  [element |-> [r \in 0..3 |-> Count(4, r)], modality |-> [r \in 0..2 |-> Count(3, r)]]

PHASES == <<"new", "waxing_crescent", "first_quarter", "waxing_gibbous", "full",
            "waning_gibbous", "last_quarter", "waning_crescent", "new">>
\* Bounds at 22.5 + 45 k degrees, compared in half degrees; past the last: new.
PhaseFromLongitudes(sun, moon) ==
  LET angle == Norm(moon - sun)
      below == {k \in 1..8 : 2 * angle < 90 * k - 45}
  IN  IF below = {} THEN PHASES[9] ELSE PHASES[Min(below)]

(***************************************************************************)
(* Aspect patterns                                                         *)
(***************************************************************************)
PairKey(a, b) == IF Ord[a] <= Ord[b] THEN <<a, b>> ELSE <<b, a>>

\* One pattern per triple at most for a trine triangle (the `continue`), one
\* per opposition side for a T-square.
DetectPatterns(aspects) ==
  LET lookup == [k \in {PairKey(x.a, x.b) : x \in aspects} |->
                   (CHOOSE x \in aspects : PairKey(x.a, x.b) = k).kind]
      Get(a, b) == LET k == PairKey(a, b) IN IF k \in DOMAIN lookup THEN lookup[k] ELSE None
      Seen == {x.a : x \in aspects} \cup {x.b : x \in aspects}
      Trines(t) == \A a, b \in t : a # b => Get(a, b) = "trine"
      Squares(t, apex) ==
        /\ \A b \in t \ {apex} : Get(apex, b) = "square"
        /\ \A a, b \in t \ {apex} : a # b => Get(a, b) = "opposition"
  IN  UNION {IF Trines(t) THEN {[kind |-> "grand_trine", apex |-> None, of |-> t]}
             ELSE {[kind |-> "t_square", apex |-> apex, of |-> t] :
                     apex \in {x \in t : Squares(t, x)}} :
             t \in kSubset(3, Seen)}

(***************************************************************************)
(* Calendar                                                                *)
(***************************************************************************)
GregorianToJdn(year, month, day, hour) ==        \* hour in twentieths of a day
  LET y == IF month <= 2 THEN year - 1 ELSE year
      m == IF month <= 2 THEN month + 12 ELSE month
      a == y \div 100
      b == 2 - a + (a \div 4)
  IN  DAY * (((1461 * (y + 4716)) \div 4) + ((306001 * (m + 1)) \div 10000) + day + b)
        - 30490 + hour

JdnToGregorian(jdn) ==
  LET z == (jdn + (DAY \div 2)) \div DAY
      alpha == (4 * z - 7468865) \div 146097
      a == IF z < 2299161 THEN z ELSE z + 1 + alpha - (alpha \div 4)
      b == a + 1524
      c == (20 * b - 2442) \div 7305
      d == (1461 * c) \div 4
      e == (10000 * (b - d)) \div 306001
      month == IF e < 14 THEN e - 1 ELSE e - 13
  IN  [year |-> IF month > 2 THEN c - 4716 ELSE c - 4715,
       month |-> month,
       day |-> b - d - ((306001 * e) \div 10000)]

(***************************************************************************)
(* Topics.  A digest is as distinct as the text it is made from, so a topic *)
(* is its bucket.                                                          *)
(***************************************************************************)
BUCKET_DEG == 5
PERSONAL_PLANETS == {"sun", "moon", "mercury", "venus", "mars"}
ASPECT_OFFSETS == {0, 180, 90, 270, 120, 240}

DegreeBucket(lon) == Norm(lon) \div BUCKET_DEG
TopicKeysForChart(pos) ==
  {DegreeBucket(pos[p] + o) : p \in PERSONAL_PLANETS \cap DOMAIN pos, o \in ASPECT_OFFSETS}

\* Network::new joins the global topic and the chart's.
TopicKeys(pos) == {<<"global">>} \cup {<<"degree", b>> : b \in TopicKeysForChart(pos)}
=============================================================================
