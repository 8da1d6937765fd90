------------------------------ MODULE MCChart ------------------------------
(* An instance of Chart: four births, one of them without houses, an         *)
(* artificial ephemeris that moves and turns retrograde at about the real    *)
(* rates, and clocks that run over a leap day and a year's end.              *)
EXTENDS Chart

Birth(id, y, m, d, h, offset, houses, geohash) ==
  [id |-> id, year |-> y, month |-> m, day |-> d, hour |-> h, offset |-> offset,
   houses |-> houses, geohash |-> geohash]

SomeBirths ==
  {Birth(1, 1990, 7, 14, 7, 2, "placidus", "full"),
   Birth(2, 1900, 2, 28, 19, 1, "equal", "full"),
   Birth(3, 2000, 2, 29, 0, 2, "whole_sign", "full"),
   Birth(4, 1999, 12, 31, 13, -4, "placidus", "short")}

\* A grand trine, a T-square and stelliums; separations at and just past the
\* orbs; a pile around 0 degrees; a plain chart.
At(su, mo, me, ve, ma, ju, sa, ur, ne, pl) ==
  [sun |-> su, moon |-> mo, mercury |-> me, venus |-> ve, mars |-> ma,
   jupiter |-> ju, saturn |-> sa, uranus |-> ur, neptune |-> ne, pluto |-> pl]
SkyAtBirth ==
  <<At(10, 130, 18, 24, 255, 248, 190, 100, 97, 12),
    At(0, 8, 17, 33, 60, 93, 128, 172, 147, 83),
    At(359, 1, 29, 350, 89, 119, 179, 149, 269, 240),
    At(222, 45, 215, 190, 100, 10, 131, 222, 267, 208)>>

HorizonOf(b) ==
  <<[asc |-> 252, mc |-> 158, placidus |-> <<252, 290, 335, 338, 3, 31, 72, 110, 155, 158, 183, 211>>],
    [asc |-> 355, mc |-> 263, placidus |-> Stub],
    [asc |-> 29, mc |-> 290, placidus |-> Stub],
    [asc |-> 77, mc |-> 2, placidus |-> Stub]>>[b.id]

(* Mean motion in degrees per ten thousand twentieths of a day, and a triangle *)
(* wave (amplitude, period in days) for the loops seen from the Earth.        *)
Motion ==
  [sun |-> <<493, 0, 365>>, moon |-> <<6588, 6, 27>>, mercury |-> <<493, 30, 116>>,
   venus |-> <<493, 45, 584>>, mars |-> <<262, 110, 780>>, jupiter |-> <<42, 11, 399>>,
   saturn |-> <<17, 6, 378>>, uranus |-> <<6, 4, 370>>, neptune |-> <<3, 3, 367>>,
   pluto |-> <<2, 3, 366>>]
Zero == 49020000                     \* 2451000 JDN
InitialLongitude == At(104, 262, 120, 62, 78, 25, 32, 312, 301, 246)

Wave(d, amplitude, period) ==
  Abs(((d % (period * DAY)) * 4 * amplitude) \div (period * DAY) - 2 * amplitude) - amplitude

BirthInstants == {BirthJdn(b) : b \in SomeBirths}
EphemerisLongitude(p, t) ==
  IF t \in BirthInstants
  THEN SkyAtBirth[(CHOOSE b \in SomeBirths : BirthJdn(b) = t).id][p]
  ELSE LET d == t - Zero
           m == Motion[p]
       IN  Norm(InitialLongitude[p] + (d * m[1]) \div 10000 + Wave(d, m[2], m[3]))

Clocks == {GregorianToJdn(2024, 2, 27, 15), GregorianToJdn(2026, 12, 30, 3)}
=============================================================================
