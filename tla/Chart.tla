------------------------------- MODULE Chart -------------------------------
(* The user's natal chart, the charts of connected peers, and the transit  *)
(* ticker that turns the sky of the moment into cards: core/src/chart.rs,  *)
(* transit.rs, app/src/placements.rs, aspect_list.rs, transit_ticker.rs.   *)
(* The ephemeris and the horizon (spherical astronomy over the reals) are  *)
(* parameters; everything computed from them is here.                      *)
EXTENDS InterpKeys

CONSTANTS
  Births,            \* births a user enters or a peer sends
  Starts,            \* the instants the app may be started at
  TICK,              \* time that passes between two ticks that are looked at
  MaxTicks,
  Longitude(_, _),   \* compute_positions: planet, instant -> degree
  Horizon(_)         \* birth -> ascendant, midheaven and the Placidus cusps

NoChart == [cusps |-> <<>>]

VARIABLES chart,     \* model.chart
          peer,      \* the chart of the peer whose page or row is shown
          now,       \* the clock
          ticks,     \* ticks so far (bound)
          active     \* what the last tick of the ticker issued
chartVars == <<chart, peer, now, ticks, active>>

(***************************************************************************)
(* Charts                                                                  *)
(***************************************************************************)
Sky(t) == [p \in Planet |-> Longitude(p, t)]

\* local_to_utc_hour: the hour of the day in UTC, without the day it falls on;
\* the offset is the time zone database's, or the longitude's.
LocalToUtcHour(b) == (b.hour - b.offset) % DAY
BirthJdn(b) == GregorianToJdn(b.year, b.month, b.day, LocalToUtcHour(b))

\* HouseSystem::compute; a geohash that is too short or does not decode gives the stub.
ComputeHouses(b) ==
  LET h == Horizon(b)
      Cusps == CASE b.houses = "whole_sign" -> WholeSignCusps(h.asc)
                 [] b.houses = "equal" -> EqualHouseCusps(h.asc)
                 [] b.houses \in {"placidus", "koch"} -> h.placidus
  IN  IF b.geohash = "full" THEN [cusps |-> Cusps, asc |-> h.asc, mc |-> h.mc]
      ELSE [cusps |-> Stub, asc |-> 0, mc |-> 0]

ComputeWith(b) ==
  LET h == ComputeHouses(b)
  IN  [birth |-> b, positions |-> Sky(BirthJdn(b)),
       cusps |-> h.cusps, asc |-> h.asc, mc |-> h.mc]

BigThree(c) == [sun_sign |-> SignOf(c.positions["sun"]),
                moon_sign |-> SignOf(c.positions["moon"]),
                ascendant_sign |-> SignOf(c.asc)]

\* placement_items: a row per planet, then the two angles.
PlacementItems(c) ==
  {[key |-> PlacementKey(p, SignOf(c.positions[p]),
                         IF IsStub(c.cusps) THEN NoHouse ELSE HouseOf(c.cusps, c.positions[p])),
    critical |-> IsCriticalDegree(c.positions[p])] : p \in Planet}
  \cup {[key |-> AngleKey("asc", SignOf(c.asc)), critical |-> IsCriticalDegree(c.asc)],
        [key |-> AngleKey("mc", SignOf(c.mc)), critical |-> IsCriticalDegree(c.mc)]}

NatalItems(c) == {FromNatal(x) : x \in ComputeAspects(c.positions)}
SynastryWith(c, other) == ComputeCross(c.positions, other.positions)
SynastryItems(c, other) == {FromSynastry(x) : x \in SynastryWith(c, other)}
CompatTone(c, other) == SynastryTone(SynastryWith(c, other))

(***************************************************************************)
(* Windows                                                                 *)
(***************************************************************************)
\* One direction of a window's scan: up to the step before the first that is
\* outside, and to the cap itself when no step within it is.
Reach(In(_), step, cap) ==
  LET outside == {k \in 1..(cap \div step) : ~In(k * step)}
  IN  IF outside = {} THEN cap ELSE (Min(outside) - 1) * step
Window(InAt(_), at, step, cap) ==
  LET Back(d) == InAt(at - d)
      Ahead(d) == InAt(at + d)
  IN  [start |-> at - Reach(Back, step, cap), end |-> at + Reach(Ahead, step, cap)]

TransitCap == 90 * DAY
InOrbAt(p, lon, kind, t) == InOrb(AngularSeparation(Longitude(p, t), lon), kind, 0)
TransitWindowOneMore(p, lon, kind, at) ==
  LET InAt(t) == InOrbAt(p, lon, kind, t)
      w == Window(InAt, at, DAY, TransitCap)
  IN  [w EXCEPT !.start = @ - DAY, !.end = @ + DAY]
TransitWindow(p, lon, kind, at) ==
  LET InAt(t) == InOrbAt(p, lon, kind, t) IN Window(InAt, at, DAY, TransitCap)

PlanetStep == [moon |-> 1, sun |-> DAY \div 2, mercury |-> DAY \div 2, venus |-> DAY \div 2,
               mars |-> DAY, jupiter |-> 5 * DAY, saturn |-> 15 * DAY, uranus |-> 30 * DAY,
               neptune |-> 60 * DAY, pluto |-> 90 * DAY]
PlanetCap == [moon |-> 5 * DAY, sun |-> 60 * DAY, mercury |-> 60 * DAY, venus |-> 60 * DAY,
              mars |-> 180 * DAY, jupiter |-> 730 * DAY, saturn |-> 1825 * DAY,
              uranus |-> 3650 * DAY, neptune |-> 5475 * DAY, pluto |-> 10950 * DAY]
InHouseAt(p, cusps, house, t) == HouseOf(cusps, Longitude(p, t)) = house
HouseTransitWindow(p, cusps, at) ==
  LET InAt(t) == InHouseAt(p, cusps, HouseOf(cusps, Longitude(p, at)), t)
  IN  Window(InAt, at, PlanetStep[p], PlanetCap[p])

(***************************************************************************)
(* The ticker                                                              *)
(***************************************************************************)
Item(key, w) == [key |-> ToSig(key), start |-> w.start, end |-> w.end]

\* transits_at and active_items: transits to natal planets, aspects of the sky
\* (the second body held where it is now), and houses passed through.
ActiveItems(c, at) ==
  LET sky == Sky(at)
      Houses == HousePositions(c.cusps, sky)
  IN  {Item(TransitKey(x), TransitWindow(x.a, c.positions[x.b], x.kind, at)) :
         x \in ComputeCross(sky, c.positions)}
      \cup {Item(FromSky(x), TransitWindow(x.a, sky[x.b], x.kind, at)) :
              x \in ComputeAspects(sky)}
      \cup {Item(HouseKey(p, Houses[p]), HouseTransitWindow(p, c.cusps, at)) : p \in Planet}

\* card_text of a transit's card: its title, and one date or two.
WindowStr(start, end) ==
  LET s == JdnToGregorian(start)
      e == JdnToGregorian(end)
  IN  IF s = e THEN <<s>> ELSE <<s, e>>
CardText(i) == [title |-> HumanizeKey(i.key), footer |-> WindowStr(i.start, i.end)]

(***************************************************************************)
(* What the parameters promise                                             *)
(***************************************************************************)
LeapYear(y) == y % 4 = 0 /\ (y % 100 # 0 \/ y % 400 = 0)
DaysInMonth(y, m) == IF m = 2 THEN (IF LeapYear(y) THEN 29 ELSE 28)
                     ELSE IF m \in {4, 6, 9, 11} THEN 30 ELSE 31

\* The arc from one longitude forward to another.
Ahead(from, to) == (to - from) % 360

\* Longitudes end with rem_euclid(360.0).
Degree == 0..359
\* Cusps that lie one after the other round the circle, as the semi-arc method
\* finds them between the polar circles, where every degree rises.
InOrder(cusps) ==
  /\ cusps \in [1..12 -> Degree]
  /\ \A h \in 1..11 : Ahead(cusps[1], cusps[h]) < Ahead(cusps[1], cusps[h + 1])

\* A date of the Gregorian calendar, an hour of it, and where it was.
BirthTyped(b) ==
  /\ b.year \in Nat /\ b.year >= 1583 /\ b.month \in 1..12
  /\ b.day \in 1..DaysInMonth(b.year, b.month) /\ b.hour \in 0..(DAY - 1) /\ b.offset \in Int
  /\ b.houses \in {"whole_sign", "equal", "placidus", "koch"}
  /\ b.geohash \in {"full", "short"}
  /\ Horizon(b).asc \in Degree /\ Horizon(b).mc \in Degree
  /\ b.houses \in {"placidus", "koch"} /\ b.geohash = "full" => InOrder(Horizon(b).placidus)

\* How far from the clock the windows of a planet's transits may look.
Sight(p) == IF PlanetCap[p] > TransitCap THEN PlanetCap[p] ELSE TransitCap

ASSUME ChartAssumption ==
  /\ \A b \in Births : BirthTyped(b) /\ \A p \in Planet : Longitude(p, BirthJdn(b)) \in Degree
  /\ TICK \in Nat /\ MaxTicks \in Nat
  /\ \A s \in Starts : /\ s \in Int /\ s - PlanetCap["pluto"] >= GregorianToJdn(1583, 1, 1, 0)
                       /\ \A p \in Planet :
                            \A t \in (s - Sight(p))..(s + MaxTicks * TICK + Sight(p)) :
                              Longitude(p, t) \in Degree

(***************************************************************************)
(* Steps                                                                   *)
(***************************************************************************)
ChartInit ==
  /\ chart = NoChart /\ peer = NoChart
  /\ now \in Starts
  /\ ticks = 0 /\ active = {}

\* The setup form is confirmed: the running ticker is aborted, a new one
\* started; it ticks at once.
ConfirmBirth(b) ==
  /\ ticks = 0
  /\ b.geohash = "full"
  /\ chart' = ComputeWith(b)
  /\ active' = ActiveItems(chart', now)
  /\ UNCHANGED <<peer, now, ticks>>

TickerTick ==
  /\ chart # NoChart
  /\ ticks < MaxTicks
  /\ ticks' = ticks + 1
  /\ now' = now + TICK
  /\ active' = ActiveItems(chart, now')
  /\ UNCHANGED <<chart, peer>>

\* A connected peer's page is opened: their birth came with the handshake.
OpenPeer(b) ==
  /\ chart # NoChart
  /\ ticks = 0
  /\ peer' = ComputeWith(b)
  /\ UNCHANGED <<chart, now, ticks, active>>

ChartNext ==
  \/ \E b \in Births : ConfirmBirth(b) \/ OpenPeer(b)
  \/ TickerTick
ChartSpec == ChartInit /\ [][ChartNext]_chartVars

(***************************************************************************)
(* Properties                                                              *)
(***************************************************************************)
Charts == {chart, peer} \ {NoChart}

AspectsAreExact(c) ==
  \A p, q \in Planet :
    LET d == Ahead(c.positions[p], c.positions[q])
        fits == {k \in DOMAIN Angle : \E s \in {d, 360 - d} : Abs(s - Angle[k]) <= Orb[k]}
        found == {x.kind : x \in {y \in ComputeAspects(c.positions) : {y.a, y.b} = {p, q}}}
    IN  p # q => found = fits /\ Cardinality(fits) <= 1

PatternsAreExact(c) ==
  LET pos == c.positions
      Near(p, q, angle, orb) ==
        \E s \in {Ahead(pos[p], pos[q]), Ahead(pos[q], pos[p])} : Abs(s - angle) <= orb
      found == DetectPatterns(ComputeAspects(pos))
  IN  \A p, q, r \in Planet : Ord[p] < Ord[q] /\ r \notin {p, q} =>
        /\ (\E x \in found : x.kind = "t_square" /\ x.of = {p, q, r} /\ x.apex = r)
             <=> Near(p, q, 180, 8) /\ Near(p, r, 90, 7) /\ Near(q, r, 90, 7)
        /\ (\E x \in found : x.kind = "grand_trine" /\ x.of = {p, q, r})
             <=> Near(p, q, 120, 8) /\ Near(p, r, 120, 8) /\ Near(q, r, 120, 8)

HousesAreExact(c) ==
  IF IsStub(c.cusps)
  THEN /\ StelliumsByHouse(c.cusps, c.positions) = {}
       /\ \A i \in PlacementItems(c) : i.key.kind = "placement" => i.key.house = NoHouse
  ELSE /\ \A lon \in 0..359 : LET h == HouseOf(c.cusps, lon) IN
            Ahead(c.cusps[h], lon) < Ahead(c.cusps[h], c.cusps[(h % 12) + 1])
       /\ \A h \in 1..12 :
            LET there == {i.key.planet : i \in {j \in PlacementItems(c) :
                            j.key.kind = "placement" /\ j.key.house = h}}
            IN  Cardinality(there) >= 3 <=>
                  [at |-> h, planets |-> there] \in StelliumsByHouse(c.cusps, c.positions)

SignsAreExact(c) ==
  LET b == NatalBalance(c.positions)
      Total(f) == Cardinality({x \in Planet \X DOMAIN f :
                     (SignOf(c.positions[x[1]]) - x[2]) % Cardinality(DOMAIN f) = 0})
  IN  /\ \A s \in StelliumsBySign(c.positions) :
           /\ b.element[s.at % 4] >= Cardinality(s.planets)
           /\ b.modality[s.at % 3] >= Cardinality(s.planets)
      /\ b.element[0] + b.element[1] + b.element[2] + b.element[3] = Total(b.element)
      /\ b.modality[0] + b.modality[1] + b.modality[2] = Total(b.modality)
      /\ \A moon \in 0..359 :
           PhaseFromLongitudes(c.positions["sun"], moon)
             = PHASES[((2 * Ahead(c.positions["sun"], moon) + 45) \div 90) + 1]
      /\ AngleKey("asc", BigThree(c).ascendant_sign) \in {i.key : i \in PlacementItems(c)}

(* What the chart pages show is what the longitudes say, computed afresh    *)
(* from arcs on the circle: every pair's aspect, every grand trine and      *)
(* T-square once, the house of every degree for every system of cusps       *)
(* (0 degrees included), stelliums, balance and moon phase.                 *)
GeometryIsExact ==
  \A c \in Charts : /\ AspectsAreExact(c) /\ PatternsAreExact(c)
                    /\ HousesAreExact(c) /\ SignsAreExact(c)

KeysOf(c) == NatalItems(c) \cup {i.key : i \in PlacementItems(c)}
KeysShown ==
  (UNION {KeysOf(c) : c \in Charts})
  \cup (IF peer = NoChart THEN {} ELSE SynastryItems(chart, peer))

(* The same thing has one name: a key is read back from its string as       *)
(* itself (an angle's is not a link) and both ways of putting it in words    *)
(* agree; two peers who look at each other get the same keys and the same    *)
(* tone; if a personal planet of one is exactly in aspect with one of the    *)
(* other's they share a topic besides the global one; and what a discovered   *)
(* peer's row says of their sun is so for some degree of the announced sign.  *)
PeersNameTheSame ==
  /\ \A k \in KeysShown :
       /\ Parse(ToSig(k)) = IF k.kind = "placement_angle" THEN NotAKey ELSE k
       /\ HumanizeKey(ToSig(k)) = PlainName(k)
       /\ KindLabel(ToSig(k)) # "Reading"
  /\ \A i \in active :
       /\ ToSig(Parse(i.key)) = i.key
       /\ CardText(i).title = PlainName(Parse(i.key))
  /\ peer # NoChart =>
       /\ SynastryItems(chart, peer) = SynastryItems(peer, chart)
       /\ CompatTone(chart, peer) = CompatTone(peer, chart)
       /\ (\E p, q \in PERSONAL_PLANETS :
             Ahead(chart.positions[p], peer.positions[q]) \in {0, 90, 120, 180, 240, 270})
            => Cardinality(TopicKeys(chart.positions) \cap TopicKeys(peer.positions)) > 1
       /\ LET month == SignOf(peer.positions["sun"]) IN
          \A x \in ApproximateAspects(month, chart.positions) :
            \E lon \in (30 * month)..(30 * month + 29) :
              DetectAspect(AngularSeparation(lon, chart.positions[x[2]])) = x[1]

\* The civil date of the Gregorian calendar, by counting days from 0001-01-01.
DaysBefore(y, m) ==
  LET Months[k \in 0..12] == IF k = 0 THEN 0 ELSE Months[k - 1] + DaysInMonth(y, k)
      n == y - 1
  IN  365 * n + (n \div 4) - (n \div 100) + (n \div 400) + Months[m - 1]
IsCivilDateOf(d, jdn) ==
  /\ d.month \in 1..12 /\ d.day \in 1..DaysInMonth(d.year, d.month)
  /\ DaysBefore(d.year, d.month) + d.day = ((jdn + (DAY \div 2)) \div DAY) - 1721425

\* A window that is wide enough: every sampled instant inside, and either the
\* sample before (after) it is outside, or it ends at the cap.
Spans(w, InAt(_), step, cap) ==
  /\ \A d \in 0..(cap \div step) :
       /\ now - d * step >= w.start => InAt(now - d * step)
       /\ now + d * step <= w.end => InAt(now + d * step)
  /\ (w.start - step < now - cap \/ ~InAt(w.start - step))
  /\ (w.end + step > now + cap \/ ~InAt(w.end + step))
  /\ w.start >= now - cap /\ w.end <= now + cap

(* Every card's window is the longest run of sampled instants around now in  *)
(* which the transit is within orb, or the planet in the house, cut at the    *)
(* cap; and the dates it is shown with are the civil dates of its ends,       *)
(* through leap days, the end of the year and 1900, in order.                 *)
WindowDatesAreRight ==
  \A i \in active :
    LET k == Parse(i.key)
        dates == CardText(i).footer
        from == dates[1]
        to == dates[Len(dates)]
        InHouse2(t) == InHouseAt(k.transiting, chart.cusps, k.house, t)
        InOrb2(t) == InOrbAt(k.transiting, chart.positions[k.natal], k.aspect, t)
    IN  /\ k.kind = "house_transit" =>
             Spans(i, InHouse2, PlanetStep[k.transiting], PlanetCap[k.transiting])
        /\ k.kind = "transit" => Spans(i, InOrb2, DAY, TransitCap)
        /\ IsCivilDateOf(from, i.start) /\ IsCivilDateOf(to, i.end)
        /\ GregorianToJdn(to.year, to.month, to.day, i.end - ((i.end + 10) \div DAY) * DAY + 10)
             = i.end
        /\ IsCivilDateOf([year |-> chart.birth.year, month |-> chart.birth.month,
                          day |-> chart.birth.day],
                         GregorianToJdn(chart.birth.year, chart.birth.month,
                                        chart.birth.day, chart.birth.hour))
=============================================================================
