---------------------------- MODULE InterpKeys -----------------------------
(* Interpretation keys and their canonical strings (core/src/interp.rs):    *)
(* how a key is written, read back and put in words.  A string is the pair  *)
(* of its prefix and the sequence of the words that the underscores and     *)
(* colons of the rest separate; a kind's name is one word or, for the       *)
(* semi-sextile, two.  Capitals are left out.                               *)
EXTENDS Almanac

SIGNS == <<"aries", "taurus", "gemini", "cancer", "leo", "virgo", "libra", "scorpio",
           "sagittarius", "capricorn", "aquarius", "pisces">>
SignName(idx) == SIGNS[(idx % 12) + 1]

KindWords(kind) == IF kind = "semi_sextile" THEN <<"semi", "sextile">> ELSE <<kind>>
DisplayName(kind) == IF kind = "semi_sextile" THEN "semi-sextile" ELSE kind

\* sorted_names: by the alphabet, whichever chart the planet is from.
Alphabet == <<"jupiter", "mars", "mercury", "moon", "neptune", "pluto",
              "saturn", "sun", "uranus", "venus">>
Rank(p) == CHOOSE i \in DOMAIN Alphabet : Alphabet[i] = p
AsGiven(a, b) == <<a, b>>
SortedNames(a, b) == IF Rank(a) <= Rank(b) THEN <<a, b>> ELSE <<b, a>>

AspectWords(a, kind, b) == <<a>> \o KindWords(kind) \o <<b>>
AspectSig(x) == LET n == SortedNames(x.a, x.b) IN AspectWords(n[1], x.kind, n[2])

(* Keys *)
FromNatal(x) == [kind |-> "natal", sig |-> AspectSig(x)]
FromSynastry(x) == [kind |-> "synastry", sig |-> AspectSig(x)]
FromSky(x) == [kind |-> "sky", sig |-> AspectSig(x)]
TransitKey(x) == [kind |-> "transit", transiting |-> x.a, natal |-> x.b, aspect |-> x.kind]
HouseKey(p, house) == [kind |-> "house_transit", transiting |-> p, house |-> house]
PlacementKey(p, sign, house) ==
  [kind |-> "placement", planet |-> p, sign |-> sign, house |-> house]
AngleKey(angle, sign) == [kind |-> "placement_angle", angle |-> angle, sign |-> sign]
NoHouse == 0                         \* Option::None; a house is 1..12
NotAKey == [kind |-> "unparsable"]

ToSig(k) ==
  [kind |-> k.kind,
   words |-> CASE k.kind \in {"natal", "synastry", "sky"} -> k.sig
               [] k.kind = "transit" -> AspectWords(k.transiting, k.aspect, k.natal)
               [] k.kind = "house_transit" -> <<k.transiting, k.house>>
               [] k.kind = "placement" ->
                    <<k.planet, SignName(k.sign)>> \o
                      (IF k.house = NoHouse THEN <<>> ELSE <<k.house>>)
               [] k.kind = "placement_angle" -> <<k.angle, SignName(k.sign)>>]

\* The order parse_interp_sig and parse_aspect_sig try the kinds in: the name
\* that ends in another kind's name first.
SearchOrder == <<"semi_sextile", "conjunction", "sextile", "square", "trine",
                 "quincunx", "opposition">>

\* rest.find("_kind_"): where the kind's words first stand between others.
Find(words, kind) ==
  LET n == KindWords(kind)
  IN  {i \in 2..(Len(words) - Len(n)) : SubSeq(words, i, i + Len(n) - 1) = n}

\* The first kind of the search order that occurs, and what is on either side.
SplitAspect(words) ==
  LET hits == {i \in DOMAIN SearchOrder : Find(words, SearchOrder[i]) # {}}
  IN  IF hits = {} THEN [kind |-> None, before |-> <<>>, after |-> words]
      ELSE LET kind == SearchOrder[CHOOSE i \in hits : \A j \in hits : i <= j]
               at == CHOOSE i \in Find(words, kind) : \A j \in Find(words, kind) : i <= j
           IN  [kind |-> kind, before |-> SubSeq(words, 1, at - 1),
                after |-> SubSeq(words, at + Len(KindWords(kind)), Len(words))]

IsPlanet(words) == Len(words) = 1 /\ words[1] \in Planet

Parse(s) ==
  LET w == s.words
      split == SplitAspect(w)
  IN  CASE s.kind \in {"natal", "synastry", "sky"} -> [kind |-> s.kind, sig |-> w]
        [] /\ s.kind = "transit" /\ split.kind # None
           /\ IsPlanet(split.before) /\ IsPlanet(split.after) ->
             [kind |-> "transit", transiting |-> split.before[1],
              natal |-> split.after[1], aspect |-> split.kind]
        [] s.kind = "house_transit" /\ Len(w) = 2 /\ w[1] \in Planet -> HouseKey(w[1], w[2])
        [] /\ s.kind = "placement" /\ Len(w) \in {2, 3}
           /\ w[1] \in Planet /\ w[2] \in Range(SIGNS) ->
             PlacementKey(w[1], (CHOOSE i \in DOMAIN SIGNS : SIGNS[i] = w[2]) - 1,
                          IF Len(w) = 3 THEN w[3] ELSE NoHouse)
        [] OTHER -> NotAKey          \* placement_angle among them

(* In words: PlainName from the key, HumanizeKey from its string.             *)
ParseAspectSig(words) ==
  LET split == SplitAspect(words)
  IN  IF split.kind = None THEN words
      ELSE split.before \o <<DisplayName(split.kind)>> \o split.after
InHouse(house) == IF house = NoHouse THEN <<>> ELSE <<"house", house>>
AngleName(angle) == IF angle = "asc" THEN "ascendant" ELSE "midheaven"

PlainName(k) ==
  CASE k.kind \in {"natal", "synastry", "sky"} -> ParseAspectSig(k.sig)
    [] k.kind = "transit" -> <<k.transiting, DisplayName(k.aspect), k.natal>>
    [] k.kind = "house_transit" -> <<k.transiting, "transiting", k.house, "house">>
    [] k.kind = "placement" -> <<k.planet, "in", SignName(k.sign)>> \o InHouse(k.house)
    [] k.kind = "placement_angle" -> <<AngleName(k.angle), "in", SignName(k.sign)>>

HumanizeKey(s) ==
  LET w == s.words
  IN  CASE s.kind = "house_transit" -> <<w[1], "transiting", w[2], "house">>
        [] s.kind = "placement" ->
             <<w[1], "in", w[2]>> \o InHouse(IF Len(w) = 3 THEN w[3] ELSE NoHouse)
        [] s.kind = "placement_angle" -> <<AngleName(w[1]), "in", w[2]>>
        [] OTHER -> ParseAspectSig(w)

KindLabel(s) ==
  CASE s.kind = "natal" -> "Natal"
    [] s.kind = "synastry" -> "Synastry"
    [] s.kind = "transit" -> "Transit"
    [] s.kind = "sky" -> "Sky"
    [] s.kind = "house_transit" -> "House transit"
    [] s.kind \in {"placement", "placement_angle"} -> "Placement"
    [] OTHER -> "Reading"
=============================================================================
