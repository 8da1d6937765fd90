--------------------------- MODULE MCReadingPage ---------------------------
(* An instance of ReadingPage for TLC: an aspect whose page has one card    *)
(* and a synastry whose page has two, one of them for the same key.         *)
EXTENDS ReadingPage

CONSTANTS k1, k2

TwoKeys == {k1, k2}
TwoRows == {<<k1>>, <<k1, k2>>}
OneText == {k1}
=============================================================================
