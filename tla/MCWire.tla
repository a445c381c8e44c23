------------------------------- MODULE MCWire -------------------------------
\* Model values for Wire: every class, two setter calls.
EXTENDS Wire

MCTypes == DOMAIN Class
MCUInts == {0, 300}
\* -1 and 200 take ten and two bytes.
MCInts == {-1, 0, 200}
\* 9 is no member of any of the enums, as a value cast from the game's memory may be.
MCEnums == {0, 9}
\* "", "A" and a text in the game's code page.
MCTexts == {<<>>, <<65>>, <<160>>}
\* None; field 15 with two bytes; field 1 as a fixed32, which no class has.
MCUnknown == {<<>>, <<122, 2, 8, 1>>, <<13, 8, 0, 0, 0>>}
=============================================================================
