------------------------------ MODULE MCFramePath ------------------------------
(* Short strings and small buffers; frames of every kind the code tells apart, *)
(* among them one that is too long for a buffer and one with a broken string.  *)
EXTENDS FramePath

MCLookupType == <<65>>
MCSetAp == <<115>>

Lookup(type) == <<33, 7, 1, 1, 9, 254, 0, 1, 61>> \o type \o <<1, 42>>

Short(dst, type, data) == <<dst, 9, 1, 0, Len(data) + 5, 4, 4, type>> \o data
Long(dst, type, data) ==
    <<dst, 9, 2, 0, Len(data) + 13, 0, 0, 0, 0, 0, 0, dst, 9, 4, 4, type>> \o data

MCContents == {
    <<7, 7, 129>>,
    <<7, 9, 132>>,
    Short(5, 9, <<0, 253>>),
    Short(255, 2, Lookup(<<1, 65>>)),
    Short(255, 2, Lookup(<<200, 65>>)),
    Long(255, 2, Lookup(<<1, 65>>)),
    Short(255, 3, <<64, 0, 0, 0, 0, 0, 0, 0, 1, 115, 1, 97, 0>>),
    Short(5, 9, [i \in 1 .. 22 |-> 170]),
    <<5, 9, 1, 0, 12, 11, 4, 9, 0, 253, 1, 5, 1, 0, 2>>}

MCDatagrams == {
    <<7, 7, 129>>, <<5, 9, 1, 0, 2>>, <<5, 9, 1, 0, 5, 1>>, Short(5, 9, <<1, 0>>),
    Short(255, 9, [i \in 1 .. 21 |-> 0]), Short(255, 9, [i \in 1 .. 24 |-> 1]),
    <<5, 9, 1, 0, 26>> \o [i \in 1 .. 25 |-> 1]}

MCAccessPoints == {[name |-> <<88>>, crc32 |-> 0], [name |-> <<>>, crc32 |-> 511]}
=============================================================================
