------------------------------ MODULE MCEncoding ------------------------------
\* Values for Encoding: numbers at the edges of their bytes, strings of every
\* length modulo three, arrays and maps of up to two entries, nested once.
EXTENDS Encoding

Numbers == {0, 1, 127, 128, 255, 256, 65535, 65536, 16777216, 2147483647}
Strings == {<<"string", 0, s>> : s \in UNION {[1 .. n -> {0, 65, 127}] : n \in 0 .. 3}}
Atoms == {<<t, n, <<>>>> : t \in {"ui", "ul"}, n \in {0, 128, 2147483647}}
         \union {<<"string", 0, s>> : s \in {<<>>, <<65>>, <<66, 67>>}}
Arrays == {<<"array", 0, s>> : s \in UNION {[1 .. n -> Atoms] : n \in 0 .. 2}}
Keys == {<<"string", 0, <<65>>>>, <<"string", 0, <<66, 67, 68>>>>}
Maps == {<<"map", 0, <<k, v>>>> : k \in Keys, v \in Atoms \union Arrays}
        \union {<<"map", 0, <<<<"string", 0, <<65>>>>, v, <<"string", 0, <<66>>>>, w>>>> :
                  v, w \in Atoms}
Samples == {<<t, n, <<>>>> : t \in {"ui", "ul"}, n \in Numbers}
           \union Strings \union Arrays \union Maps
           \union {<<"array", 0, <<m, a>>>> : m \in Arrays, a \in Atoms}
=============================================================================
