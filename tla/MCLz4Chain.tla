----------------------------- MODULE MCLz4Chain -----------------------------
EXTENDS Lz4Chain

MCMemory == 1 .. 380

\* A text that repeats itself at short and long distances.
Phrase == <<1, 2, 3, 4, 5, 6, 7, 8, 9, 10, 11, 12>>
Zeros(n) == [k \in 1 .. n |-> 0]

MCContent == [a \in MCMemory |-> IF a <= 30 THEN 1 + ((a - 1) % 12) ELSE 0]
MCDicts == {<<1, 30>>, <<1, 6>>}

MCAlone == {Zeros(13), Phrase \o Phrase \o <<7>>, Phrase \o Zeros(38), <<>>}
MCChunks == {Phrase \o <<0, 0, 0, 0, 0, 0>>, <<9, 9>> \o Phrase, <<5, 5, 5>>}

MCDamages == {<<1, 3, FALSE>>, <<1, 15, FALSE>>, <<4, 0, FALSE>>, <<3, 5, FALSE>>,
              <<5, 1, TRUE>>, <<7, 1, TRUE>>}
MCSettings == {<<9, FALSE>>, <<12, TRUE>>}

MCCaps(n) == {n \div 2 + 2, LZ4_compressBound(n)}
=============================================================================
