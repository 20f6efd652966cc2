------------------------------ MODULE MCLibrary ------------------------------
(* Bounded arguments for Library.                                          *)
EXTENDS Library

UpTo(S, n) == UNION {[1..k -> S] : k \in 0..n}

MCStrings == UpTo({1, 200}, 3)
MCDelimited == UpTo({1, 2, 3}, 5)
MCDelimiters == {<<2>>, <<2, 3>>, <<>>}

\* Lines from pieces: a blank, words, and commands.
Pieces == {<<32>>, <<32, 98>>, <<65>>, <<32, 100, 98>>, <<32, 103>>}
MCLines == {FlattenSeq(p) : p \in UpTo(Pieces, 5)} \cup
           {CMDS[n].name \o line : n \in DOMAIN CMDS,
                                   line \in {<<>>, <<32>>, <<32, 49, 102, 50>>}}

MCMods == UpTo({"0", "2", "5", "-", "+", " ", "#", "h", "l", "."}, 2) \cup
          {<<"0", "-", "5">>, <<"-", "1", "2">>, <<"0", "1", "2">>,
           <<"h", "h", "+">>, <<"+", "0", "5">>, <<".", "0", "5">>,
           <<"z", "j", "t">>, <<"l", "l", "5">>}

\* Extremes of the three widths.
MCNumbers == {0, 1, 9, 10, 2^(Char-1) - 1, 2^(Char-1), 2^Char, 2^(Short-1),
              2^(Long-1) - 1, 2^(Long-1), 2^Long - 1}

MCSurface == [width |-> 5, height |-> 4, stride |-> 6,
              pixels |-> [i \in -4..27 |-> "old"],
              fgcolor |-> "fg", bgcolor |-> "bg"]
MCCoords == 0..6 \cup {Word - 2, Word - 1}
MCTexts == UpTo({1, 2, 10}, 2) \cup {<<1, 2, 1, 2, 1>>, <<1, 10, 10, 2, 2>>}
MCNewlines == {10, 13}
MCChannels == {0, 7, 8, 131, 255}

\* A glyph with lit and dark pixels, and an empty one.
MCRom == [c \in 0..13 |-> IF c = 1 THEN {<<0, 0>>, <<1, 1>>} ELSE {}]

MCAddresses == {<<0, 0>>, <<3, 3>>, <<1, 2>>}
MCPayloads == {a \o <<0, 0>> \o b : a \in [1..2 -> 0..Octet-1],
                                    b \in UpTo(0..Octet-1, 2)}
===============================================================================
