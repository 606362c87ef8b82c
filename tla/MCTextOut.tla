----------------------------- MODULE MCTextOut -----------------------------
(* Four font files: two of one family, one that fontconfig believes to have   *)
(* a character it has not, one for rare characters.  The characters lie at    *)
(* the ends of what takes one, two, three and four bytes, two of them in one  *)
(* page of the glyph cache, one beyond the cache.                             *)
EXTENDS TextOut

McChars == {65, 127, 2047, 2048, 65535, 65536}
McFiles == {"latin", "bold", "han", "rare"}
McFamily == [f \in McFiles |-> IF f = "bold" THEN "latin" ELSE f]
McCharset ==
    [f \in McFiles |-> CASE f = "latin" -> {65, 127}
                         [] f = "bold"  -> {65, 127, 65535}
                         [] f = "han"   -> {65, 2047, 2048}
                         [] f = "rare"  -> {2048, 65536}]
McDrawable == [McCharset EXCEPT !["han"] = {65, 2048}]
Kai == <<"k", "a", "i">>
McSorted == Kai :> <<"han", "latin", "bold", "rare">> @@ <<"n", "o", "n", "e">> :> <<>>
McFallback == <<"latin", "bold", "han">>

McStrings == {<<65>>, <<127, 2047>>, <<65536, 2048>>, <<65535, 65, 65>>}

\* Lines: with and without blanks, twice the same name, a comment, an empty line.
Line(indent, name, separator, value, rest) ==
    [indent |-> indent, name |-> name, separator |-> separator, value |-> value, rest |-> rest]
McSpaced == Line(<<" ">>, FontName, <<" ", "=", "\t">>, <<"b">>, <<" ">>)
McNames ==
    {Line(<<>>, FontName, <<"=">>, Kai, <<>>), McSpaced,
     Line(<<>>, FontName, <<"=">>, <<"a", "l", "o", "n", "g", "n", "a", "m", "e">>, <<>>)}
McSize == Line(<<" ", " ">>, FontSize, <<" ", "=", " ">>, <<"1", "6">>, <<>>)
McNotes == <<Line(<<>>, <<"#">>, <<" ">>, FontName, <<"=", "b">>),
             Line(<<>>, <<>>, <<>>, <<>>, <<>>),
             Line(<<>>, FontName, <<" ">>, <<"n", "o", "n", "e">>, <<>>),
             Line(<<>>, FontSize, <<"=">>, <<"9">>, <<"\t">>)>>
McHomes == {NoFile, McNotes} \union {<<a, b>> : a \in McNames, b \in {McSpaced, McSize}}
McSystems == {NoFile, <<Line(<<>>, FontSize, <<"=">>, <<"1", "2">>, <<>>)>>}
=============================================================================
