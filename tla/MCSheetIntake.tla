--------------------------- MODULE MCSheetIntake ---------------------------
(***************************************************************************)
(* SheetIntake on sheets of up to three columns whose headers are blank,   *)
(* repeated, or look like a made-up name, with title and blank rows, and   *)
(* on catalogs of two pages, some of whose repeated headers differ in what *)
(* stripping removes.                                                      *)
(***************************************************************************)
EXTENDS SheetIntake

A == <<"A">>
A1 == <<"A", 1>>
B == <<"B">>
Column == <<"column">>

\* A cell as it stands, padded, and an empty one other than None
Plainly(text) == [text |-> text, padded |-> FALSE]
Padded(text) == [text |-> text, padded |-> TRUE]
Empty == Plainly(Blank)

Texts(x, n) == [i \in 1..n |-> Plainly(<<x, i>>)]
Row(x) == Texts(x, 3)
Title == <<Plainly(<<"T">>), Null, Empty>>
BlankRow == <<Null, Empty, Padded(Blank)>>
Wide == [Texts("y", 4) EXCEPT ![2] = Null]
Short == <<Padded(<<"z", 1>>)>>

Sheets == {<< <<h, Row("x"), BlankRow, Wide, Short>> >> :
              h \in [1..3 -> {Null, Plainly(A), Plainly(A1), Plainly(B), Plainly(Column)}]}

Header == <<Plainly(A), Padded(B), Plainly(<<"C">>)>>
Holed == <<Plainly(A), Null, Plainly(<<"C">>)>>
Catalogs ==
    { << <<Header, Row("x")>>, <<Header, Row("y")>> >>,
      << <<>>, <<Header, Row("x")>>, <<Row("y")>>, <<Header>> >>,
      << <<Title, Header, Row("x")>>, <<Header, Row("y")>> >>,
      << <<Header, Row("x"), Header>>, <<Row("y")>> >>,
      << <<Header, Row("x")>>, <<Append(Header, Plainly(<<"D">>)), Row("y")>> >>,
      << <<Header, Row("x")>>, <<[Header EXCEPT ![2] = Plainly(B)], Row("y")>> >>,
      << <<Holed, Row("x")>>, <<Holed, Row("y")>> >>,
      << <<Holed, Row("x")>>, <<[Holed EXCEPT ![2] = Empty], Row("y")>> >>,
      << <<Header>> >>,
      <<>> }
MCFiles == Sheets \cup Catalogs
MCCells == UNION {ToSet(row) : row \in UNION {ToSet(table) : table \in UNION {ToSet(f) : f \in MCFiles}}}

MCFields == {"supplier_item_number", "description", "unit_price"}

MCScore(f, h) ==
    IF h \in {A, A1} THEN (IF f = "supplier_item_number" THEN 90 ELSE 80)
    ELSE IF h = B THEN (IF f = "unit_price" THEN 60 ELSE 85)
    ELSE IF h = <<"C">> THEN 90 ELSE 30
MCNoise(h) == h \in {<<"A", 2>>, Null}
=============================================================================
