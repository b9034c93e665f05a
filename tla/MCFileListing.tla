--------------------------- MODULE MCFileListing ---------------------------
(* Small instances of FileListing.                                         *)
EXTENDS FileListing, TLC

CONSTANTS s1, s2, r1, r2, f1, f2

\* A directory, and one below it.
OneDir == {<<"docs">>}
TwoDirs == {<<"docs">>, <<"docs", "old">>}

\* The modes the code distinguishes: a public URL only matters for details.
ListModes == [index: BOOLEAN, details: {FALSE}, public: {FALSE}]
AllModes == ListModes \cup [index: BOOLEAN, details: {TRUE}, public: BOOLEAN]
RaceModes == {m \in ListModes : ~m.index}
=============================================================================
