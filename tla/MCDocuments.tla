----------------------------- MODULE MCDocuments -----------------------------
(***************************************************************************)
(* Instances of Documents for TLC.                                         *)
(***************************************************************************)
EXTENDS Documents

CONSTANTS a, b, w, x, y, z

\* A page and the same page with a line more, which begin with more lines
\* than MaxHair
Pages == {<<w, x, y, Blank>>, <<w, x, y, z, Blank>>}

\* A page that repeats a line
Repeated == {<<x, Blank>>, <<y, y, Blank>>}
=============================================================================
