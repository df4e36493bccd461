--------------------------- MODULE MCRunDirectory ---------------------------
(***************************************************************************)
(* Instances of RunDirectory for TLC: the roots and the command lines that *)
(* make two runs meet.                                                     *)
(***************************************************************************)
EXTENDS RunDirectory

CONSTANTS A, B, s1, dotdot, r1, r2

Line(o, w, i, k) == [out |-> o, work |-> w, id |-> i, inPlace |-> FALSE, keep |-> k]
InPlace(o, w, i, k) == [Line(o, w, i, k) EXCEPT !.inPlace = TRUE]

\* One output root with and without a second root for scratch, a second output
\* root sharing that scratch root, one run's scratch root being the other's
\* output root, both roots the same, and a supplied id that counting reaches;
\* and, each of them alone, in place on the first root, beside a run that is
\* named "working".
MCOption ==
    { Line(A, NoRoot, NoId, FALSE), Line(A, B, NoId, FALSE), Line(B, NoRoot, NoId, TRUE),
      Line(B, A, NoId, FALSE), Line(A, A, NoId, FALSE),
      Line(A, B, <<s1, 2>>, TRUE), Line(B, NoRoot, <<s1, 1>>, FALSE),
      Line(A, NoRoot, dotdot, FALSE), Line(A, NoRoot, Working, TRUE),
      InPlace(A, NoRoot, NoId, FALSE), InPlace(A, NoRoot, NoId, TRUE),
      InPlace(A, B, NoId, FALSE), InPlace(A, NoRoot, <<s1, 1>>, FALSE) }
=============================================================================
