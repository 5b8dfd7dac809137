---------------------------- MODULE MCDataStorage ----------------------------
(***************************************************************************)
(* DataStorage on small instances.                                         *)
(***************************************************************************)
EXTENDS DataStorage

\* The user's visits to Russia after date 3.
MCVisitQueries ==
  {[from_date |-> 3, to_date |-> MaxTimestamp,
    country |-> "Russia", to_distance |-> 9]}

\* The marks men gave.
MCAverageQueries ==
  {[from_date |-> MinTimestamp, to_date |-> MaxTimestamp,
    from_age |-> MinTimestamp, to_age |-> MaxTimestamp, gender |-> "Male"]}

\* No call reads the answer of another, and the properties of hand-overs are not
\* about answers.
MCView == <<phase, containers, indexes>>
=============================================================================
