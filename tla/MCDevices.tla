------------------------------ MODULE MCDevices ------------------------------
(***************************************************************************)
(* An instance of Devices for TLC.                                         *)
(***************************************************************************)
EXTENDS Devices

\* Delays of one to four periods, whole and broken, and so many in a row that they
\* pass the place where the counter restarts.
MCUsecs == {1, 2, 3, 6, 7}
MCTimes == {1, 2, 5}

\* Pins left as outputs or to another function.
MCLeftConfig == {512, 4 * 5}

\* Strings of up to four characters with line feeds at each place.
MCTexts == {<<>>, <<NUL>>} \cup UNION {[1 .. n -> {"a", "d", LF}] : n \in 1 .. 4}
=============================================================================
