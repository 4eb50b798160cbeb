----------------------------- MODULE MCCapAlerts -----------------------------
(***************************************************************************)
(* Small instances of CapAlerts for TLC.                                   *)
(***************************************************************************)
EXTENDS CapAlerts

CONSTANT g1

\* Of 3 bytes 50% is 2 rounded up, 80% and 95% are 3, a thirtieth is 1; of
\* 40 bytes a thirtieth is 2 and a half of it is out of reach.
OneAmount == {3}
TwoAmounts == {3, 40}

\* Two caps of one amount in one day, or one cap of two amounts that moves
\* between the interface and the machine in a month of two days.
MCNext ==
  /\ Next
  /\ day' > 0 => nextCap' <= 2
  /\ nextCap' > 2 => \A c \in caps' : c.bytes = 3

MCSpec == Init /\ [][MCNext]_vars
=============================================================================
