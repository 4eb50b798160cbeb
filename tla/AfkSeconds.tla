----------------------------- MODULE AfkSeconds -----------------------------
(***************************************************************************)
(* What the daemon promises of its AFK record, whatever windows it keeps:  *)
(* a set of seconds.  A range is recorded whole or not at all, recording   *)
(* never loses a second, and only seconds older than a cutoff are ever     *)
(* forgotten.                                                              *)
(***************************************************************************)
EXTENDS Integers

CONSTANT Time  \* seconds of the wall clock

VARIABLE afk  \* the seconds recorded as away

Init == afk = {}

Record ==
  \E from, to \in Time : from <= to /\ afk' = afk \cup (from .. to)

\* Whole windows are deleted, so a second older than the cutoff may stay.
Forget ==
  \E cutoff \in Time :
    /\ afk' \subseteq afk
    /\ \A s \in afk \ afk' : s < cutoff

Next == Record \/ Forget

Spec == Init /\ [][Next]_afk
=============================================================================
