------------------------ MODULE DivergenceDetector ------------------------
(***************************************************************************)
(* What a session promises about divergence, and nothing of how: reports   *)
(* accumulate, and a check answers with the earliest tick about which two  *)
(* reports contradict each other and which no earlier check has answered   *)
(* with, or with None when there is no such tick.                          *)
(***************************************************************************)
EXTENDS Naturals

CONSTANTS Ticks, Peers, Hashes,
          None,       \* the answer of a check that found nothing new
          Unasked     \* no check has been made since the last report

VARIABLES reported,   \* set of <<tick, peer, hash>>
          announced,  \* ticks answered so far
          answer      \* the last answer since the last report

vars == <<reported, announced, answer>>

Init == reported = {} /\ announced = {} /\ answer = Unasked

Contradicted(t) ==
  \E r1, r2 \in reported : r1[1] = t /\ r2[1] = t /\ r1[3] # r2[3]

\* Reports are only ever added (one call may add two: a GGRS event).
Report ==
  /\ answer' = Unasked
  /\ UNCHANGED announced
  /\ reported \subseteq reported'
  /\ reported' \subseteq Ticks \X Peers \X Hashes

Announce(t) ==
  /\ answer' = t
  /\ announced' = announced \cup {t}
  /\ UNCHANGED reported
  /\ Contradicted(t) /\ t \notin announced
  /\ \A u \in Ticks \ announced : Contradicted(u) => t <= u

FindNothing ==
  /\ answer' = None
  /\ UNCHANGED <<announced, reported>>
  /\ \A u \in Ticks \ announced : ~Contradicted(u)

Next == Report \/ (\E t \in Ticks : Announce(t)) \/ FindNothing

Spec == Init /\ [][Next]_vars
============================================================================
