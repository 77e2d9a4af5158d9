----------------------------- MODULE LiveStream -----------------------------
(***************************************************************************)
(* What live mode promises about frames, and nothing of threads or         *)
(* connections: the game sends frames 1, 2, 3, ..., and viewers, taken     *)
(* together, receive some of them, each at most once and in order.         *)
(***************************************************************************)
EXTENDS Naturals

VARIABLES sent,      \* frames the game has sent
          shown      \* the last frame a viewer has received

Init == sent = 0 /\ shown = 0

Send == sent' = sent + 1 /\ UNCHANGED shown

\* Frames between the last one shown and this one are lost for good.
Show(f) ==
  /\ shown < f /\ f <= sent
  /\ shown' = f
  /\ UNCHANGED sent

Next == Send \/ \E f \in 1 .. sent : Show(f)

Spec == Init /\ [][Next]_<<sent, shown>>
============================================================================
