---------------------------- MODULE MCUiTimeline ----------------------------
EXTENDS UiTimeline

TH(t, p, h) == [type |-> "TickHash", tick |-> t, peer |-> p, hash |-> h]

\* Two peers that disagree at both ticks, the later tick first; and a peer
\* that changes its own report.
MCStreams ==
  {<<TH(2, 1, "a"), TH(2, 2, "b"), TH(1, 2, "a"), TH(1, 1, "b")>>,
   <<TH(1, 2, "b"), TH(1, 2, "a")>>}

\* One game, or two.
MCUrls == {<<1, 1>>, <<1, 2>>}

\* A recording that contradicts itself at 2 before 1.
MCRecordings ==
  {<<TH(2, 1, "a"), TH(2, 2, "b"), [type |-> "EntityHash"],
     TH(1, 2, "b"), TH(1, 1, "a"), [type |-> "EndOfStream"]>>}
=============================================================================
