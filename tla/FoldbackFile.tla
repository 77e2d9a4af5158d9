--------------------------- MODULE FoldbackFile ---------------------------
(***************************************************************************)
(* The bytes of a .foldback file: how a frame is laid out, what a reader   *)
(* makes of any sequence of bytes, and what `foldback ci-check` makes of   *)
(* what it read.                                                           *)
(*                                                                         *)
(* Scaled down: a field that takes several bytes in the file (a length, a  *)
(* tick, a peer id, a hash, a key, the header) takes one cell here.        *)
(* TickHash stands for the frames with a payload of fixed length, Metadata *)
(* for those that hold a length of their own.                              *)
(***************************************************************************)
EXTENDS Naturals, Sequences

HeaderCell == 70        \* MAGIC and what follows it
TYPE_TICK_HASH == 1
TYPE_METADATA == 32
TYPE_END_OF_STREAM == 255

TickHash(t, p, h) == [type |-> TYPE_TICK_HASH, tick |-> t, peer |-> p, hash |-> h]
Metadata(k, v) == [type |-> TYPE_METADATA, key |-> k, value |-> v]
EndOfStream == [type |-> TYPE_END_OF_STREAM]

\* Mutant: the peer before the tick, which decode_payload takes first.
EncodePeerFirst(frame) ==
  CASE frame.type = TYPE_TICK_HASH -> <<frame.peer, frame.tick, frame.hash>>
    [] frame.type = TYPE_METADATA  -> <<frame.key, Len(frame.value)>> \o frame.value
    [] OTHER                       -> << >>

encode_payload(frame) ==
  CASE frame.type = TYPE_TICK_HASH -> <<frame.tick, frame.peer, frame.hash>>
    [] frame.type = TYPE_METADATA  -> <<frame.key, Len(frame.value)>> \o frame.value
    [] OTHER                       -> << >>

\* Frame::write_to makes three write_all calls: type, length, payload.
Pieces(frame) ==
  LET payload == encode_payload(frame)
  IN  <<<<frame.type>>, <<Len(payload)>>, payload>>

----------------------------------------------------------------------------
(* FrameReader *)

\* decode_payload: a payload that is too short is malformed, what it has too
\* much is ignored.
Malformed(type, payload) ==
  \/ type = TYPE_TICK_HASH /\ Len(payload) < 3
  \/ type = TYPE_METADATA /\ (Len(payload) < 2 \/ Len(payload) < 2 + payload[2])
decode_payload(type, payload) ==
  CASE type = TYPE_TICK_HASH -> TickHash(payload[1], payload[2], payload[3])
    [] type = TYPE_METADATA  -> Metadata(payload[1], SubSeq(payload, 3, 2 + payload[2]))
    [] OTHER                 -> EndOfStream
Known(type) == type \in {TYPE_TICK_HASH, TYPE_METADATA, TYPE_END_OF_STREAM}

\* The frame at cell i: its payload, the cell after it, and whether a cell of
\* its type, length or payload is missing.
Payload(cells, i) == SubSeq(cells, i + 2, i + 1 + cells[i + 1])
After(cells, i) == i + 2 + cells[i + 1]
Truncated(cells, i) == i + 1 > Len(cells) \/ After(cells, i) > Len(cells) + 1

\* The frames an iteration yields, and whether it ends in an Err.
Yield(frames, malformed) == [frames |-> frames, malformed |-> malformed]

\* next_frame at cell i, before what the iteration yields after it.
Then(cells, i, rest) ==
  LET type == cells[i]
  IN  IF Malformed(type, Payload(cells, i)) THEN Yield(<< >>, TRUE)
      ELSE IF ~Known(type) THEN rest
      ELSE Yield(<<decode_payload(type, Payload(cells, i))>> \o rest.frames,
                 rest.malformed)

\* What iterating next_frame yields from each cell on: a missing cell ends it
\* as truncation, an unknown type is skipped by its length; after EndOfStream
\* it goes on.
ReadFrom(cells) ==
  LET From[i \in 1 .. Len(cells) + 1] ==
        IF Truncated(cells, i) THEN Yield(<< >>, FALSE)
        ELSE Then(cells, i, From[After(cells, i)])
  IN  From
ReadFrames(cells) == ReadFrom(cells)[1]

----------------------------------------------------------------------------
(* The command line *)

HasHeader(cells) == cells # << >> /\ cells[1] = HeaderCell

\* report::analyze's frames and error; a file without a header is an error.
Analysis(cells) ==
  IF HasHeader(cells) THEN ReadFrames(Tail(cells))
  ELSE Yield(<< >>, TRUE)

\* bisect::find_first_divergence finds one in these frames.
Diverges(frames) ==
  \E i, j \in DOMAIN frames :
    /\ frames[i].type = TYPE_TICK_HASH /\ frames[j].type = TYPE_TICK_HASH
    /\ frames[i].tick = frames[j].tick
    /\ frames[i].hash # frames[j].hash

\* The exit code of `foldback ci-check`.
ci_check(cells) ==
  IF Analysis(cells).malformed THEN 2
  ELSE IF Diverges(Analysis(cells).frames) THEN 1
  ELSE 0
============================================================================
