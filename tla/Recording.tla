----------------------------- MODULE Recording -----------------------------
(***************************************************************************)
(* A session's recording on its way to the disk: frames go, in three       *)
(* pieces each, into a BufWriter that empties itself when a piece does not *)
(* fit; finish_recording flushes it; the operating system may refuse any   *)
(* write half way; the process may drop the session or die between any two *)
(* pieces.  After an error the game goes on calling, as nothing in the     *)
(* session stops it.                                                       *)
(***************************************************************************)
EXTENDS FoldbackFile, SequencesExt

CONSTANTS
  Frames,     \* TickHash and Metadata frames the game records
  Capacity,   \* cells the BufWriter holds (8 KiB in std)
  MaxCalls    \* bound: calls the game makes

\* The game's own frames, of cells that are numbers.
ASSUME FramesAssumption ==
  \A f \in Frames :
    \/ /\ f.type = TYPE_TICK_HASH
       /\ f = TickHash(f.tick, f.peer, f.hash)
       /\ f.tick \in Nat /\ f.peer \in Nat /\ f.hash \in Nat
    \/ /\ f.type = TYPE_METADATA
       /\ f = Metadata(f.key, f.value)
       /\ f.key \in Nat /\ f.value \in Seq(Nat)

ASSUME RecordingAssumption ==
  /\ Capacity \in Nat \ {0, 1}    \* room for the header and to spare
  /\ MaxCalls \in Nat

VARIABLES
  disk,       \* cells in the file
  buffer,     \* cells in the BufWriter
  call,       \* the call under way: None, a frame being written, or Flush
  todo,       \* its pieces still to write
  status,     \* the session is "open", or "gone" (dropped, or dead)
  calls,      \* calls made
  accepted,   \* history: frames whose write_to returned Ok
  finished,   \* history: the last call is a finish_recording that returned Ok
  torn        \* history: an error hit a frame of which a part was taken

vars == <<disk, buffer, call, todo, status, calls, accepted, finished, torn>>

None == [idle |-> TRUE]
Flush == [flush |-> TRUE]

\* SessionBuilder::build: the header goes into the BufWriter.
Init ==
  /\ disk = << >> /\ buffer = <<HeaderCell>>
  /\ call = None /\ todo = << >>
  /\ status = "open" /\ calls = 0
  /\ accepted = << >> /\ finished = FALSE /\ torn = FALSE

Begin(frame) ==
  /\ status = "open" /\ call = None /\ calls < MaxCalls
  /\ call' = frame
  /\ todo' = Pieces(frame)
  /\ calls' = calls + 1
  /\ finished' = FALSE
  /\ UNCHANGED <<disk, buffer, status, accepted, torn>>

\* Mutant: a write cut short is begun again from the first cell.
FlushBufFromStart(taken) ==
  /\ disk' = disk \o SubSeq(buffer, 1, taken)
  /\ buffer' = IF taken = Len(buffer) THEN << >> ELSE buffer

\* BufWriter::flush_buf: the cells the file took are gone from the buffer,
\* also when it did not take them all.
FlushBuf(taken) ==
  /\ disk' = disk \o SubSeq(buffer, 1, taken)
  /\ buffer' = SubSeq(buffer, taken + 1, Len(buffer))

\* Mutant: a piece that does not fit is taken into the buffer all the same.
AcceptUnchecked(piece) == disk' = disk /\ buffer' = buffer \o piece

\* BufWriter::write_all, when it succeeds: a piece that does not fit empties
\* the buffer first, and one as large as the buffer goes past it.
Accept(piece) ==
  LET fits  == Len(buffer) + Len(piece) <= Capacity
      kept  == IF fits THEN buffer ELSE << >>
      moved == IF fits THEN << >> ELSE buffer
  IN  IF Len(piece) >= Capacity
      THEN disk' = disk \o moved \o piece /\ buffer' = kept
      ELSE disk' = disk \o moved /\ buffer' = kept \o piece

\* And when it fails: the buffer could not be emptied, or a piece as large
\* as the buffer could not be written past it.
Refuse(piece) ==
  \/ /\ Len(buffer) + Len(piece) > Capacity
     /\ \E taken \in 0 .. Len(buffer) - 1 : FlushBuf(taken)
  \/ /\ Len(piece) >= Capacity
     /\ \E taken \in 0 .. Len(piece) - 1 :
          disk' = disk \o buffer \o SubSeq(piece, 1, taken)
     /\ buffer' = << >>

Idle == call' = None /\ todo' = << >>

WritePiece ==
  /\ status = "open" /\ todo # << >>
  /\ Accept(Head(todo))
  /\ todo' = Tail(todo)
  /\ IF Len(todo) > 1 THEN UNCHANGED <<call, accepted>>
     ELSE /\ accepted' = Append(accepted, call)
          /\ call' = IF call = EndOfStream THEN Flush ELSE None
  /\ UNCHANGED <<status, calls, finished, torn>>

FailPiece ==
  /\ status = "open" /\ todo # << >>
  /\ Refuse(Head(todo))
  /\ Idle
  /\ torn' = (torn \/ Len(todo) < Len(Pieces(call)))
  /\ UNCHANGED <<status, calls, accepted, finished>>

\* Mutant: the flush's error is dropped.
FinishUnflushed ==
  /\ status = "open" /\ call = Flush
  /\ \E taken \in 0 .. Len(buffer) : FlushBuf(taken)
  /\ finished' = TRUE
  /\ Idle
  /\ UNCHANGED <<status, calls, accepted, torn>>

\* finish_recording's w.flush()?.
FinishFlush ==
  /\ status = "open" /\ call = Flush
  /\ \E taken \in 0 .. Len(buffer) :
       FlushBuf(taken) /\ finished' = (taken = Len(buffer))
  /\ Idle
  /\ UNCHANGED <<status, calls, accepted, torn>>

\* Dropping the session drops the BufWriter, which flushes and tells nobody
\* when that fails.
DropSession ==
  /\ status = "open" /\ call = None
  /\ \E taken \in 0 .. Len(buffer) : disk' = disk \o SubSeq(buffer, 1, taken)
  /\ buffer' = << >>
  /\ status' = "gone"
  /\ UNCHANGED <<call, todo, calls, accepted, finished, torn>>

Crash ==
  /\ status = "open"
  /\ buffer' = << >> /\ status' = "gone"
  /\ Idle
  /\ UNCHANGED <<disk, calls, accepted, finished, torn>>

Next ==
  \/ \E frame \in Frames \cup {EndOfStream} : Begin(frame)
  \/ WritePiece
  \/ FailPiece
  \/ FinishFlush
  \/ DropSession
  \/ Crash

Spec == Init /\ [][Next]_vars

----------------------------------------------------------------------------
(* Properties *)

\* Every variable keeps its type, and the buffer its capacity.
TypeOK ==
  /\ disk \in Seq(Nat) /\ buffer \in Seq(Nat) /\ Len(buffer) <= Capacity
  /\ call \in Frames \cup {EndOfStream, None, Flush}
  /\ todo \in Seq(Seq(Nat))
  /\ status \in {"open", "gone"}
  /\ calls \in 0 .. MaxCalls
  /\ accepted \in Seq(Frames \cup {EndOfStream})
  /\ finished \in BOOLEAN /\ torn \in BOOLEAN

\* Whenever the process dies, and whatever writes failed between two frames,
\* the file reads without an error as the first frames that were recorded,
\* in their order: none is invented, none skipped, none altered.
AnyCutReadsAsPrefix ==
  ~torn /\ disk # << >> =>
    /\ ~Analysis(disk).malformed
    /\ IsPrefix(Analysis(disk).frames, accepted)

\* After a finish_recording that returned Ok every frame ever accepted is in
\* the file, whatever happens to the process next.
FinishedIsOnDisk ==
  ~torn /\ finished => Analysis(disk).frames = accepted

\* A drop, even one whose final flush fails, or a crash never turns what was
\* recorded into a verdict of its own: ci-check says "diverged" only if the
\* frames recorded do, and says "clean" after a finished recording only if
\* they do not.
VerdictIsSound ==
  ~torn =>
    /\ ci_check(disk) = 1 => Diverges(accepted)
    /\ finished /\ ci_check(disk) = 0 => ~Diverges(accepted)

\* Documented contract of the reader: a damaged file is an Err or a valid
\* prefix of what was recorded.
DamageIsErrOrPrefix ==
  disk # << >> => \/ Analysis(disk).malformed
                  \/ IsPrefix(Analysis(disk).frames, accepted)
============================================================================
