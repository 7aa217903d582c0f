---------------------------- MODULE PieceChecker ----------------------------
(***************************************************************************)
(* The piece checker of one torrent of the disk manager: which blocks were *)
(* written, when a piece counts as complete, and what is reported about    *)
(* it.  The closures of execute_process_block hold the lock of the torrent,*)
(* so each is one step, with the write, the merge of the pending blocks,   *)
(* the check of the complete pieces and the report of the difference.      *)
(*                                                                         *)
(* A piece is a number of units of data.  disk[p] are the units of piece p *)
(* that hold what the metainfo describes; hashes are abstracted to whether *)
(* all of them do.  A block is the interval <<first, end>> of its units,   *)
(* without the end.                                                        *)
(***************************************************************************)
EXTENDS Integers, FiniteSets, Sequences, SequencesExt

CONSTANTS
  PieceLength,   \* units in a piece
  TotalLength,   \* units in the torrent
  BlockLengths,  \* the block lengths that peers use
  MaxPending     \* bound: blocks pending for a piece

ASSUME CheckerAssumption ==
  /\ PieceLength \in Nat \ {0}
  /\ TotalLength \in Nat \ {0}
  /\ BlockLengths \subseteq Nat \ {0}
  /\ MaxPending \in Nat

VARIABLES
  added,         \* the torrent is in the map
  disk,          \* correct units of each piece
  pending,       \* pending_blocks, sorted by offset
  old_states,
  reported,      \* piece states that the last operation reported
  io_failed,     \* the last check ended with a read error
  overlapped     \* pieces of which a block came that overlaps a pending one

vars == <<added, disk, pending, old_states, reported, io_failed, overlapped>>

-----------------------------------------------------------------------------
(* Geometry. *)

total_blocks == (TotalLength + PieceLength - 1) \div PieceLength

last_piece_size == TotalLength % PieceLength

Piece == 0 .. total_blocks - 1

PieceSize(p) ==
  IF p = total_blocks - 1 /\ last_piece_size # 0 THEN last_piece_size
  ELSE PieceLength

Units(p) == 0 .. PieceSize(p) - 1

Smaller(a, b) == IF a < b THEN a ELSE b

Larger(a, b) == IF a > b THEN a ELSE b

(* The blocks of piece p that peers ask for: it is cut from its start into *)
(* blocks of one length.                                                   *)
Blocks(p) ==
  {<<u, Smaller(u + n, PieceSize(p))>> :
     <<u, n>> \in {x \in Units(p) \X BlockLengths : x[1] % x[2] = 0}}

BlockUnits(b) == b[1] .. b[2] - 1

Good(p) == <<"Good", p>>

Bad(p) == <<"Bad", p>>

-----------------------------------------------------------------------------
(* Mutant: two blocks that touch are kept apart. *)
MergeOverlapping(a, b) ==
  IF b[1] >= a[1] /\ b[1] < a[2] THEN <<<<a[1], Larger(a[2], b[2])>>>>
  ELSE <<>>

(* The union of two blocks, if they overlap or touch, otherwise nothing. *)
merge_piece_messages(a, b) ==
  CASE b[1] >= a[1] /\ b[1] <= a[2] -> <<<<a[1], Larger(a[2], b[2])>>>>
    [] a[1] >= b[1] /\ a[1] <= b[2] -> <<<<b[1], Larger(a[2], b[2])>>>>
    [] OTHER -> <<>>

(* Merge the last two blocks until that fails or one is left. *)
merge_pieces(blocks) ==
  LET Step(b, acc) ==
        IF acc.stuck \/ acc.blocks = <<>>
        THEN [acc EXCEPT !.blocks = <<b>> \o @]
        ELSE LET merged == merge_piece_messages(b, Head(acc.blocks))
             IN  IF merged # <<>>
                 THEN [acc EXCEPT !.blocks = merged \o Tail(@)]
                 ELSE [blocks |-> <<b>> \o acc.blocks, stuck |-> TRUE]
  IN  FoldRight(Step, blocks, [blocks |-> <<>>, stuck |-> FALSE]).blocks

(* push, and the stable sort by offset with which merge_pieces begins. *)
add_pending_block(blocks, b) ==
  LET Before(x) == x[1] <= b[1]
      After(x)  == x[1] > b[1]
  IN  SelectSeq(blocks, Before) \o <<b>> \o SelectSeq(blocks, After)

BlockLength(b) == b[2] - b[1]

piece_is_complete(p, blocks) ==
  /\ Len(blocks) = 1
  /\ \/ BlockLength(blocks[1]) = PieceLength
     \/ p = total_blocks - 1 /\ BlockLength(blocks[1]) = last_piece_size

(* The hash of what the block spans is the expected hash of the piece. *)
HashMatches(p, b, d) == BlockUnits(b) = Units(p) /\ Units(p) \subseteq d[p]

(* Mutant: a piece is checked although it is known to be good. *)
CompletePieces(blocks, old) == {p \in Piece : piece_is_complete(p, blocks[p])}

(* The pieces that run_with_whole_pieces passes to its callback. *)
WholePieces(blocks, old) ==
  {p \in Piece : piece_is_complete(p, blocks[p]) /\ Good(p) \notin old}

(* calculate_diff on the blocks bs and the disk d: merge, and check every   *)
(* whole piece in some order until a read fails.  The states found are then *)
(* drained by run_with_diff, also after a failure; those of the initial     *)
(* check are reported only if they are good.                                *)
CalculateDiffAndReport(bs, d, old, ignore_bad, ok) ==
  LET merged == [p \in Piece |-> merge_pieces(bs[p])]
      whole  == WholePieces(merged, old)
  IN  \E checked \in SUBSET whole :
        LET new_states ==
              {IF HashMatches(p, merged[p][1], d) THEN Good(p) ELSE Bad(p) :
                 p \in checked}
        IN  /\ ok => checked = whole
            /\ ~ok => checked # whole
            /\ pending' = [p \in Piece |->
                             IF p \in checked THEN <<>> ELSE merged[p]]
            /\ old_states' = old \cup new_states
            /\ reported' = {s \in new_states : ignore_bad => s[1] = "Good"}
            /\ io_failed' = ~ok

-----------------------------------------------------------------------------
Init ==
  /\ added = FALSE
  /\ disk \in [Piece -> {{}, {0}} \cup {Units(p) : p \in Piece}]
  /\ \A p \in Piece : disk[p] \subseteq Units(p)
  /\ pending = [p \in Piece |-> <<>>]
  /\ old_states = {}
  /\ reported = {}
  /\ io_failed = FALSE
  /\ overlapped = {}

(* One block for each piece: fill_checker_state. *)
WholeBlocks == [p \in Piece |-> <<<<0, PieceSize(p)>>>>]

(* init_state of a torrent that is added; without a usable file, or when    *)
(* a read fails, the torrent is not added.                                  *)
AddTorrent ==
  /\ ~added
  /\ added' = TRUE
  /\ CalculateDiffAndReport(WholeBlocks, disk, {}, TRUE, TRUE)
  /\ UNCHANGED <<disk, overlapped>>

RemoveTorrent ==
  /\ added
  /\ added' = FALSE
  /\ pending' = [p \in Piece |-> <<>>]
  /\ old_states' = {}
  /\ reported' = {}
  /\ io_failed' = FALSE
  /\ overlapped' = {}
  /\ UNCHANGED disk

Written(p, units, correct) ==
  [disk EXCEPT ![p] = IF correct THEN @ \cup units ELSE @ \ units]

PendingUnits(p) ==
  UNION {BlockUnits(pending[p][i]) : i \in 1 .. Len(pending[p])}

(* A client hands the disk manager the blocks that it has received. *)
Arrives(p, b) ==
  /\ Len(pending[p]) < MaxPending
  /\ overlapped' = IF BlockUnits(b) \cap PendingUnits(p) = {} THEN overlapped
                   ELSE overlapped \cup {p}

(* Mutant: the check looks at the disk before the block is written. *)
ProcessBlockChecksFirst(p, b, correct, ok) ==
  /\ added /\ Arrives(p, b)
  /\ disk' = Written(p, BlockUnits(b), correct)
  /\ CalculateDiffAndReport([pending EXCEPT ![p] = add_pending_block(@, b)],
                            disk, old_states, FALSE, ok)
  /\ UNCHANGED added

(* A block is written and every piece that is now whole is checked. *)
ProcessBlock(p, b, correct, ok) ==
  /\ added /\ Arrives(p, b)
  /\ disk' = Written(p, BlockUnits(b), correct)
  /\ CalculateDiffAndReport([pending EXCEPT ![p] = add_pending_block(@, b)],
                            disk', old_states, FALSE, ok)
  /\ UNCHANGED added

(* A write that fails may have written a part of the block: the regions of  *)
(* the first of several files.  Nothing is pending and nothing is checked.  *)
ProcessBlockWriteFails(p, b, correct) ==
  /\ added /\ Arrives(p, b)
  /\ \E last \in b[1] .. b[2] - 1 :
       disk' = Written(p, b[1] .. last - 1, correct)
  /\ reported' = {}
  /\ UNCHANGED <<added, pending, old_states, io_failed>>

Next ==
  \/ AddTorrent
  \/ RemoveTorrent
  \/ \E p \in Piece : \E b \in Blocks(p), correct \in BOOLEAN :
       \/ \E ok \in BOOLEAN : ProcessBlock(p, b, correct, ok)
       \/ ProcessBlockWriteFails(p, b, correct)

Spec == Init /\ [][Next]_vars

-----------------------------------------------------------------------------
(* What FoundGoodPiece and FoundBadPiece say of a piece is so on the disk   *)
(* when they are sent, whatever was written, lost and merged before: the    *)
(* check reads the whole piece under the lock of the torrent.               *)
ReportsTrue ==
  \A p \in Piece :
    /\ Good(p) \in reported => disk[p] = Units(p)
    /\ Bad(p) \in reported => disk[p] # Units(p)

(* A piece all of whose units have arrived does not stay pending, in        *)
(* whatever order and lengths its blocks came, unless it is already good, a *)
(* read failed or a block came twice: it was merged and checked, the        *)
(* shorter last piece too.                                                  *)
CoveredIsChecked ==
  \A p \in Piece \ overlapped :
    PendingUnits(p) = Units(p) => io_failed \/ Good(p) \in old_states

(* A piece that was reported good is not reported again while the torrent   *)
(* stays added, neither as good nor as bad.                                 *)
GoodIsFinal ==
  [][added' /\ added =>
       \A p \in Piece :
         Good(p) \in old_states => reported' \cap {Good(p), Bad(p)} = {}]_vars
=============================================================================
