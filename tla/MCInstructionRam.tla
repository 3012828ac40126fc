--------------------------- MODULE MCInstructionRam ---------------------------
(***************************************************************************)
(* Boot streams of up to two blocks and a final one, for TLC.              *)
(***************************************************************************)
EXTENDS InstructionRam

CONSTANTS LoadedRegions, Counts

\* The block at place i of a stream; no two blocks of a stream overlap.  Only
\* the first can be of a size that misaligns the next header, and is skipped.
BlocksAt(i) ==
  [signed : {TRUE}, final : {FALSE}, fill : BOOLEAN, region : LoadedRegions,
   base : {10 * i}, count : Counts]
  \cup {[NoBlock EXCEPT !.signed = (i = 1), !.count = 3]}

FinalBlock ==
  [signed |-> TRUE, final |-> TRUE, fill |-> FALSE, region |-> "a", base |-> 30,
   count |-> 2]

BlockSequences == {<<FinalBlock>>}
  \cup {<<b, FinalBlock>> : b \in BlocksAt(1)}
  \cup (BlocksAt(1) \X BlocksAt(2) \X {FinalBlock})

\* Where the loader puts the i-th header of a sequence of blocks.
OffsetIn(s, i) ==
  LET offset[j \in 1..i] ==
        IF j = 1 THEN 0
        ELSE offset[j - 1] + HeaderSize + IF s[j - 1].fill THEN 0 ELSE s[j - 1].count
  IN offset[i]

MCStreams ==
  {[o \in {OffsetIn(s, i) : i \in DOMAIN s} |->
      s[CHOOSE i \in DOMAIN s : OffsetIn(s, i) = o]] : s \in BlockSequences}
=============================================================================
