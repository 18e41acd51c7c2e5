--------------------------------- MODULE Lzss ---------------------------------
(***************************************************************************)
(* What an LZSS compressor promises: code after code is emitted, and the   *)
(* decoder, given the codes so far, reproduces exactly the part of the     *)
(* input they stand for.                                                   *)
(***************************************************************************)
EXTENDS LzssCodes

VARIABLES
  data,  \* the input
  out,   \* the codes emitted
  taken  \* how many symbols of the input they stand for

------------------------------------------------------------------------------
LzssInit == data \in Seq(Symbols) /\ out = <<>> /\ taken = 0
LzssNext ==
  /\ UNCHANGED data
  /\ taken < Len(data) /\ taken' \in taken + 1 .. Len(data)
  /\ Len(out') = Len(out) + 1 /\ SubSeq(out', 1, Len(out)) = out
  /\ out'[Len(out')] \in Codes
  /\ lzssDecompress(out') = SubSeq(data, 1, taken')
LzssSpec == LzssInit /\ [][LzssNext]_<<data, out, taken>>
==============================================================================
