------------------------------- MODULE LzssCodes -------------------------------
(***************************************************************************)
(* The codes of the LZSS format and their decoder (src/src/drivers/        *)
(* coolledux/wire.ts).  A code is a literal symbol or a copy of a stretch  *)
(* of the decoder's ring buffer.  How eight codes share a byte of flags    *)
(* and how a copy is packed in two bytes is left out: the positions and    *)
(* lengths of the format fit in the twelve and four bits they get.         *)
(***************************************************************************)
EXTENDS Integers, Sequences

CONSTANTS
  Symbols,   \* the bytes that occur in an input
  N,         \* size of the ring (512 in the code)
  F,         \* longest copy (18)
  THRESHOLD  \* longest stretch not worth a copy (2)
ASSUME LzssAssumption ==
  /\ N \in Nat /\ F \in Nat /\ THRESHOLD \in Nat
  /\ 0 < THRESHOLD /\ THRESHOLD < F /\ 2 * F <= N
  /\ Symbols \subseteq Nat /\ 0 \in Symbols

------------------------------------------------------------------------------
Literal(c) == [literal |-> c]
Copy(position, length) == [position |-> position, length |-> length]
Codes == {Literal(c) : c \in Symbols}
           \cup {Copy(p, k) : p \in 0 .. N - 1, k \in THRESHOLD + 1 .. F}

EmptyDecoder == [text |-> <<>>, textBuf |-> [i \in 0 .. N - 1 |-> 0], r |-> N - F]
Accepted(decoder, c) ==
  [text |-> Append(decoder.text, c), textBuf |-> [decoder.textBuf EXCEPT ![decoder.r] = c],
   r |-> (decoder.r + 1) % N]
\* lzssDecompress of one code: a copy reads what it has itself just written.
DecodedBy(decoder, code) ==
  IF "literal" \in DOMAIN code THEN Accepted(decoder, code.literal)
  ELSE LET copied[k \in 0 .. code.length] ==
             IF k = 0 THEN decoder
             ELSE Accepted(copied[k - 1], copied[k - 1].textBuf[(code.position + k - 1) % N])
       IN  copied[code.length]
lzssDecompress(codes) ==
  LET decoder[k \in 0 .. Len(codes)] ==
        IF k = 0 THEN EmptyDecoder ELSE DecodedBy(decoder[k - 1], codes[k])
  IN  decoder[Len(codes)].text

\* lzssCompressSafe: every symbol is a literal.
lzssCompressSafe(input) == [i \in 1 .. Len(input) |-> Literal(input[i])]
================================================================================
