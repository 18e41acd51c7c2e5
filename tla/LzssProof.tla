------------------------------ MODULE LzssProof ------------------------------
(***************************************************************************)
(* The compressor keeps its promise for every alphabet, every size of the  *)
(* ring that has room for two of the longest copies and every input.  The  *)
(* decoder after some codes is described first, then what each operation   *)
(* on the arrays makes of a tree; the invariant relates the ring, the      *)
(* tree, the longest match and the decoder to the input, and each step of  *)
(* the loops preserves it.                                                 *)
(***************************************************************************)
EXTENDS LzssTree, DisplayProof

------------------------------------------------------------------------------
(* The decoder.                                                            *)

\* What the decoder is after some codes.
DecodedTo(codes, decoder) == \E g : Decodes(g, codes) /\ g[Len(codes)] = decoder

\* A recursion on numbers has at most one solution.
LEMMA DecodesOnce ==
  ASSUME NEW codes, Len(codes) \in Nat, NEW g, NEW h, Decodes(g, codes), Decodes(h, codes)
  PROVE  g[Len(codes)] = h[Len(codes)]
<1>. DEFINE n == Len(codes)
            same == {k \in Nat : k <= n => g[k] = h[k]}
<1>0. \A k \in 0 .. n :
        /\ g[k] = IF k = 0 THEN EmptyDecoder ELSE DecodedBy(g[k - 1], codes[k])
        /\ h[k] = IF k = 0 THEN EmptyDecoder ELSE DecodedBy(h[k - 1], codes[k])
  <2>. SUFFICES ASSUME NEW k \in 0 .. n
                PROVE  /\ g[k] = IF k = 0 THEN EmptyDecoder ELSE DecodedBy(g[k - 1], codes[k])
                       /\ h[k] = IF k = 0 THEN EmptyDecoder ELSE DecodedBy(h[k - 1], codes[k])
    OBVIOUS
  <2>. QED
    BY DEF Decodes
<1>1. 0 \in same
  BY <1>0
<1>2. ASSUME NEW k \in Nat, k \in same PROVE k + 1 \in same
  <2>. SUFFICES ASSUME k + 1 <= n PROVE g[k + 1] = h[k + 1]
    OBVIOUS
  <2>1. k + 1 \in 0 .. n /\ k + 1 # 0 /\ (k + 1) - 1 = k /\ g[k] = h[k]
    BY <1>2
  <2>. QED
    BY <1>0, <2>1
<1>3. Nat \subseteq same
  <2>. HIDE DEF same
  <2>. QED
    BY <1>1, <1>2, SetInduction
<1>. QED
  BY <1>3

LEMMA DecodedText ==
  ASSUME NEW codes, Len(codes) \in Nat, NEW decoder, DecodedTo(codes, decoder)
  PROVE  lzssDecompress(codes) = decoder.text
<1>1. PICK g : Decodes(g, codes) /\ g[Len(codes)] = decoder
  BY DEF DecodedTo
<1>2. PICK h : h = (CHOOSE f : Decodes(f, codes))
  OBVIOUS
<1>3. Decodes(h, codes)
  BY <1>1, <1>2
<1>4. h[Len(codes)] = decoder
  BY <1>1, <1>3, DecodesOnce
<1>. QED
  BY <1>2, <1>4, DecompressDef

LEMMA NothingDecoded == DecodedTo(<<>>, EmptyDecoder)
<1>. DEFINE g == [k \in 0 .. Len(<<>>) |-> EmptyDecoder]
<1>1. Decodes(g, <<>>)
  BY DEF Decodes
<1>. QED
  BY <1>1 DEF DecodedTo

LEMMA NextDecoded ==
  ASSUME NEW A, NEW codes \in Seq(A), NEW code \in A, NEW decoder, DecodedTo(codes, decoder)
  PROVE  DecodedTo(Append(codes, code), DecodedBy(decoder, code))
<1>. DEFINE n == Len(codes)
            more == Append(codes, code)
<1>1. PICK g : Decodes(g, codes) /\ g[n] = decoder
  BY DEF DecodedTo
<1>2. n \in Nat /\ Len(more) = n + 1 /\ more[n + 1] = code /\ \A k \in 1 .. n : more[k] = codes[k]
  OBVIOUS
<1>3. \A k \in 0 .. n : g[k] = IF k = 0 THEN EmptyDecoder ELSE DecodedBy(g[k - 1], codes[k])
  <2>. SUFFICES ASSUME NEW k \in 0 .. n
                PROVE  g[k] = IF k = 0 THEN EmptyDecoder ELSE DecodedBy(g[k - 1], codes[k])
    OBVIOUS
  <2>. QED
    BY <1>1 DEF Decodes
<1>. DEFINE h == [k \in 0 .. n + 1 |-> IF k <= n THEN g[k] ELSE DecodedBy(decoder, code)]
<1>. HIDE DEF more
<1>4. ASSUME NEW k \in 0 .. n + 1
      PROVE  h[k] = IF k = 0 THEN EmptyDecoder ELSE DecodedBy(h[k - 1], more[k])
  <2>1. CASE k <= n
    <3>1. CASE k = 0
      BY <1>2, <1>3, <2>1, <3>1
    <3>2. CASE k # 0
      <4>1. k \in 1 .. n /\ k - 1 \in 0 .. n /\ k - 1 <= n
        BY <1>2, <2>1, <3>2
      <4>2. h[k] = g[k] /\ h[k - 1] = g[k - 1] /\ more[k] = codes[k]
        BY <1>2, <4>1
      <4>. QED
        BY <1>3, <2>1, <3>2, <4>2
    <3>. QED
      BY <3>1, <3>2
  <2>2. CASE k = n + 1
    <3>1. h[k] = DecodedBy(decoder, code) /\ h[k - 1] = decoder /\ more[k] = code /\ k # 0
      BY <1>1, <1>2, <2>2
    <3>. QED
      BY <3>1
  <2>. QED
    BY <1>2, <2>1, <2>2
<1>5. Decodes(h, more)
  <2>. HIDE DEF h
  <2>1. h = [k \in 0 .. n + 1 |-> h[k]]
    BY DEF h
  <2>. QED
    BY <1>2, <1>4, <2>1, Zenon DEF Decodes
<1>6. h[Len(more)] = DecodedBy(decoder, code)
  BY <1>2
<1>. QED
  BY <1>5, <1>6 DEF DecodedTo, more

\* Positions in the ring.
Wrap(x) == IF x < N THEN x ELSE x - N
Ahead(base, x) == IF x >= base THEN x - base ELSE x - base + N
Behind(base, x) == IF x < base THEN base - x ELSE base - x + N
\* The symbol at a place of the input; zeros come before it.
Symbol(i) == IF i \in 1 .. Len(data) THEN data[i] ELSE 0

LEMMA Sizes ==
  /\ N \in Nat /\ F \in Nat /\ THRESHOLD \in Nat /\ Symbols \subseteq Nat /\ 0 \in Symbols
  /\ 0 < THRESHOLD /\ THRESHOLD < F /\ 1 < F /\ 2 * F <= N /\ F + F <= N /\ 3 < N
BY LzssAssumption

\* The remainder of what is less than two rounds.
LEMMA Wrapped == ASSUME NEW x \in Nat, x < N + N PROVE x % N = Wrap(x)
<1>1. N \in Nat /\ 0 < N
  BY Sizes
<1>2. CASE x < N
  BY <1>1, <1>2 DEF Wrap
<1>3. CASE ~(x < N)
  <2>1. x % N = (x - N) % N
    BY <1>1, <1>3
  <2>. QED
    BY <1>1, <1>3, <2>1 DEF Wrap
<1>. QED
  BY <1>2, <1>3

\* The decoder has reproduced a part of the input, and its ring ends with it.
DecoderAt(decoder, base, c) ==
  /\ DOMAIN decoder = {"text", "textBuf", "r"}
  /\ decoder = [text |-> decoder.text, textBuf |-> decoder.textBuf, r |-> decoder.r]
  /\ c \in 0 .. Len(data) /\ decoder.text = SubSeq(data, 1, c)
  /\ base \in 0 .. N - 1 /\ decoder.r = base
  /\ decoder.textBuf \in [0 .. N - 1 -> Symbols]
  /\ \A x \in 0 .. N - 1 : decoder.textBuf[x] = Symbol(c + 1 - Behind(base, x))

LEMMA DecoderStarts ==
  ASSUME data \in Seq(Symbols) PROVE DecoderAt(EmptyDecoder, N - F, 0)
<1>1. SubSeq(data, 1, 0) = <<>>
  BY SubSeqProperties
<1>2. N - F \in 0 .. N - 1 /\ 0 \in 0 .. Len(data)
  BY Sizes
<1>3. ASSUME NEW x \in 0 .. N - 1 PROVE Symbol(0 + 1 - Behind(N - F, x)) = 0
  <2>1. Behind(N - F, x) \in Int /\ 0 + 1 - Behind(N - F, x) < 1
    BY Sizes DEF Behind
  <2>. QED
    BY <2>1 DEF Symbol
<1>. QED
  BY <1>1, <1>2, <1>3, Sizes DEF DecoderAt, EmptyDecoder

LEMMA AcceptedAt ==
  ASSUME data \in Seq(Symbols), NEW decoder, NEW base, NEW c, DecoderAt(decoder, base, c),
         c < Len(data)
  PROVE  DecoderAt(Accepted(decoder, data[c + 1]), Wrap(base + 1), c + 1)
<1>. DEFINE next == Accepted(decoder, data[c + 1])
<1>1. /\ c \in Nat /\ c + 1 \in 1 .. Len(data) /\ data[c + 1] \in Symbols /\ Len(data) \in Nat
      /\ base \in 0 .. N - 1 /\ decoder.r = base
  BY DEF DecoderAt
<1>2. /\ next.text = Append(decoder.text, data[c + 1])
      /\ next.textBuf = [decoder.textBuf EXCEPT ![base] = data[c + 1]]
      /\ next.r = (base + 1) % N
      /\ DOMAIN next = {"text", "textBuf", "r"}
      /\ next = [text |-> next.text, textBuf |-> next.textBuf, r |-> next.r]
  BY <1>1 DEF Accepted
<1>3. next.r = Wrap(base + 1) /\ Wrap(base + 1) \in 0 .. N - 1
  <2>1. (base + 1) % N = Wrap(base + 1)
    BY <1>1, Sizes, Wrapped
  <2>. QED
    BY <1>1, <1>2, <2>1, Sizes DEF Wrap
<1>4. next.text = SubSeq(data, 1, c + 1)
  <2>1. decoder.text = SubSeq(data, 1, c)
    BY DEF DecoderAt
  <2>2. Append(SubSeq(data, 1, c), data[c + 1]) = SubSeq(data, 1, c + 1)
    BY <1>1
  <2>. QED
    BY <1>2, <2>1, <2>2
<1>5. next.textBuf \in [0 .. N - 1 -> Symbols]
  BY <1>1, <1>2 DEF DecoderAt
<1>6. ASSUME NEW x \in 0 .. N - 1
      PROVE  next.textBuf[x] = Symbol(c + 1 + 1 - Behind(Wrap(base + 1), x))
  <2>1. CASE x = base
    <3>1. next.textBuf[x] = data[c + 1]
      BY <1>1, <1>2, <2>1 DEF DecoderAt
    <3>2. c + 1 + 1 - Behind(Wrap(base + 1), x) = c + 1
      BY <1>1, <2>1, Sizes DEF Behind, Wrap
    <3>. QED
      BY <1>1, <3>1, <3>2 DEF Symbol
  <2>2. CASE x # base
    <3>1. next.textBuf[x] = Symbol(c + 1 - Behind(base, x))
      BY <1>1, <1>2, <2>2 DEF DecoderAt
    <3>2. c + 1 + 1 - Behind(Wrap(base + 1), x) = c + 1 - Behind(base, x)
      BY <1>1, <2>2, Sizes DEF Behind, Wrap
    <3>. QED
      BY <3>1, <3>2
  <2>. QED
    BY <2>1, <2>2
<1>7. c + 1 \in 0 .. Len(data)
  BY <1>1
<1>8. DecoderAt(next, Wrap(base + 1), c + 1)
  <2>. HIDE DEF next
  <2>. QED
    BY <1>2, <1>3, <1>4, <1>5, <1>6, <1>7 DEF DecoderAt
<1>. QED
  BY <1>8

\* A copy is a recursion as well.
Copies(g, decoder, position, length) ==
  g = [k \in 0 .. length |->
         IF k = 0 THEN decoder
         ELSE Accepted(g[k - 1], g[k - 1].textBuf[(position + k - 1) % N])]

LEMMA CopyDef ==
  ASSUME NEW decoder, NEW position, NEW length
  PROVE  DecodedBy(decoder, Copy(position, length))
           = (CHOOSE g : Copies(g, decoder, position, length))[length]
<1>1. /\ "literal" \notin DOMAIN Copy(position, length)
      /\ Copy(position, length).position = position /\ Copy(position, length).length = length
  BY DEF Copy
<1>. QED
  BY <1>1 DEF DecodedBy, Copies

\* Copying symbols that are those of the input goes on reproducing the input.
LEMMA CopyContinues ==
  ASSUME data \in Seq(Symbols), NEW decoder, NEW base, NEW c, DecoderAt(decoder, base, c),
         NEW position \in 0 .. N - 1, NEW length \in Nat, length <= N, c + length <= Len(data),
         \A k \in 1 .. length : Symbol(c + k) = Symbol(c + k - Behind(base, position)),
         NEW g, Copies(g, decoder, position, length)
  PROVE  DecoderAt(g[length], Wrap(base + length), c + length)
<1>. DEFINE fine == {k \in Nat : k <= length => DecoderAt(g[k], Wrap(base + k), c + k)}
<1>0. c \in Nat /\ base \in 0 .. N - 1 /\ Len(data) \in Nat
  BY DEF DecoderAt
<1>1. g[0] = decoder
  BY DEF Copies
<1>2. \A k \in 1 .. length : g[k] = Accepted(g[k - 1], g[k - 1].textBuf[(position + k - 1) % N])
  <2>. SUFFICES ASSUME NEW k \in 1 .. length
                PROVE  g[k] = Accepted(g[k - 1], g[k - 1].textBuf[(position + k - 1) % N])
    OBVIOUS
  <2>1. k \in 0 .. length /\ k # 0
    OBVIOUS
  <2>. QED
    BY <2>1 DEF Copies
<1>3. 0 \in fine
  <2>1. Wrap(base + 0) = base /\ c + 0 = c
    BY <1>0, Sizes DEF Wrap
  <2>. QED
    BY <1>1, <2>1
<1>4. ASSUME NEW k \in Nat, k \in fine PROVE k + 1 \in fine
  <2>. SUFFICES ASSUME k + 1 <= length PROVE DecoderAt(g[k + 1], Wrap(base + (k + 1)), c + (k + 1))
    OBVIOUS
  <2>. DEFINE here == Wrap(base + k)
              from == Wrap(position + k)
  <2>1. DecoderAt(g[k], here, c + k)
    BY <1>4
  <2>2. (position + (k + 1) - 1) % N = from /\ from \in 0 .. N - 1
    <3>1. position + (k + 1) - 1 = position + k /\ position + k \in Nat /\ position + k < N + N
      BY Sizes
    <3>2. (position + k) % N = from
      BY <3>1, Wrapped
    <3>. QED
      BY <3>1, <3>2, Sizes DEF Wrap
  <2>3. Behind(here, from) = Behind(base, position) /\ Behind(base, position) \in Int
    BY <1>0, Sizes DEF Behind, Wrap
  <2>4. g[k].textBuf[from] = Symbol(c + k + 1 - Behind(here, from))
    BY <2>1, <2>2 DEF DecoderAt
  <2>5. Symbol(c + (k + 1)) = Symbol(c + (k + 1) - Behind(base, position))
    BY <2>2
  <2>6. Symbol(c + (k + 1)) = data[(c + k) + 1]
    BY <1>0 DEF Symbol
  <2>7. g[k].textBuf[from] = data[(c + k) + 1]
    <3>1. c + k + 1 - Behind(here, from) = c + (k + 1) - Behind(base, position)
      BY <1>0, <2>3
    <3>. QED
      BY <2>4, <2>5, <2>6, <3>1
  <2>8. g[k + 1] = Accepted(g[k], data[(c + k) + 1])
    <3>1. k + 1 \in 1 .. length /\ (k + 1) - 1 = k
      OBVIOUS
    <3>2. g[k + 1] = Accepted(g[k], g[k].textBuf[(position + (k + 1) - 1) % N])
      BY <1>2, <3>1
    <3>. QED
      BY <2>2, <2>7, <3>2
  <2>9. c + k < Len(data)
    BY <1>0
  <2>10. DecoderAt(g[k + 1], Wrap(here + 1), (c + k) + 1)
    <3>. HIDE DEF here
    <3>. QED
      BY <2>1, <2>8, <2>9, AcceptedAt
  <2>11. Wrap(here + 1) = Wrap(base + (k + 1)) /\ (c + k) + 1 = c + (k + 1)
    BY <1>0, Sizes DEF Wrap
  <2>. QED
    BY <2>10, <2>11
<1>5. Nat \subseteq fine
  <2>. HIDE DEF fine
  <2>. QED
    BY <1>3, <1>4, SetInduction
<1>. QED
  BY <1>5

\* The recursion of a copy has a solution.
LEMMA CopyExists ==
  ASSUME data \in Seq(Symbols), NEW decoder, NEW base, NEW c, DecoderAt(decoder, base, c),
         NEW position \in 0 .. N - 1, NEW length \in Nat
  PROVE  \E g : Copies(g, decoder, position, length)
<1>. DEFINE D == [text : Seq(Symbols), textBuf : [0 .. N - 1 -> Symbols], r : 0 .. N - 1]
            step == [k \in 1 .. length |->
                       [x \in D |-> Accepted(x, x.textBuf[(position + k - 1) % N])]]
<1>1. decoder \in D
  <2>1. decoder.text \in Seq(Symbols)
    BY DEF DecoderAt
  <2>. QED
    BY <2>1 DEF DecoderAt
<1>2. ASSUME NEW x \in D, NEW k \in 1 .. length
      PROVE  Accepted(x, x.textBuf[(position + k - 1) % N]) \in D
  <2>1. N \in Nat /\ 0 < N /\ x.r + 1 \in Nat /\ position + k - 1 \in Nat
    BY Sizes
  <2>2. (x.r + 1) % N \in 0 .. N - 1 /\ (position + k - 1) % N \in 0 .. N - 1
    BY <2>1
  <2>3. x.textBuf[(position + k - 1) % N] \in Symbols
    BY <2>2
  <2>. HIDE DEF D
  <2>4. ASSUME NEW y \in Symbols PROVE Accepted(x, y) \in D
    <3>1. Append(x.text, y) \in Seq(Symbols)
      BY DEF D
    <3>2. [x.textBuf EXCEPT ![x.r] = y] \in [0 .. N - 1 -> Symbols]
      BY DEF D
    <3>. QED
      BY <2>2, <3>1, <3>2 DEF Accepted, D
  <2>. QED
    BY <2>3, <2>4
<1>. HIDE DEF D
<1>3. StepsOn(length, D, step)
  BY <1>2 DEF StepsOn
<1>4. PICK g : Iterates(g, length, D, decoder, step)
  <2>. HIDE DEF step
  <2>. QED
    BY <1>1, <1>3, RecursionExists
<1>5. ASSUME NEW k \in 0 .. length
      PROVE  g[k] = IF k = 0 THEN decoder
                    ELSE Accepted(g[k - 1], g[k - 1].textBuf[(position + k - 1) % N])
  <2>1. CASE k = 0
    BY <1>4, <2>1 DEF Iterates
  <2>2. CASE k # 0
    <3>1. k \in 1 .. length /\ k - 1 \in 0 .. length /\ g[k - 1] \in D
      BY <1>4, <1>5, <2>2 DEF Iterates
    <3>. QED
      BY <1>4, <2>2, <3>1 DEF Iterates
  <2>. QED
    BY <2>1, <2>2
<1>6. g = [k \in 0 .. length |-> g[k]]
  BY <1>4 DEF Iterates
<1>7. Copies(g, decoder, position, length)
  BY <1>5, <1>6, Zenon DEF Copies
<1>. QED
  BY <1>7

LEMMA CopiedAt ==
  ASSUME data \in Seq(Symbols), NEW decoder, NEW base, NEW c, DecoderAt(decoder, base, c),
         NEW position \in 0 .. N - 1, NEW length \in Nat, length <= N, c + length <= Len(data),
         \A k \in 1 .. length : Symbol(c + k) = Symbol(c + k - Behind(base, position))
  PROVE  DecoderAt(DecodedBy(decoder, Copy(position, length)), Wrap(base + length), c + length)
<1>1. \E g : Copies(g, decoder, position, length)
  BY CopyExists
<1>2. PICK g : g = (CHOOSE f : Copies(f, decoder, position, length))
  OBVIOUS
<1>3. Copies(g, decoder, position, length)
  BY <1>1, <1>2
<1>4. DecodedBy(decoder, Copy(position, length)) = g[length]
  BY <1>2, CopyDef
<1>. QED
  BY <1>3, <1>4, CopyContinues

------------------------------------------------------------------------------
(* The search tree.                                                        *)

Positions == 0 .. N - 1
Roots == {Root(c) : c \in Symbols}
\* The strings that are in the tree.
Strings(t) == {x \in Positions : t.dad[x] # NIL}
Nodes(t) == Strings(t) \cup Roots
Initial(buf, x) == IF x > N THEN x - N - 1 ELSE buf[x]

Arrays(t) ==
  /\ DOMAIN t = {"lson", "rson", "dad"}
  /\ t = [lson |-> t.lson, rson |-> t.rson, dad |-> t.dad]
  /\ t.lson \in [0 .. N -> 0 .. N] /\ t.rson \in [(0 .. N) \cup Roots -> 0 .. N]
  /\ t.dad \in [0 .. N -> (0 .. N) \cup Roots]
\* Fathers and sons agree.
SonOfItsDad(t) ==
  \A x \in Strings(t) :
    /\ t.dad[x] \in Nodes(t)
    /\ t.rson[t.dad[x]] = x \/ (t.dad[x] \in Strings(t) /\ t.lson[t.dad[x]] = x)
DadOfRight(t) ==
  \A x \in Nodes(t) :
    t.rson[x] # NIL => t.rson[x] \in Strings(t) /\ t.dad[t.rson[x]] = x
DadOfLeft(t) ==
  \A x \in Strings(t) :
    /\ t.lson[x] # NIL => t.lson[x] \in Strings(t) /\ t.dad[t.lson[x]] = x
    /\ t.lson[x] = t.rson[x] => t.lson[x] = NIL
\* There are no cycles, and strings below a root begin with its symbol.
Ranked(t, rank) ==
  /\ rank \in [(0 .. N) \cup Roots -> Int]
  /\ \A x \in Strings(t) : rank[t.dad[x]] < rank[x]
Headed(t, buf) == \A x \in Strings(t) : Initial(buf, t.dad[x]) = buf[x]
IsTree(t, buf, rank) ==
  /\ Arrays(t) /\ SonOfItsDad(t) /\ DadOfRight(t) /\ DadOfLeft(t)
  /\ Ranked(t, rank) /\ Headed(t, buf)

LEMMA RootsBeyond ==
  /\ \A c \in Symbols : Root(c) \in Nat /\ Root(c) > N /\ Root(c) \in Roots
  /\ \A x \in Roots : x \in Nat /\ x > N /\ x \notin 0 .. N /\ x # NIL /\ x \notin Positions
  /\ \A x \in Positions : x \in 0 .. N /\ x # NIL /\ x \in Nat /\ ~(x > N)
  /\ NIL = N /\ NIL \in 0 .. N /\ NIL \notin Positions
BY Sizes DEF Root, Roots, NIL, Positions

LEMMA Family ==
  ASSUME NEW t, NEW buf, NEW rank, IsTree(t, buf, rank)
  PROVE  /\ Strings(t) \subseteq Positions /\ Nodes(t) \subseteq (0 .. N) \cup Roots
         /\ \A x \in Strings(t) :
              /\ t.dad[x] \in Nodes(t) /\ t.dad[x] # x
              /\ t.dad[t.dad[x]] # x \/ t.dad[x] \in Roots
              /\ t.lson[x] # x /\ t.rson[x] # x
              /\ t.lson[x] = NIL \/ (t.lson[x] \in Strings(t) /\ t.dad[t.lson[x]] = x)
              /\ t.rson[x] = NIL \/ (t.rson[x] \in Strings(t) /\ t.dad[t.rson[x]] = x)
<1>1. Strings(t) \subseteq Positions /\ Nodes(t) \subseteq (0 .. N) \cup Roots
  BY RootsBeyond DEF Strings, Nodes
<1>2. ASSUME NEW x \in Strings(t)
      PROVE  /\ t.dad[x] \in Nodes(t) /\ t.dad[x] # x
             /\ rank[t.dad[x]] < rank[x] /\ rank[t.dad[x]] \in Int /\ rank[x] \in Int
  <2>1. t.dad[x] \in Nodes(t)
    BY DEF IsTree, SonOfItsDad
  <2>2. x \in (0 .. N) \cup Roots /\ t.dad[x] \in (0 .. N) \cup Roots
    BY <1>1, <2>1, RootsBeyond
  <2>3. rank[t.dad[x]] < rank[x] /\ rank[t.dad[x]] \in Int /\ rank[x] \in Int
    BY <2>2 DEF IsTree, Ranked
  <2>. QED
    BY <2>1, <2>3
<1>3. ASSUME NEW x \in Strings(t), t.dad[x] \notin Roots PROVE t.dad[t.dad[x]] # x
  <2>1. t.dad[x] \in Strings(t)
    BY <1>2, <1>3 DEF Nodes
  <2>. QED
    BY <1>2, <2>1
<1>4. ASSUME NEW x \in Strings(t)
      PROVE  /\ t.lson[x] = NIL \/ (t.lson[x] \in Strings(t) /\ t.dad[t.lson[x]] = x)
             /\ t.rson[x] = NIL \/ (t.rson[x] \in Strings(t) /\ t.dad[t.rson[x]] = x)
  <2>1. t.lson[x] = NIL \/ (t.lson[x] \in Strings(t) /\ t.dad[t.lson[x]] = x)
    BY DEF IsTree, DadOfLeft
  <2>2. x \in Nodes(t)
    BY DEF Nodes
  <2>3. t.rson[x] = NIL \/ (t.rson[x] \in Strings(t) /\ t.dad[t.rson[x]] = x)
    BY <2>2 DEF IsTree, DadOfRight
  <2>. QED
    BY <2>1, <2>3
<1>5. ASSUME NEW x \in Strings(t) PROVE x # NIL
  BY <1>1, RootsBeyond
<1>. QED
  BY <1>1, <1>2, <1>3, <1>4, <1>5

\* A string joins at a free place.
LEMMA AttachKeeps ==
  ASSUME NEW t, NEW buf, NEW rank, IsTree(t, buf, rank), NEW at \in Positions,
         at \notin Strings(t), t.lson[at] = NIL, t.rson[at] = NIL,
         p \in Nodes(t), p \in Roots => cmp >= 0, Below(t) = NIL, Initial(buf, p) = buf[at]
  PROVE  /\ IsTree(Attached(t, at), buf, [rank EXCEPT ![at] = rank[p] + 1])
         /\ Strings(Attached(t, at)) = Strings(t) \cup {at}
<1>. DEFINE u == Attached(t, at)
            deep == [rank EXCEPT ![at] = rank[p] + 1]
<1>0. /\ Strings(t) \subseteq Positions /\ Nodes(t) \subseteq (0 .. N) \cup Roots
      /\ p # at /\ p # NIL /\ p \in (0 .. N) \cup Roots /\ at \in 0 .. N /\ at # NIL
      /\ p \notin Roots => p \in Strings(t)
  BY Family, RootsBeyond DEF Nodes
<1>1. /\ DOMAIN u = {"lson", "rson", "dad"}
      /\ u.lson = IF cmp >= 0 THEN t.lson ELSE [t.lson EXCEPT ![p] = at]
      /\ u.rson = IF cmp >= 0 THEN [t.rson EXCEPT ![p] = at] ELSE t.rson
      /\ u.dad = [t.dad EXCEPT ![at] = p]
      /\ u = [lson |-> u.lson, rson |-> u.rson, dad |-> u.dad]
  BY DEF Attached
<1>. HIDE DEF u
<1>2. Arrays(u)
  <2>1. Arrays(t)
    BY DEF IsTree
  <2>. QED
    BY <1>0, <1>1, <2>1 DEF Arrays
<1>3. /\ u.dad[at] = p /\ \A x \in 0 .. N : x # at => u.dad[x] = t.dad[x]
      /\ \A x \in 0 .. N : u.lson[x] = IF x = p /\ ~(cmp >= 0) THEN at ELSE t.lson[x]
      /\ \A x \in (0 .. N) \cup Roots :
           u.rson[x] = IF x = p /\ cmp >= 0 THEN at ELSE t.rson[x]
  <2>1. Arrays(t)
    BY DEF IsTree
  <2>. QED
    BY <1>0, <1>1, <2>1 DEF Arrays
<1>4. Strings(u) = Strings(t) \cup {at}
  BY <1>0, <1>3, RootsBeyond DEF Strings
<1>5. IF cmp >= 0 THEN t.rson[p] = NIL ELSE t.lson[p] = NIL
  BY DEF Below
<1>6. SonOfItsDad(u)
  <2>. SUFFICES ASSUME NEW x \in Strings(u)
                PROVE  /\ u.dad[x] \in Nodes(u)
                       /\ u.rson[u.dad[x]] = x \/ (u.dad[x] \in Strings(u) /\ u.lson[u.dad[x]] = x)
    BY DEF SonOfItsDad
  <2>1. CASE x = at
    <3>1. u.dad[x] = p /\ p \in Nodes(u) /\ p \in (0 .. N) \cup Roots
      BY <1>0, <1>3, <1>4, <2>1 DEF Nodes
    <3>2. CASE cmp >= 0
      BY <1>3, <2>1, <3>1, <3>2
    <3>3. CASE ~(cmp >= 0)
      <4>1. p \in Strings(t) /\ p \in 0 .. N
        BY <1>0, <3>3, RootsBeyond
      <4>. QED
        BY <1>3, <1>4, <2>1, <3>1, <3>3, <4>1
    <3>. QED
      BY <3>2, <3>3
  <2>2. CASE x # at
    <3>1. x \in Strings(t) /\ x \in 0 .. N /\ x # NIL /\ u.dad[x] = t.dad[x]
      BY <1>0, <1>3, <1>4, <2>2, RootsBeyond
    <3>2. /\ t.dad[x] \in Nodes(t)
          /\ t.rson[t.dad[x]] = x \/ (t.dad[x] \in Strings(t) /\ t.lson[t.dad[x]] = x)
      BY <3>1 DEF IsTree, SonOfItsDad
    <3>3. t.dad[x] \in (0 .. N) \cup Roots /\ t.dad[x] \in Nodes(u)
      BY <1>0, <1>4, <3>2 DEF Nodes
    <3>4. CASE t.rson[t.dad[x]] = x
      <4>1. ~(t.dad[x] = p /\ cmp >= 0)
        BY <1>5, <3>1, <3>4
      <4>. QED
        BY <1>3, <3>1, <3>3, <3>4, <4>1
    <3>5. CASE t.dad[x] \in Strings(t) /\ t.lson[t.dad[x]] = x
      <4>1. ~(t.dad[x] = p /\ ~(cmp >= 0)) /\ t.dad[x] \in 0 .. N
        BY <1>0, <1>5, <3>1, <3>5, RootsBeyond
      <4>. QED
        BY <1>3, <1>4, <3>1, <3>3, <3>5, <4>1
    <3>. QED
      BY <3>2, <3>4, <3>5
  <2>. QED
    BY <2>1, <2>2
<1>7. DadOfRight(u)
  <2>. SUFFICES ASSUME NEW x \in Nodes(u), u.rson[x] # NIL
                PROVE  u.rson[x] \in Strings(u) /\ u.dad[u.rson[x]] = x
    BY DEF DadOfRight
  <2>1. x \in (0 .. N) \cup Roots
    BY <1>0, <1>4 DEF Nodes
  <2>2. CASE x = at
    BY <1>0, <1>3, <2>1, <2>2
  <2>3. CASE x # at
    <3>1. x \in Nodes(t)
      BY <1>4, <2>3 DEF Nodes
    <3>2. t.rson[x] # NIL => t.rson[x] \in Strings(t) /\ t.dad[t.rson[x]] = x
      BY <3>1 DEF IsTree, DadOfRight
    <3>. QED
      BY <1>0, <1>3, <1>4, <2>1, <3>1, <3>2, RootsBeyond
  <2>. QED
    BY <2>2, <2>3
<1>8. DadOfLeft(u)
  <2>. SUFFICES ASSUME NEW x \in Strings(u)
                PROVE  /\ u.lson[x] # NIL => u.lson[x] \in Strings(u) /\ u.dad[u.lson[x]] = x
                       /\ u.lson[x] = u.rson[x] => u.lson[x] = NIL
    BY DEF DadOfLeft
  <2>1. x \in 0 .. N
    BY <1>0, <1>4, RootsBeyond
  <2>2. CASE x = at
    BY <1>0, <1>3, <2>1, <2>2
  <2>3. CASE x # at
    <3>1. x \in Strings(t)
      BY <1>4, <2>3
    <3>2. /\ t.lson[x] # NIL => t.lson[x] \in Strings(t) /\ t.dad[t.lson[x]] = x
          /\ t.lson[x] = t.rson[x] => t.lson[x] = NIL
          /\ t.rson[x] # NIL => t.rson[x] \in Strings(t)
      BY <3>1 DEF IsTree, DadOfLeft, DadOfRight, Nodes
    <3>3. t.lson[x] # at /\ t.rson[x] # at
      BY <1>0, <3>2
    <3>4. CASE x = p
      <4>1. t.lson[x] # NIL => u.dad[t.lson[x]] = x /\ t.lson[x] \in Strings(u)
        BY <1>0, <1>3, <1>4, <3>2, RootsBeyond
      <4>2. CASE cmp >= 0
        <5>1. u.lson[x] = t.lson[x] /\ u.rson[x] = at
          BY <1>3, <2>1, <3>4, <4>2
        <5>. QED
          BY <3>3, <4>1, <5>1
      <4>3. CASE ~(cmp >= 0)
        <5>1. u.lson[x] = at /\ u.rson[x] = t.rson[x]
          BY <1>3, <2>1, <3>4, <4>3
        <5>. QED
          BY <1>3, <1>4, <3>3, <3>4, <5>1
      <4>. QED
        BY <4>2, <4>3
    <3>5. CASE x # p
      <4>1. u.lson[x] = t.lson[x] /\ u.rson[x] = t.rson[x]
        BY <1>3, <2>1, <3>5
      <4>2. t.lson[x] # NIL => u.dad[t.lson[x]] = x /\ t.lson[x] \in Strings(u)
        BY <1>0, <1>3, <1>4, <3>2, RootsBeyond
      <4>. QED
        BY <3>2, <4>1, <4>2
    <3>. QED
      BY <3>4, <3>5
  <2>. QED
    BY <2>2, <2>3
<1>9. Ranked(u, deep)
  <2>1. Ranked(t, rank)
    BY DEF IsTree
  <2>2. deep \in [(0 .. N) \cup Roots -> Int] /\ rank[p] \in Int
    BY <1>0, <2>1 DEF Ranked
  <2>3. ASSUME NEW x \in Strings(u) PROVE deep[u.dad[x]] < deep[x]
    <3>1. CASE x = at
      BY <1>0, <1>3, <2>1, <2>2, <3>1 DEF Ranked
    <3>2. CASE x # at
      <4>1. x \in Strings(t) /\ x \in 0 .. N /\ u.dad[x] = t.dad[x]
        BY <1>0, <1>3, <1>4, <3>2, RootsBeyond
      <4>2. t.dad[x] \in Nodes(t) /\ t.dad[x] # at
        <5>1. t.dad[x] \in Nodes(t)
          BY <4>1, Family
        <5>. QED
          BY <5>1, RootsBeyond DEF Nodes
      <4>. QED
        BY <1>0, <2>1, <3>2, <4>1, <4>2 DEF Ranked
    <3>. QED
      BY <3>1, <3>2
  <2>. HIDE DEF deep
  <2>. QED
    BY <2>2, <2>3 DEF Ranked
<1>10. Headed(u, buf)
  <2>. SUFFICES ASSUME NEW x \in Strings(u) PROVE Initial(buf, u.dad[x]) = buf[x]
    BY DEF Headed
  <2>1. CASE x = at
    BY <1>3, <2>1
  <2>2. CASE x # at
    BY <1>0, <1>3, <1>4, <2>2, RootsBeyond DEF IsTree, Headed
  <2>. QED
    BY <2>1, <2>2
<1>. QED
  BY <1>2, <1>4, <1>6, <1>7, <1>8, <1>9, <1>10 DEF IsTree, u

\* What leaving a place to another node, or to none, does to the arrays.
LEMMA Updated ==
  ASSUME NEW A, NEW B, NEW f \in [A -> B], NEW a, NEW b \in B
  PROVE  /\ [f EXCEPT ![a] = b] \in [A -> B]
         /\ \A x \in A : [f EXCEPT ![a] = b][x] = IF x = a THEN b ELSE f[x]
OBVIOUS

LEMMA SucceededArrays ==
  ASSUME NEW t, Arrays(t), NEW node \in Positions, NEW heir \in 0 .. N, node # heir,
         NEW above, above = t.dad[node], above \in Positions \/ above \in Roots
  PROVE  LET u == Succeeded(t, node, heir)
             right == t.rson[above] = node
         IN  /\ DOMAIN u = {"lson", "rson", "dad"}
             /\ u = [lson |-> u.lson, rson |-> u.rson, dad |-> u.dad]
             /\ above \in Positions \/ right => Arrays(u)
             /\ u.dad[node] = NIL /\ u.dad[heir] = above
             /\ \A x \in 0 .. N : x # node /\ x # heir => u.dad[x] = t.dad[x]
             /\ \A x \in 0 .. N :
                  u.lson[x] = IF x = above /\ ~right THEN heir ELSE t.lson[x]
             /\ \A x \in (0 .. N) \cup Roots :
                  u.rson[x] = IF x = above /\ right THEN heir ELSE t.rson[x]
<1>. DEFINE u == Succeeded(t, node, heir)
            right == t.rson[above] = node
<1>0. above \in (0 .. N) \cup Roots /\ node \in 0 .. N /\ (above \in Positions => above \in 0 .. N)
  BY RootsBeyond
<1>1. /\ DOMAIN u = {"lson", "rson", "dad"}
      /\ u.lson = IF right THEN t.lson ELSE [t.lson EXCEPT ![above] = heir]
      /\ u.rson = IF right THEN [t.rson EXCEPT ![above] = heir] ELSE t.rson
      /\ u.dad = [t.dad EXCEPT ![heir] = above, ![node] = NIL]
      /\ u = [lson |-> u.lson, rson |-> u.rson, dad |-> u.dad]
  BY DEF Succeeded
<1>. HIDE DEF u, right
<1>2. /\ u.dad[node] = NIL /\ u.dad[heir] = above
      /\ \A x \in 0 .. N : x # node /\ x # heir => u.dad[x] = t.dad[x]
      /\ u.dad \in [0 .. N -> (0 .. N) \cup Roots]
  <2>. DEFINE places == (0 .. N) \cup Roots
              numbers == 0 .. N
              first == [t.dad EXCEPT ![heir] = above]
  <2>1. /\ t.dad \in [numbers -> places] /\ above \in places /\ NIL \in places
        /\ node \in numbers /\ heir \in numbers
    BY <1>0, RootsBeyond DEF Arrays
  <2>2. u.dad = [first EXCEPT ![node] = NIL]
    BY <1>1
  <2>. HIDE DEF places, numbers, first
  <2>3. /\ first \in [numbers -> places]
        /\ \A x \in numbers : first[x] = IF x = heir THEN above ELSE t.dad[x]
    BY <2>1, Updated DEF first
  <2>4. /\ u.dad \in [numbers -> places]
        /\ \A x \in numbers : u.dad[x] = IF x = node THEN NIL ELSE first[x]
    BY <2>1, <2>2, <2>3, Updated
  <2>5. u.dad[node] = NIL /\ u.dad[heir] = above
    BY <2>1, <2>3, <2>4
  <2>. QED
    BY <2>3, <2>4, <2>5 DEF places, numbers
<1>3. \A x \in 0 .. N : u.lson[x] = IF x = above /\ ~right THEN heir ELSE t.lson[x]
  BY <1>1 DEF Arrays
<1>4. \A x \in (0 .. N) \cup Roots : u.rson[x] = IF x = above /\ right THEN heir ELSE t.rson[x]
  BY <1>1 DEF Arrays
<1>5. above \in Positions \/ right => Arrays(u)
  <2>1. u.rson \in [(0 .. N) \cup Roots -> 0 .. N]
    BY <1>1 DEF Arrays
  <2>2. u.lson \in [0 .. N -> 0 .. N]
    <3>1. t.lson \in [0 .. N -> 0 .. N]
      BY DEF Arrays
    <3>2. [t.lson EXCEPT ![above] = heir] \in [0 .. N -> 0 .. N]
      <4>. DEFINE numbers == 0 .. N
      <4>1. t.lson \in [numbers -> numbers] /\ heir \in numbers
        BY <3>1
      <4>. HIDE DEF numbers
      <4>2. [t.lson EXCEPT ![above] = heir] \in [numbers -> numbers]
        BY <4>1, Updated
      <4>. QED
        BY <4>2 DEF numbers
    <3>. QED
      BY <1>1, <3>1, <3>2
  <2>. QED
    BY <1>1, <1>2, <2>1, <2>2 DEF Arrays
<1>6. right <=> t.rson[above] = node
  BY DEF right
<1>. QED
  BY <1>1, <1>2, <1>3, <1>4, <1>5 DEF u, right

\* A string with at most one son leaves the tree.
LEMMA RemoveKeeps ==
  ASSUME NEW t, NEW buf, NEW rank, IsTree(t, buf, rank), NEW node \in Strings(t), NEW heir,
         \/ heir = t.lson[node] /\ t.rson[node] = NIL
         \/ heir = t.rson[node] /\ t.lson[node] = NIL
  PROVE  /\ IsTree(Succeeded(t, node, heir), buf, rank)
         /\ Strings(Succeeded(t, node, heir)) = Strings(t) \ {node}
<1>. DEFINE above == t.dad[node]
            right == t.rson[above] = node
            u == Succeeded(t, node, heir)
            rest == Strings(t) \ {node}
            nodes == rest \cup Roots
<1>1. /\ Strings(t) \subseteq Positions /\ node \in Positions /\ node # NIL
      /\ Positions \subseteq 0 .. N /\ nodes \subseteq (0 .. N) \cup Roots
      /\ nodes \subseteq Nodes(t) /\ rest \subseteq 0 .. N /\ node \notin nodes
  BY Family, RootsBeyond DEF Nodes
<1>2. heir = NIL \/ (heir \in rest /\ t.dad[heir] = node)
  BY Family
<1>3. above \in nodes /\ above # node /\ (~right => above \in rest /\ t.lson[above] = node)
  <2>1. above \in Nodes(t) /\ above # node /\ (right \/ (above \in Strings(t) /\ t.lson[above] = node))
    BY Family DEF IsTree, SonOfItsDad
  <2>. QED
    BY <2>1 DEF Nodes
<1>4. Arrays(t)
  BY DEF IsTree
<1>5. /\ Arrays(u) /\ u.dad[node] = NIL /\ u.dad[heir] = above
      /\ \A x \in rest : u.dad[x] = IF x = heir THEN above ELSE t.dad[x]
      /\ \A x \in rest : u.lson[x] = IF x = above /\ ~right THEN heir ELSE t.lson[x]
      /\ \A x \in nodes : u.rson[x] = IF x = above /\ right THEN heir ELSE t.rson[x]
  <2>1. heir \in 0 .. N /\ node # heir /\ (above \in Positions \/ above \in Roots)
    BY <1>1, <1>2, <1>3, RootsBeyond
  <2>2. above \in Positions \/ right
    BY <1>1, <1>3
  <2>. HIDE DEF above, right, rest, nodes
  <2>3. /\ above \in Positions \/ right => Arrays(u)
        /\ u.dad[node] = NIL /\ u.dad[heir] = above
        /\ \A x \in 0 .. N : x # node /\ x # heir => u.dad[x] = t.dad[x]
        /\ \A x \in 0 .. N : u.lson[x] = IF x = above /\ ~right THEN heir ELSE t.lson[x]
        /\ \A x \in (0 .. N) \cup Roots :
             u.rson[x] = IF x = above /\ right THEN heir ELSE t.rson[x]
    BY <1>1, <1>4, <2>1, SucceededArrays DEF above, right
  <2>. HIDE DEF u
  <2>4. \A x \in rest : x # node
    BY DEF rest
  <2>. QED
    BY <1>1, <2>2, <2>3, <2>4
<1>. HIDE DEF u
<1>6. Strings(u) = rest /\ Nodes(u) = nodes
  <2>1. ASSUME NEW x \in Positions PROVE u.dad[x] # NIL <=> x \in rest
    <3>1. CASE x = node
      BY <1>5, <3>1
    <3>2. CASE x = heir
      <4>1. x \in rest /\ above # NIL
        BY <1>1, <1>2, <1>3, <3>2, RootsBeyond
      <4>. QED
        BY <1>5, <3>2, <4>1
    <3>3. CASE x # node /\ x # heir
      <4>1. u.dad[x] = t.dad[x]
        <5>1. heir \in 0 .. N /\ node # heir /\ (above \in Positions \/ above \in Roots)
          BY <1>1, <1>2, <1>3, RootsBeyond
        <5>2. \A y \in 0 .. N : y # node /\ y # heir => u.dad[y] = t.dad[y]
          BY <1>1, <1>4, <5>1, SucceededArrays DEF u
        <5>. QED
          BY <1>1, <3>3, <5>2
      <4>. QED
        BY <3>3, <4>1 DEF Strings
    <3>. QED
      BY <3>1, <3>2, <3>3
  <2>2. Strings(u) = rest
    BY <1>1, <2>1 DEF Strings
  <2>. QED
    BY <2>2 DEF Nodes
<1>7. ASSUME NEW x \in rest
      PROVE  /\ t.dad[x] \in Nodes(t)
             /\ t.rson[t.dad[x]] = x \/ (t.dad[x] \in Strings(t) /\ t.lson[t.dad[x]] = x)
             /\ t.dad[x] = node => x = heir
  <2>1. /\ t.dad[x] \in Nodes(t)
        /\ t.rson[t.dad[x]] = x \/ (t.dad[x] \in Strings(t) /\ t.lson[t.dad[x]] = x)
    BY DEF IsTree, SonOfItsDad
  <2>2. x # NIL
    BY <1>1, RootsBeyond
  <2>. QED
    BY <2>1, <2>2
<1>8. ASSUME NEW x \in nodes
      PROVE  t.rson[x] = NIL \/ (t.rson[x] \in Strings(t) /\ t.dad[t.rson[x]] = x)
  BY <1>1 DEF IsTree, DadOfRight
<1>9. ASSUME NEW x \in rest
      PROVE  /\ t.lson[x] = NIL \/ (t.lson[x] \in Strings(t) /\ t.dad[t.lson[x]] = x)
             /\ t.lson[x] = t.rson[x] => t.lson[x] = NIL
  BY DEF IsTree, DadOfLeft
<1>. HIDE DEF above, right
<1>10. (right <=> t.rson[above] = node) /\ above = t.dad[node]
  BY DEF above, right
<1>11. SonOfItsDad(u)
  <2>. SUFFICES ASSUME NEW x \in rest
                PROVE  /\ u.dad[x] \in nodes
                       /\ u.rson[u.dad[x]] = x \/ (u.dad[x] \in rest /\ u.lson[u.dad[x]] = x)
    BY <1>6 DEF SonOfItsDad
  <2>1. CASE x = heir
    BY <1>3, <1>5, <2>1
  <2>2. CASE x # heir
    <3>1. u.dad[x] = t.dad[x] /\ t.dad[x] # node /\ t.dad[x] \in nodes
      BY <1>5, <1>7, <2>2 DEF Nodes
    <3>2. t.dad[x] \in Strings(t) => t.dad[x] \in rest
      BY <3>1
    <3>3. x # node /\ t.dad[x] = above => t.lson[above] = x \/ ~right
      BY <1>7, <1>10
    <3>4. CASE t.rson[t.dad[x]] = x
      BY <1>5, <1>10, <3>1, <3>4
    <3>5. CASE t.dad[x] \in Strings(t) /\ t.lson[t.dad[x]] = x
      BY <1>3, <1>5, <1>10, <3>1, <3>2, <3>5
    <3>. QED
      BY <1>7, <3>4, <3>5
  <2>. QED
    BY <2>1, <2>2
<1>12. DadOfRight(u)
  <2>. SUFFICES ASSUME NEW x \in nodes, u.rson[x] # NIL
                PROVE  u.rson[x] \in rest /\ u.dad[u.rson[x]] = x
    BY <1>6 DEF DadOfRight
  <2>1. CASE x = above /\ right
    BY <1>2, <1>5, <2>1
  <2>2. CASE ~(x = above /\ right)
    <3>1. u.rson[x] = t.rson[x] /\ t.rson[x] \in Strings(t) /\ t.dad[t.rson[x]] = x
      BY <1>5, <1>8, <2>2
    <3>2. t.rson[x] # node
      BY <1>10, <2>2, <3>1
    <3>3. t.rson[x] # heir
      BY <1>1, <1>2, <3>1
    <3>. QED
      BY <1>5, <3>1, <3>2, <3>3
  <2>. QED
    BY <2>1, <2>2
<1>13. DadOfLeft(u)
  <2>. SUFFICES ASSUME NEW x \in rest
                PROVE  /\ u.lson[x] # NIL => u.lson[x] \in rest /\ u.dad[u.lson[x]] = x
                       /\ u.lson[x] = u.rson[x] => u.lson[x] = NIL
    BY <1>6 DEF DadOfLeft
  <2>0. x \in nodes /\ x # node
    OBVIOUS
  <2>1. CASE x = above /\ ~right
    <3>1. u.lson[x] = heir /\ u.rson[x] = t.rson[x]
      BY <1>5, <2>0, <2>1
    <3>2. t.rson[x] = NIL \/ t.dad[t.rson[x]] = x
      BY <1>8, <2>0
    <3>. QED
      BY <1>2, <1>5, <2>0, <2>1, <3>1, <3>2
  <2>2. CASE ~(x = above /\ ~right)
    <3>1. u.lson[x] = t.lson[x]
      BY <1>5, <2>2
    <3>2. t.lson[x] # NIL => t.lson[x] \in rest /\ t.lson[x] # heir
      <4>. SUFFICES ASSUME t.lson[x] # NIL PROVE t.lson[x] \in rest /\ t.lson[x] # heir
        OBVIOUS
      <4>1. t.lson[x] \in Strings(t) /\ t.dad[t.lson[x]] = x
        BY <1>9
      <4>2. t.lson[x] # node
        BY <1>9, <1>10, <2>2, <4>1
      <4>. QED
        BY <1>2, <2>0, <4>1, <4>2
    <3>3. t.lson[x] # NIL => u.dad[t.lson[x]] = x
      BY <1>5, <1>9, <3>2
    <3>4. u.rson[x] = heir \/ u.rson[x] = t.rson[x]
      BY <1>5, <2>0
    <3>. QED
      BY <1>9, <3>1, <3>2, <3>3, <3>4
  <2>. QED
    BY <2>1, <2>2
<1>14. Ranked(u, rank)
  <2>1. ASSUME NEW x \in Strings(t)
        PROVE  rank[t.dad[x]] < rank[x] /\ rank[x] \in Int /\ rank[t.dad[x]] \in Int
    <3>1. x \in (0 .. N) \cup Roots /\ t.dad[x] \in (0 .. N) \cup Roots
      BY <1>1, Family
    <3>. QED
      BY <3>1 DEF IsTree, Ranked
  <2>2. ASSUME NEW x \in rest PROVE rank[u.dad[x]] < rank[x]
    <3>1. CASE x = heir
      <4>1. t.dad[x] = node /\ u.dad[x] = above
        BY <1>1, <1>2, <1>5, <3>1, RootsBeyond
      <4>2. rank[above] < rank[node] /\ rank[node] < rank[x]
        BY <1>10, <2>1, <4>1
      <4>3. rank[above] \in Int /\ rank[node] \in Int /\ rank[x] \in Int
        BY <1>10, <2>1
      <4>. QED
        BY <4>1, <4>2, <4>3
    <3>2. CASE x # heir
      BY <1>5, <2>1, <3>2
    <3>. QED
      BY <3>1, <3>2
  <2>3. rank \in [(0 .. N) \cup Roots -> Int]
    BY DEF IsTree, Ranked
  <2>. QED
    BY <1>6, <2>2, <2>3 DEF Ranked
<1>15. Headed(u, buf)
  <2>. SUFFICES ASSUME NEW x \in rest PROVE Initial(buf, u.dad[x]) = buf[x]
    BY <1>6 DEF Headed
  <2>1. CASE x = heir
    <3>1. t.dad[x] = node /\ u.dad[x] = above
      BY <1>1, <1>2, <1>5, <2>1, RootsBeyond
    <3>2. Initial(buf, above) = buf[node] /\ Initial(buf, node) = buf[x]
      BY <1>10, <3>1 DEF IsTree, Headed
    <3>3. Initial(buf, node) = buf[node]
      BY <1>1, RootsBeyond DEF Initial
    <3>. QED
      BY <3>1, <3>2, <3>3
  <2>2. CASE x # heir
    BY <1>5, <2>2 DEF IsTree, Headed
  <2>. QED
    BY <2>1, <2>2
<1>. QED
  BY <1>5, <1>6, <1>11, <1>12, <1>13, <1>14, <1>15 DEF IsTree, u

\* A tree in which one string has the place that another one has in t.
Instead(node, at, x) == IF x = node THEN at ELSE x
Renamed(t, u, node, at) ==
  /\ Arrays(u)
  /\ \A x \in Positions : u.dad[x] # NIL <=> x \in (Strings(t) \ {node}) \cup {at}
  /\ \A x \in Strings(t) :
       /\ u.dad[Instead(node, at, x)] = Instead(node, at, t.dad[x])
       /\ u.lson[Instead(node, at, x)] = Instead(node, at, t.lson[x])
  /\ \A x \in Nodes(t) : u.rson[Instead(node, at, x)] = Instead(node, at, t.rson[x])

LEMMA RenamedKeeps ==
  ASSUME NEW t, NEW buf, NEW rank, IsTree(t, buf, rank), NEW node \in Strings(t),
         NEW at \in Positions, at \notin Strings(t), buf[at] = buf[node],
         NEW u, Renamed(t, u, node, at)
  PROVE  /\ IsTree(u, buf, [rank EXCEPT ![at] = rank[node]])
         /\ Strings(u) = (Strings(t) \ {node}) \cup {at}
<1>. DEFINE R(x) == Instead(node, at, x)
            level == [rank EXCEPT ![at] = rank[node]]
<1>1. /\ Strings(t) \subseteq Positions /\ node \in Positions /\ node # NIL /\ at # NIL
      /\ at # node /\ at \notin Nodes(t) /\ Nodes(t) \subseteq (0 .. N) \cup Roots
      /\ \A x \in Strings(t) : x \in Nodes(t) /\ x \notin Roots
      /\ \A x \in Roots : x \in Nodes(t) /\ x # node
      /\ NIL \notin Nodes(t)
  BY Family, RootsBeyond DEF Nodes
<1>2. Strings(u) = (Strings(t) \ {node}) \cup {at}
  BY <1>1 DEF Strings, Renamed
<1>3. /\ \A y \in Strings(u) : \E x \in Strings(t) : y = R(x)
      /\ \A y \in Nodes(u) : \E x \in Nodes(t) : y = R(x)
      /\ \A x \in Strings(t) : R(x) \in Strings(u)
      /\ \A x \in Nodes(t) : R(x) \in Nodes(u)
      /\ R(NIL) = NIL
      /\ \A x \in Nodes(t) : R(x) # NIL
      /\ \A x, y \in Nodes(t) \cup {NIL} : R(x) = R(y) => x = y
  BY <1>1, <1>2 DEF Nodes, Instead
<1>4. /\ \A x \in Strings(t) : u.dad[R(x)] = R(t.dad[x]) /\ u.lson[R(x)] = R(t.lson[x])
      /\ \A x \in Nodes(t) : u.rson[R(x)] = R(t.rson[x])
  BY DEF Renamed
<1>. HIDE DEF R
<1>5. SonOfItsDad(u)
  <2>. SUFFICES ASSUME NEW y \in Strings(u)
                PROVE  /\ u.dad[y] \in Nodes(u)
                       /\ u.rson[u.dad[y]] = y \/ (u.dad[y] \in Strings(u) /\ u.lson[u.dad[y]] = y)
    BY DEF SonOfItsDad
  <2>1. PICK x \in Strings(t) : y = R(x)
    BY <1>3
  <2>2. /\ t.dad[x] \in Nodes(t)
        /\ t.rson[t.dad[x]] = x \/ (t.dad[x] \in Strings(t) /\ t.lson[t.dad[x]] = x)
    BY DEF IsTree, SonOfItsDad
  <2>. QED
    BY <1>3, <1>4, <2>1, <2>2
<1>6. DadOfRight(u)
  <2>. SUFFICES ASSUME NEW y \in Nodes(u), u.rson[y] # NIL
                PROVE  u.rson[y] \in Strings(u) /\ u.dad[u.rson[y]] = y
    BY DEF DadOfRight
  <2>1. PICK x \in Nodes(t) : y = R(x)
    BY <1>3
  <2>2. t.rson[x] # NIL
    BY <1>3, <1>4, <2>1
  <2>3. t.rson[x] \in Strings(t) /\ t.dad[t.rson[x]] = x
    BY <2>2 DEF IsTree, DadOfRight
  <2>. QED
    BY <1>3, <1>4, <2>1, <2>3
<1>7. DadOfLeft(u)
  <2>. SUFFICES ASSUME NEW y \in Strings(u)
                PROVE  /\ u.lson[y] # NIL => u.lson[y] \in Strings(u) /\ u.dad[u.lson[y]] = y
                       /\ u.lson[y] = u.rson[y] => u.lson[y] = NIL
    BY DEF DadOfLeft
  <2>1. PICK x \in Strings(t) : y = R(x)
    BY <1>3
  <2>2. /\ t.lson[x] # NIL => t.lson[x] \in Strings(t) /\ t.dad[t.lson[x]] = x
        /\ t.lson[x] = t.rson[x] => t.lson[x] = NIL
        /\ t.rson[x] # NIL => t.rson[x] \in Strings(t)
    BY <1>1 DEF IsTree, DadOfLeft, DadOfRight
  <2>3. /\ t.lson[x] \in Nodes(t) \cup {NIL} /\ t.rson[x] \in Nodes(t) \cup {NIL}
        /\ u.lson[y] = R(t.lson[x]) /\ u.rson[y] = R(t.rson[x])
    BY <1>1, <1>4, <2>1, <2>2
  <2>4. u.lson[y] # NIL => u.lson[y] \in Strings(u) /\ u.dad[u.lson[y]] = y
    BY <1>3, <1>4, <2>1, <2>2, <2>3
  <2>5. u.lson[y] = u.rson[y] => u.lson[y] = NIL
    BY <1>3, <2>2, <2>3
  <2>. QED
    BY <2>4, <2>5
<1>8. Ranked(u, level)
  <2>1. rank \in [(0 .. N) \cup Roots -> Int]
    BY DEF IsTree, Ranked
  <2>2. level \in [(0 .. N) \cup Roots -> Int]
    BY <1>1, <2>1
  <2>3. ASSUME NEW x \in Nodes(t) PROVE level[R(x)] = rank[x]
    BY <1>1, <2>1, RootsBeyond DEF R, Instead
  <2>4. ASSUME NEW y \in Strings(u) PROVE level[u.dad[y]] < level[y]
    <3>1. PICK x \in Strings(t) : y = R(x)
      BY <1>3
    <3>2. t.dad[x] \in Nodes(t) /\ x \in Nodes(t) /\ u.dad[y] = R(t.dad[x])
      BY <1>1, <1>4, <3>1, Family
    <3>3. rank[t.dad[x]] < rank[x]
      BY DEF IsTree, Ranked
    <3>4. level[u.dad[y]] = rank[t.dad[x]] /\ level[y] = rank[x]
      BY <2>3, <3>1, <3>2
    <3>. QED
      BY <3>3, <3>4
  <2>. HIDE DEF level
  <2>. QED
    BY <2>2, <2>4 DEF Ranked
<1>9. Headed(u, buf)
  <2>. SUFFICES ASSUME NEW y \in Strings(u) PROVE Initial(buf, u.dad[y]) = buf[y]
    BY DEF Headed
  <2>1. PICK x \in Strings(t) : y = R(x)
    BY <1>3
  <2>2. t.dad[x] \in Nodes(t) /\ u.dad[y] = R(t.dad[x]) /\ Initial(buf, t.dad[x]) = buf[x]
    BY <1>4, <2>1, Family DEF IsTree, Headed
  <2>3. buf[y] = buf[x]
    BY <2>1 DEF R, Instead
  <2>4. Initial(buf, R(t.dad[x])) = Initial(buf, t.dad[x])
    BY <1>1, RootsBeyond DEF R, Instead, Initial
  <2>. QED
    BY <2>2, <2>3, <2>4
<1>10. Arrays(u)
  BY DEF Renamed
<1>. QED
  BY <1>2, <1>5, <1>6, <1>7, <1>8, <1>9, <1>10 DEF IsTree

LEMMA ReplacedRenames ==
  ASSUME NEW t, NEW buf, NEW rank, IsTree(t, buf, rank), NEW node \in Strings(t),
         NEW at \in Positions, at \notin Strings(t)
  PROVE  Renamed(t, Replaced(t, node, at), node, at)
<1>. DEFINE left == t.lson[node]
            right == t.rson[node]
            above == t.dad[node]
            w == [lson |-> [t.lson EXCEPT ![at] = left], rson |-> [t.rson EXCEPT ![at] = right],
                  dad |-> [t.dad EXCEPT ![left] = at, ![right] = at]]
            u == Replaced(t, node, at)
            numbers == 0 .. N
            places == (0 .. N) \cup Roots
<1>1. /\ Strings(t) \subseteq Positions /\ node \in Positions /\ node # NIL /\ at # NIL
      /\ at # node /\ at \notin Nodes(t) /\ Nodes(t) \subseteq places
      /\ \A x \in Strings(t) : x \in Nodes(t) /\ x \notin Roots
      /\ \A x \in Roots : x \in Nodes(t) /\ x # node /\ x # at
      /\ NIL \notin Nodes(t) /\ Positions \subseteq numbers /\ NIL \in numbers
      /\ NIL \notin Positions
  BY Family, RootsBeyond DEF Nodes
<1>2. /\ left = NIL \/ (left \in Strings(t) /\ t.dad[left] = node)
      /\ right = NIL \/ (right \in Strings(t) /\ t.dad[right] = node)
      /\ left # node /\ right # node
      /\ above \in Nodes(t) /\ above # node
      /\ t.rson[above] = node \/ (above \in Strings(t) /\ t.lson[above] = node)
  BY Family DEF IsTree, SonOfItsDad
<1>3. /\ t.lson \in [numbers -> numbers] /\ t.rson \in [places -> numbers]
      /\ t.dad \in [numbers -> places]
  BY DEF IsTree, Arrays
<1>4. /\ left \in numbers /\ right \in numbers /\ at \in numbers /\ at \in places
      /\ above \in places /\ numbers \subseteq places /\ node \in numbers
  BY <1>1, <1>2
<1>5. u = Succeeded(w, node, at)
  BY DEF Replaced
<1>6. /\ DOMAIN w = {"lson", "rson", "dad"}
      /\ w.lson = [t.lson EXCEPT ![at] = left] /\ w.rson = [t.rson EXCEPT ![at] = right]
      /\ w.dad = [t.dad EXCEPT ![left] = at, ![right] = at]
      /\ w = [lson |-> w.lson, rson |-> w.rson, dad |-> w.dad]
  OBVIOUS
<1>. HIDE DEF w, u, left, right, above
<1>7. /\ w.lson \in [numbers -> numbers]
      /\ \A x \in numbers : w.lson[x] = IF x = at THEN left ELSE t.lson[x]
      /\ w.rson \in [places -> numbers]
      /\ \A x \in places : w.rson[x] = IF x = at THEN right ELSE t.rson[x]
      /\ w.dad \in [numbers -> places]
      /\ \A x \in numbers : w.dad[x] = IF x = left \/ x = right THEN at ELSE t.dad[x]
  <2>. HIDE DEF numbers, places
  <2>1. /\ w.lson \in [numbers -> numbers]
        /\ \A x \in numbers : w.lson[x] = IF x = at THEN left ELSE t.lson[x]
    <3>1. t.lson \in [numbers -> numbers] /\ left \in numbers
      BY <1>3, <1>4
    <3>2. w.lson = [t.lson EXCEPT ![at] = left]
      BY <1>6
    <3>. QED
      BY <3>1, <3>2, Updated
  <2>2. /\ w.rson \in [places -> numbers]
        /\ \A x \in places : w.rson[x] = IF x = at THEN right ELSE t.rson[x]
    <3>1. t.rson \in [places -> numbers] /\ right \in numbers
      BY <1>3, <1>4
    <3>2. w.rson = [t.rson EXCEPT ![at] = right]
      BY <1>6
    <3>. QED
      BY <3>1, <3>2, Updated
  <2>. DEFINE first == [t.dad EXCEPT ![left] = at]
  <2>3. w.dad = [first EXCEPT ![right] = at]
    BY <1>6
  <2>. HIDE DEF first
  <2>4. /\ first \in [numbers -> places]
        /\ \A x \in numbers : first[x] = IF x = left THEN at ELSE t.dad[x]
    <3>1. t.dad \in [numbers -> places] /\ at \in places
      BY <1>3, <1>4
    <3>. QED
      BY <3>1, Updated DEF first
  <2>5. /\ w.dad \in [numbers -> places]
        /\ \A x \in numbers : w.dad[x] = IF x = right THEN at ELSE first[x]
    <3>1. first \in [numbers -> places] /\ at \in places /\ w.dad = [first EXCEPT ![right] = at]
      BY <1>4, <2>3, <2>4
    <3>. QED
      BY <3>1, Updated
  <2>. QED
    BY <2>1, <2>2, <2>4, <2>5
<1>8. Arrays(w) /\ w.dad[node] = above
  <2>1. Arrays(w)
    BY <1>6, <1>7 DEF Arrays
  <2>. QED
    BY <1>2, <1>4, <1>7, <2>1 DEF above
<1>9. w.rson[above] = node <=> t.rson[above] = node
  <2>1. above # at
    BY <1>1, <1>2
  <2>. QED
    BY <1>4, <1>7, <2>1
<1>10. /\ Arrays(u) /\ u.dad[node] = NIL /\ u.dad[at] = above
       /\ \A x \in numbers : x # node /\ x # at => u.dad[x] = w.dad[x]
       /\ \A x \in numbers :
            u.lson[x] = IF x = above /\ ~(t.rson[above] = node) THEN at ELSE w.lson[x]
       /\ \A x \in places :
            u.rson[x] = IF x = above /\ t.rson[above] = node THEN at ELSE w.rson[x]
  <2>1. above \in Positions \/ above \in Roots
    BY <1>1, <1>2 DEF Nodes
  <2>2. above \in Positions \/ w.rson[above] = node
    BY <1>1, <1>2, <1>9
  <2>. QED
    BY <1>1, <1>4, <1>5, <1>8, <1>9, <2>1, <2>2, SucceededArrays
<1>. HIDE DEF numbers, places
<1>11. \A x \in Positions : u.dad[x] # NIL <=> x \in (Strings(t) \ {node}) \cup {at}
  <2>. SUFFICES ASSUME NEW x \in Positions
                PROVE  u.dad[x] # NIL <=> x \in (Strings(t) \ {node}) \cup {at}
    OBVIOUS
  <2>1. x \in numbers /\ (x = left \/ x = right => x \in Strings(t))
    BY <1>1, <1>2
  <2>2. CASE x = node
    BY <1>1, <1>10, <2>2
  <2>3. CASE x = at
    BY <1>1, <1>2, <1>10, <2>3
  <2>4. CASE x # node /\ x # at
    <3>1. u.dad[x] = IF x = left \/ x = right THEN at ELSE t.dad[x]
      BY <1>7, <1>10, <2>1, <2>4
    <3>2. t.dad[x] # NIL <=> x \in Strings(t)
      BY DEF Strings
    <3>. QED
      BY <1>1, <2>1, <2>4, <3>1, <3>2
  <2>. QED
    BY <2>2, <2>3, <2>4
<1>12. ASSUME NEW x \in Strings(t)
       PROVE  u.dad[Instead(node, at, x)] = Instead(node, at, t.dad[x])
  <2>1. CASE x = node
    BY <1>2, <1>10, <2>1 DEF Instead, above
  <2>2. CASE x # node
    <3>1. x \in numbers /\ x # at /\ u.dad[x] = w.dad[x]
      BY <1>1, <1>10, <2>2
    <3>2. t.dad[x] = node <=> (x = left \/ x = right)
      <4>1. t.dad[x] = node => x = left \/ x = right
        BY DEF IsTree, SonOfItsDad, left, right
      <4>. QED
        BY <1>1, <1>2, <4>1
    <3>. QED
      BY <1>7, <2>2, <3>1, <3>2 DEF Instead
  <2>. QED
    BY <2>1, <2>2
<1>13. ASSUME NEW x \in Strings(t)
       PROVE  u.lson[Instead(node, at, x)] = Instead(node, at, t.lson[x])
  <2>1. CASE x = node
    BY <1>1, <1>2, <1>4, <1>7, <1>10, <2>1 DEF Instead, left
  <2>2. CASE x # node
    <3>1. x \in numbers /\ x # at
      BY <1>1
    <3>2. t.lson[x] = node => x = above
      BY <1>1 DEF IsTree, DadOfLeft, above
    <3>3. x = above /\ t.rson[above] = node => t.lson[x] # node
      BY <1>1 DEF IsTree, DadOfLeft
    <3>. QED
      BY <1>2, <1>7, <1>10, <2>2, <3>1, <3>2, <3>3 DEF Instead
  <2>. QED
    BY <2>1, <2>2
<1>14. ASSUME NEW x \in Nodes(t)
       PROVE  u.rson[Instead(node, at, x)] = Instead(node, at, t.rson[x])
  <2>1. CASE x = node
    BY <1>1, <1>2, <1>4, <1>7, <1>10, <2>1 DEF Instead, right
  <2>2. CASE x # node
    <3>1. x \in places /\ x # at
      BY <1>1
    <3>2. t.rson[x] = node => x = above
      BY <1>1 DEF IsTree, DadOfRight, above
    <3>. QED
      BY <1>2, <1>7, <1>10, <2>2, <3>1, <3>2 DEF Instead
  <2>. QED
    BY <2>1, <2>2
<1>. QED
  BY <1>10, <1>11, <1>12, <1>13, <1>14 DEF Renamed, u

\* q is on the way from the left son of a node to the right, over and over.
OnTheWay(t, node, rank) ==
  /\ q \in Strings(t) /\ rank[node] < rank[q]
  /\ \/ q = t.lson[node]
     \/ t.dad[q] \in Strings(t) /\ rank[node] < rank[t.dad[q]] /\ t.rson[t.dad[q]] = q

LEMMA MergedArrays ==
  ASSUME NEW t, Arrays(t), NEW node \in Positions, q \in Positions, t.lson[node] # q,
         t.lson[q] # t.lson[node] \/ t.lson[q] = NIL, t.lson[q] # t.rson[node] \/ t.lson[q] = NIL,
         t.lson[node] \in Positions, t.rson[node] \in Positions, t.dad[q] # q
  PROVE  LET m == Merged(t, node)
         IN  /\ Arrays(m)
             /\ \A x \in 0 .. N : m.lson[x] = IF x = q THEN t.lson[node] ELSE t.lson[x]
             /\ \A x \in (0 .. N) \cup Roots :
                  m.rson[x] = IF x = q THEN t.rson[node]
                              ELSE IF x = t.dad[q] THEN t.lson[q] ELSE t.rson[x]
             /\ \A x \in 0 .. N :
                  x # NIL => m.dad[x] = IF x = t.lson[node] \/ x = t.rson[node] THEN q
                                        ELSE IF x = t.lson[q] THEN t.dad[q] ELSE t.dad[x]
<1>. DEFINE left == t.lson[node]
            right == t.rson[node]
            below == t.lson[q]
            above == t.dad[q]
            m == Merged(t, node)
            numbers == 0 .. N
            places == (0 .. N) \cup Roots
<1>1. /\ Positions \subseteq numbers /\ numbers \subseteq places /\ NIL \notin Positions
      /\ NIL \in numbers
  BY RootsBeyond
<1>2. /\ t.lson \in [numbers -> numbers] /\ t.rson \in [places -> numbers]
      /\ t.dad \in [numbers -> places]
  BY DEF Arrays
<1>3. /\ left \in numbers /\ right \in numbers /\ below \in numbers /\ above \in places
      /\ q \in numbers /\ q \in places /\ node \in numbers
  BY <1>1, <1>2
<1>4. /\ DOMAIN m = {"lson", "rson", "dad"}
      /\ m.lson = [t.lson EXCEPT ![q] = left]
      /\ m.rson = [t.rson EXCEPT ![above] = below, ![q] = right]
      /\ m.dad = [t.dad EXCEPT ![below] = above, ![left] = q, ![right] = q]
      /\ m = [lson |-> m.lson, rson |-> m.rson, dad |-> m.dad]
  BY DEF Merged
<1>. HIDE DEF left, right, below, above, m, numbers, places
<1>5. /\ m.lson \in [numbers -> numbers]
      /\ \A x \in numbers : m.lson[x] = IF x = q THEN left ELSE t.lson[x]
  <2>1. t.lson \in [numbers -> numbers] /\ left \in numbers
    BY <1>2, <1>3
  <2>2. m.lson = [t.lson EXCEPT ![q] = left]
    BY <1>4
  <2>. QED
    BY <2>1, <2>2, Updated
<1>6. /\ m.rson \in [places -> numbers]
      /\ \A x \in places : m.rson[x] = IF x = q THEN right ELSE IF x = above THEN below ELSE t.rson[x]
  <2>. DEFINE first == [t.rson EXCEPT ![above] = below]
  <2>1. m.rson = [first EXCEPT ![q] = right]
    BY <1>4
  <2>2. /\ first \in [places -> numbers]
        /\ \A x \in places : first[x] = IF x = above THEN below ELSE t.rson[x]
    <3>1. t.rson \in [places -> numbers] /\ below \in numbers
      BY <1>2, <1>3
    <3>. QED
      BY <3>1, Updated
  <2>. HIDE DEF first
  <2>3. /\ m.rson \in [places -> numbers]
        /\ \A x \in places : m.rson[x] = IF x = q THEN right ELSE first[x]
    <3>1. first \in [places -> numbers] /\ right \in numbers
      BY <1>3, <2>2
    <3>. QED
      BY <2>1, <3>1, Updated
  <2>. QED
    BY <2>2, <2>3
<1>7. /\ m.dad \in [numbers -> places]
      /\ \A x \in numbers : m.dad[x] = IF x = left \/ x = right THEN q
                                       ELSE IF x = below THEN above ELSE t.dad[x]
  <2>. DEFINE first == [t.dad EXCEPT ![below] = above]
              second == [first EXCEPT ![left] = q]
  <2>1. m.dad = [second EXCEPT ![right] = q]
    BY <1>4
  <2>2. /\ first \in [numbers -> places]
        /\ \A x \in numbers : first[x] = IF x = below THEN above ELSE t.dad[x]
    <3>1. t.dad \in [numbers -> places] /\ above \in places
      BY <1>2, <1>3
    <3>. QED
      BY <3>1, Updated
  <2>. HIDE DEF first
  <2>3. /\ second \in [numbers -> places]
        /\ \A x \in numbers : second[x] = IF x = left THEN q ELSE first[x]
    <3>1. first \in [numbers -> places] /\ q \in places
      BY <1>3, <2>2
    <3>. QED
      BY <3>1, Updated
  <2>. HIDE DEF second
  <2>4. /\ m.dad \in [numbers -> places]
        /\ \A x \in numbers : m.dad[x] = IF x = right THEN q ELSE second[x]
    <3>1. second \in [numbers -> places] /\ q \in places
      BY <1>3, <2>3
    <3>. QED
      BY <2>1, <3>1, Updated
  <2>. QED
    BY <2>2, <2>3, <2>4
<1>8. Arrays(m)
  BY <1>4, <1>5, <1>6, <1>7 DEF Arrays, numbers, places
<1>. QED
  BY <1>5, <1>6, <1>7, <1>8 DEF left, right, below, above, m, numbers, places

\* When q is the left son itself.
LEMMA LiftedArrays ==
  ASSUME NEW t, Arrays(t), NEW node \in Positions, q \in Positions, t.lson[node] = q,
         t.rson[node] \in Positions
  PROVE  LET m == Merged(t, node)
         IN  /\ Arrays(m)
             /\ \A x \in 0 .. N : m.lson[x] = t.lson[x]
             /\ \A x \in (0 .. N) \cup Roots : m.rson[x] = IF x = q THEN t.rson[node] ELSE t.rson[x]
             /\ \A x \in 0 .. N : m.dad[x] = IF x = t.rson[node] THEN q ELSE t.dad[x]
<1>. DEFINE right == t.rson[node]
            m == Merged(t, node)
            numbers == 0 .. N
            places == (0 .. N) \cup Roots
<1>1. Positions \subseteq numbers /\ numbers \subseteq places
  BY RootsBeyond
<1>2. /\ t.lson \in [numbers -> numbers] /\ t.rson \in [places -> numbers]
      /\ t.dad \in [numbers -> places]
      /\ DOMAIN t = {"lson", "rson", "dad"}
      /\ t = [lson |-> t.lson, rson |-> t.rson, dad |-> t.dad]
  BY DEF Arrays
<1>3. right \in numbers /\ q \in numbers /\ q \in places
  BY <1>1
<1>4. /\ DOMAIN m = {"lson", "rson", "dad"}
      /\ m.lson = t.lson
      /\ m.rson = [t.rson EXCEPT ![q] = right]
      /\ m.dad = [t.dad EXCEPT ![right] = q]
      /\ m = [lson |-> m.lson, rson |-> m.rson, dad |-> m.dad]
  <2>1. m = [t EXCEPT !.rson = [@ EXCEPT ![q] = right], !.dad = [@ EXCEPT ![right] = q]]
    BY DEF Merged
  <2>. QED
    BY <1>2, <2>1
<1>. HIDE DEF right, m, numbers, places
<1>5. /\ m.rson \in [places -> numbers]
      /\ \A x \in places : m.rson[x] = IF x = q THEN right ELSE t.rson[x]
  <2>1. t.rson \in [places -> numbers] /\ right \in numbers
    BY <1>2, <1>3
  <2>2. m.rson = [t.rson EXCEPT ![q] = right]
    BY <1>4
  <2>. QED
    BY <2>1, <2>2, Updated
<1>6. /\ m.dad \in [numbers -> places]
      /\ \A x \in numbers : m.dad[x] = IF x = right THEN q ELSE t.dad[x]
  <2>1. t.dad \in [numbers -> places] /\ q \in places
    BY <1>2, <1>3
  <2>2. m.dad = [t.dad EXCEPT ![right] = q]
    BY <1>4
  <2>. QED
    BY <2>1, <2>2, Updated
<1>7. Arrays(m)
  BY <1>2, <1>4, <1>5, <1>6 DEF Arrays, numbers, places
<1>. QED
  BY <1>4, <1>5, <1>6, <1>7 DEF right, m, numbers, places

\* Renaming the node of a tree without q gives what the code makes of the tree.
LEMMA MergedRenames ==
  ASSUME NEW t, NEW buf, NEW rank, IsTree(t, buf, rank), NEW node \in Strings(t),
         t.lson[node] # NIL, t.rson[node] # NIL, OnTheWay(t, node, rank), t.rson[q] = NIL
  PROVE  Renamed(Succeeded(t, q, t.lson[q]), Succeeded(Merged(t, node), node, q), node, q)
<1>. DEFINE left == t.lson[node]
            right == t.rson[node]
            below == t.lson[q]
            above == t.dad[node]
            t1 == Succeeded(t, q, below)
            m == Merged(t, node)
            u == Succeeded(m, node, q)
            numbers == 0 .. N
            places == (0 .. N) \cup Roots
            rest == Strings(t) \ {q}
<1>0. /\ Strings(t) \subseteq Positions /\ node \in Positions /\ node # NIL /\ q # NIL
      /\ q \in Positions /\ Nodes(t) \subseteq places
      /\ \A x \in Strings(t) : x \in Nodes(t) /\ x \notin Roots
      /\ \A x \in Roots : x \in Nodes(t) /\ x # node /\ x # q
      /\ NIL \notin Nodes(t) /\ Positions \subseteq numbers /\ NIL \in numbers
      /\ numbers \subseteq places /\ NIL \notin Positions
  BY Family, RootsBeyond DEF Nodes, OnTheWay
<1>1. IsTree(t1, buf, rank) /\ Strings(t1) = rest /\ Nodes(t1) = rest \cup Roots
  <2>1. q \in Strings(t)
    BY DEF OnTheWay
  <2>2. IsTree(t1, buf, rank) /\ Strings(t1) = rest
    BY <2>1, RemoveKeeps
  <2>. QED
    BY <2>2 DEF Nodes
<1>2. /\ left \in Strings(t) /\ right \in Strings(t) /\ left # right
      /\ t.dad[left] = node /\ t.dad[right] = node
      /\ below = NIL \/ (below \in Strings(t) /\ t.dad[below] = q)
      /\ above \in Nodes(t) /\ above # node
      /\ t.rson[above] = node \/ (above \in Strings(t) /\ t.lson[above] = node)
  BY Family DEF IsTree, SonOfItsDad, DadOfLeft, OnTheWay
<1>3. \A x \in Strings(t) : rank[t.dad[x]] < rank[x] /\ rank[t.dad[x]] \in Int /\ rank[x] \in Int
  <2>1. \A x \in Strings(t) : x \in places /\ t.dad[x] \in places
    BY <1>0, Family
  <2>. QED
    BY <2>1 DEF IsTree, Ranked
<1>4. /\ q # node /\ rank[node] < rank[q] /\ above # q /\ below # node
      /\ q # right /\ right # below /\ left # below
      /\ q = left \/ (t.dad[q] \in Strings(t) /\ t.dad[q] # node /\ t.rson[t.dad[q]] = q
                      /\ t.dad[q] # above)
  <2>1. q \in Strings(t) /\ rank[node] < rank[q]
    BY DEF OnTheWay
  <2>2. q # node /\ above # q /\ below # node
    BY <1>0, <1>2, <1>3, <2>1
  <2>3. right # below /\ left # below
    BY <1>0, <1>2, <2>2
  <2>4. CASE q = left
    BY <1>2, <2>1, <2>2, <2>3, <2>4
  <2>5. CASE q # left
    <3>1. t.dad[q] \in Strings(t) /\ rank[node] < rank[t.dad[q]] /\ t.rson[t.dad[q]] = q
      BY <2>5 DEF OnTheWay
    <3>2. t.dad[q] # node /\ t.dad[q] # above
      BY <1>3, <3>1
    <3>. QED
      BY <1>2, <2>1, <2>2, <2>3, <3>1, <3>2
  <2>. QED
    BY <2>4, <2>5
<1>5. q \in Strings(t) /\ Arrays(t) /\ q \in Nodes(t)
  BY DEF OnTheWay, IsTree, Nodes
<1>6. /\ Arrays(m)
      /\ \A x \in numbers :
           /\ m.lson[x] = IF x = q THEN IF q = left THEN below ELSE left ELSE t.lson[x]
           /\ x # NIL => m.dad[x] = IF (x = left /\ q # left) \/ x = right THEN q
                                    ELSE IF x = below /\ q # left THEN t.dad[q] ELSE t.dad[x]
      /\ \A x \in places :
           m.rson[x] = IF x = q THEN right
                       ELSE IF x = t.dad[q] /\ q # left THEN below ELSE t.rson[x]
  <2>. HIDE DEF m, numbers, places
  <2>1. CASE q = left
    <3>1. /\ Arrays(m) /\ \A x \in 0 .. N : m.lson[x] = t.lson[x]
          /\ \A x \in (0 .. N) \cup Roots : m.rson[x] = IF x = q THEN right ELSE t.rson[x]
          /\ \A x \in 0 .. N : m.dad[x] = IF x = right THEN q ELSE t.dad[x]
      BY <1>0, <1>2, <1>5, <2>1, LiftedArrays DEF m
    <3>. QED
      BY <2>1, <3>1 DEF numbers, places
  <2>2. CASE q # left
    <3>1. t.dad[q] # q /\ (below # left \/ below = NIL) /\ (below # right \/ below = NIL)
      BY <1>4, <1>5, Family
    <3>2. /\ Arrays(m) /\ \A x \in 0 .. N : m.lson[x] = IF x = q THEN left ELSE t.lson[x]
          /\ \A x \in (0 .. N) \cup Roots :
               m.rson[x] = IF x = q THEN right ELSE IF x = t.dad[q] THEN below ELSE t.rson[x]
          /\ \A x \in 0 .. N :
               x # NIL => m.dad[x] = IF x = left \/ x = right THEN q
                                     ELSE IF x = below THEN t.dad[q] ELSE t.dad[x]
      BY <1>0, <1>2, <1>5, <2>2, <3>1, MergedArrays DEF m
    <3>. QED
      BY <2>2, <3>2 DEF numbers, places
  <2>. QED
    BY <2>1, <2>2
<1>7. m.dad[node] = above /\ (m.rson[above] = node <=> t.rson[above] = node)
  <2>1. node # left /\ node # right
    BY <1>2, Family
  <2>2. m.dad[node] = above
    BY <1>0, <1>4, <1>6, <2>1
  <2>3. m.rson[above] = t.rson[above]
    BY <1>0, <1>2, <1>4, <1>6
  <2>. QED
    BY <2>2, <2>3
<1>8. /\ Arrays(u) /\ u.dad[node] = NIL /\ u.dad[q] = above
      /\ \A x \in numbers : x # node /\ x # q => u.dad[x] = m.dad[x]
      /\ \A x \in numbers :
           u.lson[x] = IF x = above /\ ~(t.rson[above] = node) THEN q ELSE m.lson[x]
      /\ \A x \in places :
           u.rson[x] = IF x = above /\ t.rson[above] = node THEN q ELSE m.rson[x]
  <2>1. above \in Positions \/ above \in Roots
    BY <1>0, <1>2 DEF Nodes
  <2>2. above \in Positions \/ m.rson[above] = node
    BY <1>0, <1>2, <1>7
  <2>. HIDE DEF m, above
  <2>. QED
    BY <1>0, <1>4, <1>6, <1>7, <2>1, <2>2, SucceededArrays
<1>9. /\ t1.dad[q] = NIL
      /\ \A x \in rest : t1.dad[x] = IF x = below THEN t.dad[q] ELSE t.dad[x]
      /\ \A x \in rest : t1.lson[x] = IF x = node /\ q = left THEN below ELSE t.lson[x]
      /\ \A x \in rest \cup Roots :
           t1.rson[x] = IF x = t.dad[q] /\ q # left THEN below ELSE t.rson[x]
  <2>1. below \in 0 .. N /\ q # below /\ (t.dad[q] \in Positions \/ t.dad[q] \in Roots)
    <3>1. t.dad[q] \in Nodes(t) /\ t.lson[q] # q
      BY <1>5, Family
    <3>. QED
      BY <1>0, <1>2, <3>1 DEF Nodes
  <2>2. t.rson[t.dad[q]] = q <=> q # left
    BY <1>2, <1>4
  <2>3. /\ t1.dad[q] = NIL /\ t1.dad[below] = t.dad[q]
        /\ \A x \in numbers : x # q /\ x # below => t1.dad[x] = t.dad[x]
        /\ \A x \in numbers :
             t1.lson[x] = IF x = t.dad[q] /\ ~(t.rson[t.dad[q]] = q) THEN below ELSE t.lson[x]
        /\ \A x \in places :
             t1.rson[x] = IF x = t.dad[q] /\ t.rson[t.dad[q]] = q THEN below ELSE t.rson[x]
    <3>. HIDE DEF t1, below
    <3>. QED
      BY <1>0, <1>5, <2>1, SucceededArrays DEF t1
  <2>4. \A x \in rest : x \in numbers /\ x \in places /\ x # q
    BY <1>0
  <2>5. q = left => t.dad[q] = node
    BY <1>2
  <2>6. \A x \in rest \cup Roots : x \in places
    BY <1>0
  <2>. HIDE DEF t1, below, rest, numbers, places, left
  <2>. QED
    BY <2>2, <2>3, <2>4, <2>5, <2>6
<1>. HIDE DEF t1, m, u, left, right, below, above, numbers, places
<1>10. \A x \in Positions : u.dad[x] # NIL <=> x \in (rest \ {node}) \cup {q}
  <2>. SUFFICES ASSUME NEW x \in Positions
                PROVE  u.dad[x] # NIL <=> x \in (rest \ {node}) \cup {q}
    OBVIOUS
  <2>1. x \in numbers /\ x # NIL
    BY <1>0
  <2>2. CASE x = node
    BY <1>4, <1>8, <2>2
  <2>3. CASE x = q
    BY <1>0, <1>2, <1>8, <2>3
  <2>4. CASE x # node /\ x # q
    <3>1. u.dad[x] = IF (x = left /\ q # left) \/ x = right THEN q
                     ELSE IF x = below /\ q # left THEN t.dad[q] ELSE t.dad[x]
      BY <1>6, <1>8, <2>1, <2>4
    <3>2. t.dad[x] # NIL <=> x \in Strings(t)
      BY DEF Strings
    <3>3. t.dad[q] # NIL
      BY <1>0, <1>5, Family
    <3>. QED
      BY <1>0, <1>2, <2>1, <2>4, <3>1, <3>2, <3>3
  <2>. QED
    BY <2>2, <2>3, <2>4
<1>11. ASSUME NEW x \in rest PROVE u.dad[Instead(node, q, x)] = Instead(node, q, t1.dad[x])
  <2>1. x \in numbers /\ x # NIL /\ x \in Strings(t) /\ x # q
    BY <1>0
  <2>2. t1.dad[x] = IF x = below THEN t.dad[q] ELSE t.dad[x]
    BY <1>9
  <2>3. CASE x = node
    <3>1. t1.dad[x] = above
      BY <1>4, <2>2, <2>3 DEF above
    <3>. QED
      BY <1>2, <1>8, <2>3, <3>1 DEF Instead
  <2>4. CASE x # node
    <3>1. u.dad[x] = IF (x = left /\ q # left) \/ x = right THEN q
                     ELSE IF x = below /\ q # left THEN t.dad[q] ELSE t.dad[x]
      BY <1>6, <1>8, <2>1, <2>4
    <3>2. t.dad[x] = node <=> x = left \/ x = right
      <4>1. t.dad[x] = node => x = left \/ x = right
        BY <2>1 DEF IsTree, SonOfItsDad, left, right
      <4>. QED
        BY <1>2, <4>1
    <3>3. x = below => x # left /\ x # right /\ t.dad[x] = q
      BY <1>2, <1>4, <2>1
    <3>4. q = left => t.dad[q] = node
      BY <1>2
    <3>5. q # left => t.dad[q] # node
      BY <1>4
    <3>. QED
      BY <1>4, <2>1, <2>2, <2>4, <3>1, <3>2, <3>3, <3>4, <3>5 DEF Instead
  <2>. QED
    BY <2>3, <2>4
<1>12. ASSUME NEW x \in rest PROVE u.lson[Instead(node, q, x)] = Instead(node, q, t1.lson[x])
  <2>1. x \in numbers /\ x # NIL /\ x \in Strings(t) /\ x # q
    BY <1>0
  <2>2. t1.lson[x] = IF x = node /\ q = left THEN below ELSE t.lson[x]
    BY <1>9
  <2>3. CASE x = node
    <3>1. u.lson[q] = IF q = left THEN below ELSE left
      BY <1>0, <1>4, <1>6, <1>8
    <3>2. t.lson[x] = left
      BY <2>3 DEF left
    <3>3. left # node
      BY <1>2, Family DEF left
    <3>. QED
      BY <1>4, <2>2, <2>3, <3>1, <3>2, <3>3 DEF Instead
  <2>4. CASE x # node
    <3>1. u.lson[x] = IF x = above /\ ~(t.rson[above] = node) THEN q ELSE t.lson[x]
      BY <1>6, <1>8, <2>1
    <3>2. t.lson[x] = node => x = above
      BY <1>0, <2>1 DEF IsTree, DadOfLeft, above
    <3>3. x = above /\ t.rson[above] = node => t.lson[x] # node
      BY <1>0, <2>1 DEF IsTree, DadOfLeft
    <3>. QED
      BY <1>2, <2>2, <2>4, <3>1, <3>2, <3>3 DEF Instead
  <2>. QED
    BY <2>3, <2>4
<1>13. ASSUME NEW x \in rest \cup Roots
       PROVE  u.rson[Instead(node, q, x)] = Instead(node, q, t1.rson[x])
  <2>1. x \in places /\ x \in Nodes(t) /\ x # q
    BY <1>0 DEF Nodes
  <2>2. t1.rson[x] = IF x = t.dad[q] /\ q # left THEN below ELSE t.rson[x]
    BY <1>9
  <2>3. CASE x = node
    <3>1. u.rson[q] = right
      BY <1>0, <1>4, <1>6, <1>8
    <3>2. t.rson[x] = right /\ right # node
      BY <1>2, <2>3, Family DEF right
    <3>. QED
      BY <1>4, <2>2, <2>3, <3>1, <3>2 DEF Instead
  <2>4. CASE x # node
    <3>1. u.rson[x] = IF x = above /\ t.rson[above] = node THEN q
                      ELSE IF x = t.dad[q] /\ q # left THEN below ELSE t.rson[x]
      BY <1>6, <1>8, <2>1
    <3>2. t.rson[x] = node => x = above
      BY <1>0, <2>1 DEF IsTree, DadOfRight, above
    <3>3. q # left => t.dad[q] # above
      BY <1>4
    <3>. QED
      BY <1>2, <1>4, <2>2, <2>4, <3>1, <3>2, <3>3 DEF Instead
  <2>. QED
    BY <2>3, <2>4
<1>. QED
  BY <1>1, <1>8, <1>10, <1>11, <1>12, <1>13 DEF Renamed, t1, u, m, below

\* However many sons a string has, it leaves the tree, and the others stay.
LEMMA DeleteKeeps ==
  ASSUME NEW t, NEW buf, NEW rank, IsTree(t, buf, rank), NEW node \in Positions,
         node \in Strings(t) /\ t.lson[node] # NIL /\ t.rson[node] # NIL
           => OnTheWay(t, node, rank) /\ t.rson[q] = NIL /\ buf[q] = buf[node]
  PROVE  /\ \E level : IsTree(deleteNode(t, node), buf, level)
         /\ Strings(deleteNode(t, node)) = Strings(t) \ {node}
<1>1. CASE t.dad[node] = NIL
  <2>1. deleteNode(t, node) = t /\ node \notin Strings(t)
    BY <1>1 DEF deleteNode, Strings
  <2>. QED
    BY <2>1
<1>2. CASE t.dad[node] # NIL
  <2>0. node \in Strings(t)
    BY <1>2 DEF Strings
  <2>1. CASE t.rson[node] = NIL
    <3>1. deleteNode(t, node) = Succeeded(t, node, t.lson[node])
      BY <1>2, <2>1 DEF deleteNode
    <3>. QED
      BY <2>0, <2>1, <3>1, RemoveKeeps
  <2>2. CASE t.rson[node] # NIL /\ t.lson[node] = NIL
    <3>1. deleteNode(t, node) = Succeeded(t, node, t.rson[node])
      BY <1>2, <2>2 DEF deleteNode
    <3>. QED
      BY <2>0, <2>2, <3>1, RemoveKeeps
  <2>3. CASE t.rson[node] # NIL /\ t.lson[node] # NIL
    <3>. DEFINE t1 == Succeeded(t, q, t.lson[q])
                u == deleteNode(t, node)
    <3>1. u = Succeeded(Merged(t, node), node, q)
      BY <1>2, <2>3 DEF deleteNode
    <3>2. /\ OnTheWay(t, node, rank) /\ t.rson[q] = NIL /\ buf[q] = buf[node] /\ q \in Strings(t)
          /\ rank[node] < rank[q]
      BY <2>0, <2>3 DEF OnTheWay
    <3>3. Renamed(t1, u, node, q)
      BY <2>0, <2>3, <3>1, <3>2, MergedRenames
    <3>4. IsTree(t1, buf, rank) /\ Strings(t1) = Strings(t) \ {q}
      BY <3>2, RemoveKeeps
    <3>5. q # node
      <4>1. rank \in [(0 .. N) \cup Roots -> Int] /\ node \in (0 .. N) \cup Roots
        BY RootsBeyond DEF IsTree, Ranked
      <4>. QED
        BY <3>2, <4>1
    <3>6. node \in Strings(t1) /\ q \in Positions /\ q \notin Strings(t1)
      BY <2>0, <3>2, <3>4, <3>5 DEF Strings
    <3>. HIDE DEF t1, u
    <3>7. /\ IsTree(u, buf, [rank EXCEPT ![q] = rank[node]])
          /\ Strings(u) = (Strings(t1) \ {node}) \cup {q}
      BY <3>2, <3>3, <3>4, <3>6, RenamedKeeps
    <3>8. Strings(u) = Strings(t) \ {node}
      BY <3>2, <3>4, <3>5, <3>7
    <3>. QED
      BY <3>7, <3>8 DEF u
  <2>. QED
    BY <2>1, <2>2, <2>3
<1>. QED
  BY <1>1, <1>2

------------------------------------------------------------------------------
(* The inductive invariant.                                                *)

\* How much of the input the window has slid over; the look-ahead begins after it.
Passed == taken - slides

CountsInv ==
  /\ data \in Seq(Symbols) /\ 0 < Len(data) /\ Len(data) <= MaxLength
  /\ out \in Seq(Codes)
  /\ phase \in {"fill", "insert", "emit", "slide", "delete", "finished"}
  /\ taken \in 0 .. Len(data) /\ slides \in 0 .. F /\ Passed \in Nat
  /\ r \in Positions /\ s = Wrap(r + F)
  /\ textLen = (IF Len(data) - Passed < F THEN Len(data) - Passed ELSE F)
  /\ srcPos = (IF Passed + F < Len(data) THEN Passed + F ELSE Len(data))
  /\ j \in 0 .. F + 1
  /\ phase = "fill" => j <= F
  /\ phase = "insert" => 1 <= j
  /\ j <= F => phase \in {"fill", "insert"} /\ r = N - F /\ slides = 0
  /\ phase \in {"slide", "delete"} => slides > 0
  /\ phase = "emit" => slides = 0
  /\ phase \in {"fill", "insert", "emit"} => textLen > 0
  /\ phase = "finished" => taken = Len(data)
\* The ring holds the look-ahead and the symbols before it.
RingInv ==
  /\ textBuf \in [0 .. N + F - 2 -> Symbols]
  /\ \A x \in Positions :
       textBuf[x] = IF Ahead(r, x) < textLen THEN Symbol(Passed + 1 + Ahead(r, x))
                    ELSE Symbol(Passed + 1 - Behind(r, x))
  /\ \A x \in 0 .. F - 2 : textBuf[N + x] = textBuf[x]
\* The strings in the tree are those of the window.
WindowInv ==
  \A x \in Strings(tree) :
    CASE phase = "fill" -> Behind(r, x) <= j
      [] phase = "insert" -> Behind(r, x) <= IF j <= F THEN j - 1 ELSE N - F
      [] OTHER -> Behind(r, x) <= N - F \/ x = r
\* The way to the place of the string that joins leads along strings with the same first symbol.
InsertInv ==
  phase = "insert" =>
    /\ p \in Nodes(tree) /\ (p \in Roots => cmp >= 0) /\ cmp \in Int
    /\ Initial(textBuf, p) = textBuf[Inserted]
    /\ tree.lson[Inserted] = NIL /\ tree.rson[Inserted] = NIL
DeleteInv(rank) ==
  phase = "delete" /\ s \in Strings(tree) /\ tree.lson[s] # NIL /\ tree.rson[s] # NIL
    => OnTheWay(tree, s, rank) /\ textBuf[q] = textBuf[s]
TreeInv == \E rank : IsTree(tree, textBuf, rank) /\ DeleteInv(rank)
\* What the longest match begins with is what the look-ahead begins with.
MatchInv ==
  /\ match = [position |-> match.position, length |-> match.length]
  /\ match.position \in Positions /\ match.length \in 0 .. F
  /\ (phase = "insert" /\ j > F) \/ phase = "emit" =>
       \A k \in 0 .. match.length - 1 :
         /\ Behind(r, match.position) <= N - F
         /\ textBuf[match.position + k] = textBuf[r + k]
OutInv == \E decoder : DecodedTo(out, decoder) /\ DecoderAt(decoder, Wrap(r + slides), taken)
LzssInv == CountsInv /\ RingInv /\ WindowInv /\ InsertInv /\ TreeInv /\ MatchInv /\ OutInv

------------------------------------------------------------------------------
(* Positions, strings and the buffer.                                      *)

LEMMA Distances ==
  ASSUME NEW base \in Positions, NEW x \in Positions
  PROVE  /\ Ahead(base, x) \in 0 .. N - 1 /\ Behind(base, x) \in 1 .. N
         /\ Behind(base, x) = N - Ahead(base, x) /\ (Ahead(base, x) = 0 <=> x = base)
         /\ Wrap(base + Ahead(base, x)) = x
BY Sizes DEF Positions, Ahead, Behind, Wrap

LEMMA Onward ==
  ASSUME NEW base \in Positions, NEW x \in Positions
  PROVE  /\ Wrap(base + 1) \in Positions
         /\ Ahead(Wrap(base + 1), x) = IF x = base THEN N - 1 ELSE Ahead(base, x) - 1
         /\ Behind(Wrap(base + 1), x) = IF x = base THEN 1 ELSE Behind(base, x) + 1
BY Sizes DEF Positions, Ahead, Behind, Wrap

\* What two strings share.
LEMMA SharedAgrees ==
  ASSUME NEW buf, NEW a, NEW b, buf[a] = buf[b], a \in Nat, b \in Nat
  PROVE  /\ Shared(buf, a, b) \in 1 .. F
         /\ \A k \in 0 .. Shared(buf, a, b) - 1 : buf[a + k] = buf[b + k]
<1>. DEFINE differ == {i \in 1 .. F - 1 : buf[a + i] # buf[b + i]}
            n == Shared(buf, a, b)
<1>0. F \in Nat /\ 1 < F
  BY Sizes
<1>1. CASE differ = {}
  <2>1. n = F
    BY <1>1 DEF Shared
  <2>2. ASSUME NEW k \in 0 .. F - 1 PROVE buf[a + k] = buf[b + k]
    <3>1. k = 0 \/ k \in 1 .. F - 1
      BY <1>0
    <3>2. a + 0 = a /\ b + 0 = b
      OBVIOUS
    <3>. QED
      BY <1>1, <3>1, <3>2
  <2>. QED
    BY <1>0, <2>1, <2>2
<1>2. CASE differ # {}
  <2>1. differ \in SUBSET Nat /\ differ \subseteq 1 .. F - 1
    OBVIOUS
  <2>2. n = CHOOSE i \in differ : \A k \in differ : i <= k
    BY <1>2 DEF Shared
  <2>. HIDE DEF differ, n
  <2>3. \E i \in differ : \A k \in differ : i <= k
    BY <1>2, <2>1, LeastNatural
  <2>4. n \in differ /\ \A k \in differ : n <= k
    BY <2>2, <2>3
  <2>5. n \in 1 .. F - 1
    BY <2>1, <2>4
  <2>6. ASSUME NEW k \in 0 .. n - 1 PROVE buf[a + k] = buf[b + k]
    <3>1. k = 0 \/ (k \in 1 .. F - 1 /\ k \notin differ)
      BY <1>0, <2>4, <2>5
    <3>2. a + 0 = a /\ b + 0 = b
      OBVIOUS
    <3>. QED
      BY <3>1, <3>2 DEF differ
  <2>. QED
    BY <1>0, <2>5, <2>6 DEF n
<1>. QED
  BY <1>1, <1>2

\* The sons of a string that is not in the tree do not matter.
Cleared(t, at) == [t EXCEPT !.lson = [@ EXCEPT ![at] = NIL], !.rson = [@ EXCEPT ![at] = NIL]]
LEMMA ClearKeeps ==
  ASSUME NEW t, NEW buf, NEW rank, IsTree(t, buf, rank), NEW at \in Positions,
         at \notin Strings(t)
  PROVE  /\ IsTree(Cleared(t, at), buf, rank) /\ Strings(Cleared(t, at)) = Strings(t)
         /\ Cleared(t, at).lson[at] = NIL /\ Cleared(t, at).rson[at] = NIL
<1>. DEFINE u == Cleared(t, at)
            numbers == 0 .. N
            places == (0 .. N) \cup Roots
<1>1. Arrays(t) /\ at \in numbers /\ at \in places /\ NIL \in numbers /\ at \notin Nodes(t)
      /\ Strings(t) \subseteq numbers /\ Nodes(t) \subseteq places
  BY RootsBeyond, Family DEF IsTree, Nodes
<1>2. /\ DOMAIN u = {"lson", "rson", "dad"}
      /\ u = [lson |-> u.lson, rson |-> u.rson, dad |-> u.dad]
      /\ u.dad = t.dad /\ u.lson = [t.lson EXCEPT ![at] = NIL]
      /\ u.rson = [t.rson EXCEPT ![at] = NIL]
  <2>1. u = [t EXCEPT !.lson = [@ EXCEPT ![at] = NIL], !.rson = [@ EXCEPT ![at] = NIL]]
    BY DEF Cleared
  <2>2. DOMAIN t = {"lson", "rson", "dad"} /\ t = [lson |-> t.lson, rson |-> t.rson, dad |-> t.dad]
    BY <1>1 DEF Arrays
  <2>. HIDE DEF u
  <2>. QED
    BY <2>1, <2>2
<1>3. /\ t.lson \in [numbers -> numbers] /\ t.rson \in [places -> numbers]
      /\ t.dad \in [numbers -> places]
  BY <1>1 DEF Arrays
<1>. HIDE DEF numbers, places, u
<1>4. /\ u.lson \in [numbers -> numbers]
      /\ \A x \in numbers : u.lson[x] = IF x = at THEN NIL ELSE t.lson[x]
  <2>1. t.lson \in [numbers -> numbers] /\ NIL \in numbers
    BY <1>1, <1>3
  <2>2. u.lson = [t.lson EXCEPT ![at] = NIL]
    BY <1>2
  <2>. QED
    BY <2>1, <2>2, Updated
<1>5. /\ u.rson \in [places -> numbers]
      /\ \A x \in places : u.rson[x] = IF x = at THEN NIL ELSE t.rson[x]
  <2>1. t.rson \in [places -> numbers] /\ NIL \in numbers
    BY <1>1, <1>3
  <2>2. u.rson = [t.rson EXCEPT ![at] = NIL]
    BY <1>2
  <2>. QED
    BY <2>1, <2>2, Updated
<1>6. Arrays(u)
  BY <1>2, <1>3, <1>4, <1>5 DEF Arrays, numbers, places
<1>7. Strings(u) = Strings(t) /\ Nodes(u) = Nodes(t)
  BY <1>2 DEF Strings, Nodes
<1>8. /\ \A x \in Strings(t) : u.lson[x] = t.lson[x]
      /\ \A x \in Nodes(t) : u.rson[x] = t.rson[x]
  BY <1>1, <1>4, <1>5
<1>9. SonOfItsDad(u)
  BY <1>2, <1>7, <1>8 DEF IsTree, SonOfItsDad
<1>10. DadOfRight(u)
  BY <1>2, <1>7, <1>8 DEF IsTree, DadOfRight
<1>11. DadOfLeft(u)
  BY <1>2, <1>7, <1>8 DEF IsTree, DadOfLeft, Nodes
<1>12. Ranked(u, rank) /\ Headed(u, buf)
  BY <1>2, <1>7 DEF IsTree, Ranked, Headed
<1>13. u.lson[at] = NIL /\ u.rson[at] = NIL
  BY <1>1, <1>4, <1>5
<1>. QED
  BY <1>6, <1>7, <1>9, <1>10, <1>11, <1>12, <1>13 DEF IsTree, u

\* Nor do symbols at which no string of the tree begins.
LEMMA RewriteKeeps ==
  ASSUME NEW t, NEW buf, NEW rank, IsTree(t, buf, rank), NEW new,
         \A x \in Strings(t) : new[x] = buf[x]
  PROVE  IsTree(t, new, rank)
<1>1. ASSUME NEW x \in Strings(t) PROVE Initial(new, t.dad[x]) = new[x]
  <2>1. t.dad[x] \in Nodes(t)
    BY Family
  <2>2. Initial(new, t.dad[x]) = Initial(buf, t.dad[x])
    BY <2>1, RootsBeyond DEF Initial, Nodes
  <2>3. Initial(buf, t.dad[x]) = buf[x]
    BY DEF IsTree, Headed
  <2>. QED
    BY <2>2, <2>3
<1>. QED
  BY <1>1 DEF IsTree, Headed

------------------------------------------------------------------------------
(* The steps.                                                              *)

LEMMA InsertStarts ==
  ASSUME NEW t, NEW rank, NEW at \in Positions, IsTree(t, textBuf', rank), at \notin Strings(t),
         at = Inserted', textBuf'[at] \in Symbols, StartInsert(t, at, textBuf'[at]), MatchInv
  PROVE  InsertInv' /\ TreeInv' /\ MatchInv' /\ Strings(tree') = Strings(t) /\ phase' = "insert"
<1>1. /\ phase' = "insert" /\ p' = Root(textBuf'[at]) /\ cmp' = 1
      /\ tree' = [t EXCEPT !.lson = [@ EXCEPT ![at] = NIL], !.rson = [@ EXCEPT ![at] = NIL]]
      /\ match' = [match EXCEPT !.length = 0]
  BY DEF StartInsert
<1>2. /\ IsTree(tree', textBuf', rank) /\ Strings(tree') = Strings(t)
      /\ tree'.lson[at] = NIL /\ tree'.rson[at] = NIL
  <2>1. tree' = Cleared(t, at)
    BY <1>1 DEF Cleared
  <2>. QED
    BY <2>1, ClearKeeps
<1>3. p' \in Roots /\ p' \in Nodes(tree') /\ Initial(textBuf', p') = textBuf'[at]
  <2>1. p' \in Roots /\ p' > N /\ textBuf'[at] \in Nat
    BY <1>1, RootsBeyond, Sizes
  <2>2. p' = N + 1 + textBuf'[at]
    BY <1>1 DEF Root
  <2>3. p' - N - 1 = textBuf'[at]
    BY <2>1, <2>2, Sizes
  <2>. QED
    BY <2>1, <2>3 DEF Nodes, Initial
<1>4. InsertInv'
  BY <1>1, <1>2, <1>3 DEF InsertInv
<1>5. TreeInv'
  BY <1>1, <1>2 DEF TreeInv, DeleteInv
<1>6. MatchInv'
  <2>1. /\ match' = [position |-> match'.position, length |-> match'.length]
        /\ match'.position = match.position /\ match'.length = 0
    BY <1>1 DEF MatchInv
  <2>. QED
    BY <1>1, <2>1, Sizes DEF MatchInv
<1>. QED
  BY <1>1, <1>2, <1>4, <1>5, <1>6

LEMMA FillKeeps == ASSUME LzssInv, Fill PROVE LzssInv'
<1>1. /\ phase = "fill" /\ j' = j + 1 /\ Inserted' = (IF j' <= F THEN r - j' ELSE r)
      /\ UNCHANGED <<data, out, taken, textBuf, s, r, srcPos, textLen, slides, q>>
      /\ StartInsert(tree, Inserted', textBuf[Inserted'])
  BY DEF Fill, windowVars, Inserted
<1>2. /\ CountsInv /\ j \in 0 .. F /\ r = N - F /\ r \in Positions /\ slides = 0 /\ textLen > 0
      /\ j' \in 1 .. F + 1 /\ N \in Nat /\ F \in Nat /\ F + F <= N /\ 1 < F
  BY <1>1, Sizes DEF LzssInv, CountsInv
<1>3. /\ Inserted' \in Positions
      /\ Behind(r, Inserted') > j
  BY <1>1, <1>2 DEF Positions, Behind
<1>4. \A x \in Strings(tree) : Behind(r, x) <= j
  BY <1>1 DEF LzssInv, WindowInv
<1>5. Inserted' \notin Strings(tree)
  <2>. SUFFICES ASSUME Inserted' \in Strings(tree) PROVE FALSE
    OBVIOUS
  <2>1. Behind(r, Inserted') \in Int
    BY <1>2, <1>3, Distances
  <2>. QED
    BY <1>2, <1>3, <1>4, <2>1
<1>6. textBuf'[Inserted'] \in Symbols
  <2>1. textBuf \in [0 .. N + F - 2 -> Symbols] /\ Inserted' \in 0 .. N + F - 2
    BY <1>2, <1>3 DEF LzssInv, RingInv, Positions
  <2>. QED
    BY <1>1, <2>1
<1>7. /\ InsertInv' /\ TreeInv' /\ MatchInv' /\ Strings(tree') = Strings(tree)
      /\ phase' = "insert"
  <2>1. PICK rank : IsTree(tree, textBuf, rank)
    BY DEF LzssInv, TreeInv
  <2>2. IsTree(tree, textBuf', rank) /\ StartInsert(tree, Inserted', textBuf'[Inserted'])
    BY <1>1, <2>1
  <2>3. MatchInv
    BY DEF LzssInv
  <2>. QED
    BY <1>3, <1>5, <1>6, <2>2, <2>3, InsertStarts
<1>8. CountsInv'
  BY <1>1, <1>2, <1>7 DEF CountsInv, Passed
<1>9. RingInv'
  BY <1>1 DEF LzssInv, RingInv, Passed, Symbol
<1>10. WindowInv'
  <2>. SUFFICES ASSUME NEW x \in Strings(tree)
                PROVE  Behind(r, x) <= IF j' <= F THEN j' - 1 ELSE N - F
    BY <1>1, <1>7 DEF WindowInv
  <2>1. x \in Positions
    BY DEF Strings
  <2>2. Behind(r, x) \in Int
    BY <1>2, <2>1, Distances
  <2>. QED
    BY <1>1, <1>2, <1>4, <2>2
<1>11. OutInv'
  BY <1>1 DEF LzssInv, OutInv, DecoderAt, Symbol
<1>. QED
  BY <1>7, <1>8, <1>9, <1>10, <1>11 DEF LzssInv

LEMMA Joining ==
  ASSUME LzssInv, phase = "insert", NEW rank, IsTree(tree, textBuf, rank)
  PROVE  /\ Inserted \in Positions /\ Inserted \notin Strings(tree)
         /\ Behind(r, Inserted) = IF j <= F THEN j ELSE N
         /\ j > F => Inserted = r
         /\ Below(tree) # NIL => /\ Below(tree) \in Strings(tree)
                                 /\ textBuf[Below(tree)] = textBuf[Inserted]
<1>1. /\ CountsInv /\ j \in 1 .. F + 1 /\ r \in Positions /\ (j <= F => r = N - F)
      /\ N \in Nat /\ F \in Nat /\ F + F <= N /\ 1 < F
  BY Sizes DEF LzssInv, CountsInv
<1>2. /\ Inserted \in Positions /\ Behind(r, Inserted) = IF j <= F THEN j ELSE N
      /\ j > F => Inserted = r
  BY <1>1 DEF Inserted, Positions, Behind
<1>3. \A x \in Strings(tree) : Behind(r, x) <= IF j <= F THEN j - 1 ELSE N - F
  BY DEF LzssInv, WindowInv
<1>4. Inserted \notin Strings(tree)
  BY <1>1, <1>2, <1>3
<1>5. /\ p \in Nodes(tree) /\ (p \in Roots => cmp >= 0)
      /\ Initial(textBuf, p) = textBuf[Inserted]
  BY DEF LzssInv, InsertInv
<1>6. Below(tree) # NIL => Below(tree) \in Strings(tree) /\ tree.dad[Below(tree)] = p
  <2>1. CASE cmp >= 0
    BY <1>5, <2>1 DEF Below, IsTree, DadOfRight
  <2>2. CASE ~(cmp >= 0)
    <3>1. p \in Strings(tree)
      BY <1>5, <2>2 DEF Nodes
    <3>. QED
      BY <2>2, <3>1 DEF Below, IsTree, DadOfLeft
  <2>. QED
    BY <2>1, <2>2
<1>7. Below(tree) # NIL => Initial(textBuf, p) = textBuf[Below(tree)]
  BY <1>6 DEF IsTree, Headed
<1>. QED
  BY <1>2, <1>4, <1>5, <1>6, <1>7

\* The insertion of a string ends with it in the tree.
LEMMA InsertEnds ==
  ASSUME LzssInv, phase = "insert", EndInsert, TreeInv', MatchInv',
         NEW rank, IsTree(tree, textBuf, rank),
         \A x \in Strings(tree') : x \in Strings(tree) \/ x = Inserted,
         UNCHANGED <<data, out, taken, windowVars, j, q>>
  PROVE  LzssInv'
<1>1. /\ UNCHANGED <<data, out, taken, textBuf, s, r, srcPos, textLen, slides, j, q>>
      /\ phase' = IF j <= F THEN "fill" ELSE IF slides > 0 THEN "slide" ELSE "emit"
  BY DEF EndInsert, windowVars
<1>2. CountsInv /\ slides \in Nat
  BY DEF LzssInv, CountsInv
<1>3. CountsInv'
  BY <1>1, <1>2 DEF CountsInv, Passed
<1>4. RingInv' /\ OutInv' /\ InsertInv'
  BY <1>1 DEF LzssInv, RingInv, OutInv, InsertInv, Passed, Symbol, DecoderAt
<1>5. WindowInv'
  <2>0. /\ Inserted \in Positions /\ Behind(r, Inserted) = IF j <= F THEN j ELSE N
        /\ j > F => Inserted = r
    BY Joining
  <2>1. ASSUME NEW x \in Strings(tree')
        PROVE  Behind(r, x) <= IF j <= F THEN j ELSE IF x = r THEN N ELSE N - F
    <3>1. CASE x \in Strings(tree)
      <4>1. Behind(r, x) <= IF j <= F THEN j - 1 ELSE N - F
        BY <3>1 DEF LzssInv, WindowInv
      <4>2. x \in Positions /\ r \in Positions /\ j \in Int /\ F \in Nat /\ N \in Nat
        BY <1>2, <3>1, Sizes DEF CountsInv, Strings
      <4>3. Behind(r, x) \in 1 .. N
        BY <4>2, Distances
      <4>. QED
        BY <4>1, <4>2, <4>3
    <3>2. CASE x = Inserted
      BY <1>2, <2>0, <3>2, Sizes DEF CountsInv
    <3>. QED
      BY <2>1, <3>1, <3>2
  <2>. QED
    BY <1>1, <2>1 DEF WindowInv
<1>. QED
  BY <1>3, <1>4, <1>5 DEF LzssInv

LEMMA DescendKeeps == ASSUME LzssInv, Descend PROVE LzssInv'
<1>. DEFINE next == Below(tree)
            shared == Shared(textBuf, Inserted, next)
            better == IF shared > match.length THEN [position |-> next, length |-> shared] ELSE match
<1>1. /\ phase = "insert" /\ UNCHANGED <<data, out, taken, windowVars, j, q>>
      /\ UNCHANGED <<textBuf, s, r, srcPos, textLen, slides>>
  BY DEF Descend, windowVars
<1>2. \/ next = NIL /\ tree' = Attached(tree, Inserted) /\ UNCHANGED match /\ EndInsert
      \/ /\ next # NIL /\ match' = better /\ better.length >= F
         /\ tree' = Replaced(tree, next, Inserted) /\ EndInsert
      \/ /\ next # NIL /\ match' = better /\ ~(better.length >= F)
         /\ p' = next /\ cmp' = textBuf[Inserted + shared] - textBuf[next + shared]
         /\ UNCHANGED <<phase, tree>>
  BY DEF Descend
<1>3. PICK rank : IsTree(tree, textBuf, rank)
  BY DEF LzssInv, TreeInv
<1>4. /\ Inserted \in Positions /\ Inserted \notin Strings(tree)
      /\ j > F => Inserted = r
      /\ next # NIL => next \in Strings(tree) /\ textBuf[next] = textBuf[Inserted]
  BY <1>1, <1>3, Joining
<1>5. /\ p \in Nodes(tree) /\ (p \in Roots => cmp >= 0)
      /\ Initial(textBuf, p) = textBuf[Inserted]
      /\ tree.lson[Inserted] = NIL /\ tree.rson[Inserted] = NIL
  BY <1>1 DEF LzssInv, InsertInv
<1>6. MatchInv /\ CountsInv /\ F \in Nat /\ N \in Nat /\ 1 < F
  BY Sizes DEF LzssInv
<1>7. next # NIL =>
        /\ shared \in 1 .. F /\ next \in Positions
        /\ \A k \in 0 .. shared - 1 : textBuf[Inserted + k] = textBuf[next + k]
  <2>. SUFFICES ASSUME next # NIL
                PROVE  /\ shared \in 1 .. F /\ next \in Positions
                       /\ \A k \in 0 .. shared - 1 : textBuf[Inserted + k] = textBuf[next + k]
    OBVIOUS
  <2>1. next \in Positions /\ next \in Nat /\ Inserted \in Nat
    BY <1>4, RootsBeyond DEF Strings
  <2>. QED
    BY <1>4, <2>1, SharedAgrees
<1>8. next # NIL =>
        /\ better = [position |-> better.position, length |-> better.length]
        /\ better.position \in Positions /\ better.length \in 0 .. F
        /\ better.length >= shared
        /\ j > F => \A k \in 0 .. better.length - 1 :
                      /\ Behind(r, better.position) <= N - F
                      /\ textBuf[better.position + k] = textBuf[r + k]
  <2>. SUFFICES ASSUME next # NIL
                PROVE  /\ better = [position |-> better.position, length |-> better.length]
                       /\ better.position \in Positions /\ better.length \in 0 .. F
                       /\ better.length >= shared
                       /\ j > F => \A k \in 0 .. better.length - 1 :
                                     /\ Behind(r, better.position) <= N - F
                                     /\ textBuf[better.position + k] = textBuf[r + k]
    OBVIOUS
  <2>1. CASE shared > match.length
    <3>1. better.position = next /\ better.length = shared
          /\ better = [position |-> next, length |-> shared]
      BY <2>1
    <3>2. j > F => Behind(r, next) <= N - F
      <4>. SUFFICES ASSUME j > F PROVE Behind(r, next) <= N - F
        OBVIOUS
      <4>1. ~(j <= F)
        BY <1>6 DEF CountsInv
      <4>. QED
        BY <1>1, <1>4, <4>1 DEF LzssInv, WindowInv
    <3>. HIDE DEF better, shared, next
    <3>. QED
      BY <1>4, <1>7, <3>1, <3>2
  <2>2. CASE ~(shared > match.length)
    <3>1. better = match
      BY <2>2
    <3>. HIDE DEF better, shared, next
    <3>. QED
      BY <1>1, <1>6, <1>7, <2>2, <3>1 DEF MatchInv
  <2>. QED
    BY <2>1, <2>2
<1>. HIDE DEF next, shared, better
<1>9. CASE next = NIL /\ tree' = Attached(tree, Inserted) /\ UNCHANGED match /\ EndInsert
  <2>1. /\ IsTree(tree', textBuf, [rank EXCEPT ![Inserted] = rank[p] + 1])
        /\ Strings(tree') = Strings(tree) \cup {Inserted}
    BY <1>3, <1>4, <1>5, <1>9, AttachKeeps DEF next
  <2>2. phase' # "delete" /\ phase' # "insert" /\ (phase' = "emit" => j > F)
    BY <1>6, <1>9 DEF EndInsert, CountsInv
  <2>3. TreeInv'
    BY <1>1, <2>1, <2>2 DEF TreeInv, DeleteInv
  <2>4. MatchInv'
    BY <1>1, <1>6, <1>9, <2>2 DEF MatchInv
  <2>. QED
    BY <1>1, <1>3, <1>9, <2>1, <2>3, <2>4, InsertEnds
<1>10. CASE /\ next # NIL /\ match' = better /\ better.length >= F
            /\ tree' = Replaced(tree, next, Inserted) /\ EndInsert
  <2>1. /\ IsTree(tree', textBuf, [rank EXCEPT ![Inserted] = rank[next]])
        /\ Strings(tree') = (Strings(tree) \ {next}) \cup {Inserted}
    <3>1. Renamed(tree, tree', next, Inserted)
      BY <1>3, <1>4, <1>10, ReplacedRenames
    <3>. QED
      BY <1>3, <1>4, <1>10, <3>1, RenamedKeeps
  <2>2. phase' # "delete" /\ phase' # "insert" /\ (phase' = "emit" => j > F)
    BY <1>6, <1>10 DEF EndInsert, CountsInv
  <2>3. TreeInv'
    BY <1>1, <2>1, <2>2 DEF TreeInv, DeleteInv
  <2>4. MatchInv'
    BY <1>1, <1>8, <1>10, <2>2 DEF MatchInv
  <2>. QED
    BY <1>1, <1>3, <1>10, <2>1, <2>3, <2>4, InsertEnds
<1>11. CASE /\ next # NIL /\ match' = better /\ ~(better.length >= F)
            /\ p' = next /\ cmp' = textBuf[Inserted + shared] - textBuf[next + shared]
            /\ UNCHANGED <<phase, tree>>
  <2>1. CountsInv' /\ RingInv' /\ WindowInv' /\ OutInv' /\ TreeInv'
    BY <1>1, <1>11 DEF LzssInv, CountsInv, RingInv, WindowInv, OutInv, TreeInv, DeleteInv, Passed,
         Symbol, DecoderAt, IsTree, OnTheWay
  <2>2. MatchInv'
    BY <1>1, <1>8, <1>11 DEF MatchInv
  <2>3. InsertInv'
    <3>1. p' \in Nodes(tree') /\ p' \notin Roots /\ Initial(textBuf', p') = textBuf'[Inserted']
      <4>1. p' \in Strings(tree) /\ textBuf[p'] = textBuf[Inserted] /\ p' \in Positions
        BY <1>4, <1>7, <1>11
      <4>2. p' \notin Roots /\ ~(p' > N)
        BY <4>1, RootsBeyond
      <4>3. Inserted' = Inserted
        BY <1>1 DEF Inserted
      <4>. QED
        BY <1>1, <1>11, <4>1, <4>2, <4>3 DEF Nodes, Initial
    <3>2. cmp' \in Int
      <4>1. shared \in 1 .. F - 1
        BY <1>6, <1>7, <1>8, <1>11
      <4>2. Inserted + shared \in 0 .. N + F - 2 /\ next + shared \in 0 .. N + F - 2
        BY <1>4, <1>6, <1>7, <1>11, <4>1 DEF Positions
      <4>3. textBuf[Inserted + shared] \in Nat /\ textBuf[next + shared] \in Nat
        BY <4>2, Sizes DEF LzssInv, RingInv
      <4>. QED
        BY <1>11, <4>3
    <3>3. tree'.lson[Inserted'] = NIL /\ tree'.rson[Inserted'] = NIL
      BY <1>1, <1>5, <1>11 DEF Inserted
    <3>. QED
      BY <3>1, <3>2, <3>3 DEF InsertInv
  <2>. QED
    BY <2>1, <2>2, <2>3 DEF LzssInv
<1>. QED
  BY <1>2, <1>9, <1>10, <1>11

\* Reading behind the ring is reading its beginning.
LEMMA Mirrored ==
  ASSUME RingInv, NEW x \in Positions, NEW k \in 0 .. F - 1
  PROVE  Wrap(x + k) \in Positions /\ textBuf[x + k] = textBuf[Wrap(x + k)]
<1>1. N \in Nat /\ F \in Nat /\ F + F <= N /\ x \in 0 .. N - 1
  BY Sizes DEF Positions
<1>2. CASE x + k < N
  BY <1>1, <1>2 DEF Wrap, Positions
<1>3. CASE ~(x + k < N)
  <2>1. x + k - N \in 0 .. F - 2 /\ N + (x + k - N) = x + k /\ Wrap(x + k) = x + k - N
    BY <1>1, <1>3 DEF Wrap
  <2>2. textBuf[N + (x + k - N)] = textBuf[x + k - N]
    BY <2>1 DEF RingInv
  <2>. QED
    BY <1>1, <2>1, <2>2 DEF Positions
<1>. QED
  BY <1>2, <1>3

\* What a position further on in the ring holds.
LEMMA Further ==
  ASSUME NEW base \in Positions, NEW x \in Positions, NEW k \in 0 .. F - 1, NEW n \in Nat,
         k < n, n <= F, x = base \/ Behind(base, x) <= N - F
  PROVE  LET y == Wrap(x + k)
         IN  IF x = base THEN Ahead(base, y) = k
             ELSE IF Ahead(base, y) < n THEN Ahead(base, y) = k - Behind(base, x)
             ELSE Behind(base, y) = Behind(base, x) - k
BY Sizes DEF Positions, Ahead, Behind, Wrap

\* The look-ahead continues as the ring does from where the longest match begins.
LEMMA MatchRepeats ==
  ASSUME LzssInv, phase = "emit", NEW length \in Nat, length <= match.length, length <= textLen
  PROVE  \A k \in 1 .. length :
           Symbol(Passed + k) = Symbol(Passed + k - Behind(r, match.position))
<1>. SUFFICES ASSUME NEW k \in 1 .. length
              PROVE  Symbol(Passed + k) = Symbol(Passed + k - Behind(r, match.position))
  OBVIOUS
<1>. DEFINE pos == match.position
            a == Wrap(r + (k - 1))
            b == Wrap(pos + (k - 1))
<1>1. /\ CountsInv /\ MatchInv /\ RingInv /\ N \in Nat /\ F \in Nat /\ F + F <= N
  BY Sizes DEF LzssInv
<1>2. /\ r \in Positions /\ pos \in Positions /\ Passed \in Nat /\ textLen \in Nat
      /\ textLen <= F /\ match.length \in 0 .. F
  BY <1>1 DEF CountsInv, MatchInv
<1>3. k - 1 \in 0 .. F - 1 /\ k - 1 \in 0 .. match.length - 1 /\ k - 1 < textLen
  BY <1>1, <1>2
<1>4. Behind(r, pos) <= N - F /\ textBuf[pos + (k - 1)] = textBuf[r + (k - 1)]
  BY <1>1, <1>3 DEF MatchInv
<1>5. /\ a \in Positions /\ b \in Positions /\ textBuf[b] = textBuf[a]
  BY <1>1, <1>2, <1>3, <1>4, Mirrored
<1>6. Ahead(r, a) = k - 1
  BY <1>2, <1>3, Further
<1>7. textBuf[a] = Symbol(Passed + k)
  <2>1. textBuf[a] = Symbol(Passed + 1 + Ahead(r, a))
    BY <1>1, <1>3, <1>5, <1>6 DEF RingInv
  <2>2. Passed + 1 + Ahead(r, a) = Passed + k
    BY <1>2, <1>6
  <2>. QED
    BY <2>1, <2>2
<1>8. textBuf[b] = Symbol(Passed + k - Behind(r, pos))
  <2>0. pos # r /\ Behind(r, pos) \in Nat
    <3>1. Behind(r, r) = N /\ Behind(r, pos) \in Nat
      BY <1>1, <1>2 DEF Behind, Positions
    <3>. QED
      BY <1>1, <1>2, <1>3, <1>4, <3>1
  <2>1. IF Ahead(r, b) < textLen THEN Ahead(r, b) = (k - 1) - Behind(r, pos)
        ELSE Behind(r, b) = Behind(r, pos) - (k - 1)
    <3>. HIDE DEF pos, b
    <3>1. IF Ahead(r, Wrap(pos + (k - 1))) < textLen
          THEN Ahead(r, Wrap(pos + (k - 1))) = (k - 1) - Behind(r, pos)
          ELSE Behind(r, Wrap(pos + (k - 1))) = Behind(r, pos) - (k - 1)
      BY <1>2, <1>3, <1>4, <2>0, Further
    <3>. QED
      BY <3>1 DEF b
  <2>2. CASE Ahead(r, b) < textLen
    <3>1. textBuf[b] = Symbol(Passed + 1 + Ahead(r, b))
      BY <1>1, <1>5, <2>2 DEF RingInv
    <3>2. Passed + 1 + Ahead(r, b) = Passed + k - Behind(r, pos)
      BY <1>2, <2>0, <2>1, <2>2
    <3>. QED
      BY <3>1, <3>2
  <2>3. CASE ~(Ahead(r, b) < textLen)
    <3>1. textBuf[b] = Symbol(Passed + 1 - Behind(r, b))
      BY <1>1, <1>5, <2>3 DEF RingInv
    <3>2. Passed + 1 - Behind(r, b) = Passed + k - Behind(r, pos)
      BY <1>2, <2>0, <2>1, <2>3
    <3>. QED
      BY <3>1, <3>2
  <2>. QED
    BY <2>2, <2>3
<1>. QED
  BY <1>5, <1>7, <1>8

\* Emitting a code lets the decoder reproduce what the window will slide over.
LEMMA EmitDecodes ==
  ASSUME LzssInv, Emit
  PROVE  /\ \E decoder : DecodedTo(out', decoder) /\ DecoderAt(decoder, Wrap(r + slides'), taken')
         /\ out' \in Seq(Codes) /\ Len(out') = Len(out) + 1 /\ SubSeq(out', 1, Len(out)) = out
         /\ out'[Len(out')] \in Codes
         /\ slides' \in 1 .. textLen /\ taken' = taken + slides' /\ taken' \in taken + 1 .. Len(data)
         /\ taken < Len(data)
<1>. DEFINE length == IF match.length > textLen THEN textLen ELSE match.length
            worth == length > THRESHOLD
            code == IF worth THEN Copy(match.position, length) ELSE Literal(textBuf[r])
<1>1. /\ phase = "emit" /\ out' = Append(out, code) /\ slides' = (IF worth THEN length ELSE 1)
      /\ taken' = taken + slides'
  BY DEF Emit
<1>2. /\ CountsInv /\ MatchInv /\ RingInv /\ OutInv /\ N \in Nat /\ F \in Nat /\ F + F <= N
      /\ THRESHOLD \in Nat /\ 0 < THRESHOLD /\ 1 < F
  BY Sizes DEF LzssInv
<1>3. /\ r \in Positions /\ slides = 0 /\ taken \in Nat /\ Passed = taken /\ Len(data) \in Nat
      /\ textLen \in 1 .. F /\ taken + textLen <= Len(data) /\ data \in Seq(Symbols)
      /\ match.length \in 0 .. F /\ match.position \in Positions /\ out \in Seq(Codes)
  BY <1>1, <1>2 DEF CountsInv, MatchInv, Passed
<1>4. /\ length \in 0 .. F /\ length <= textLen /\ length <= match.length
      /\ slides' \in 1 .. textLen
  BY <1>1, <1>2, <1>3
<1>5. taken' \in taken + 1 .. Len(data) /\ taken < Len(data)
  BY <1>1, <1>3, <1>4
<1>6. Wrap(r + slides) = r
  BY <1>2, <1>3 DEF Wrap, Positions
<1>7. PICK decoder : DecodedTo(out, decoder) /\ DecoderAt(decoder, r, taken)
  BY <1>2, <1>6 DEF OutInv
<1>8. textBuf[r] = data[taken + 1] /\ textBuf[r] \in Symbols
  <2>1. Ahead(r, r) = 0
    BY <1>3, Distances
  <2>2. textBuf[r] = Symbol(Passed + 1 + 0)
    BY <1>2, <1>3, <2>1 DEF RingInv
  <2>3. Passed + 1 + 0 = taken + 1 /\ taken + 1 \in 1 .. Len(data)
    BY <1>3, <1>5
  <2>. QED
    BY <1>3, <2>2, <2>3 DEF Symbol
<1>9. DecoderAt(DecodedBy(decoder, code), Wrap(r + slides'), taken')
  <2>1. CASE worth
    <3>1. /\ match.position \in 0 .. N - 1 /\ length \in Nat /\ length <= N
          /\ taken + length <= Len(data)
      BY <1>2, <1>3, <1>4 DEF Positions
    <3>2. \A k \in 1 .. length : Symbol(taken + k) = Symbol(taken + k - Behind(r, match.position))
      BY <1>1, <1>3, <1>4, <3>1, MatchRepeats
    <3>3. code = Copy(match.position, length) /\ slides' = length /\ taken' = taken + length
      BY <1>1, <2>1
    <3>. HIDE DEF length, code
    <3>4. DecoderAt(DecodedBy(decoder, Copy(match.position, length)), Wrap(r + length), taken + length)
      BY <1>3, <1>7, <3>1, <3>2, CopiedAt
    <3>. QED
      BY <3>3, <3>4
  <2>2. CASE ~worth
    <3>1. DecodedBy(decoder, Literal(textBuf[r])) = Accepted(decoder, data[taken + 1])
      BY <1>8 DEF DecodedBy, Literal
    <3>2. DecoderAt(Accepted(decoder, data[taken + 1]), Wrap(r + 1), taken + 1)
      BY <1>3, <1>5, <1>7, AcceptedAt
    <3>. QED
      BY <1>1, <2>2, <3>1, <3>2
  <2>. QED
    BY <2>1, <2>2
<1>10. code \in Codes
  <2>1. CASE worth
    <3>1. match.position \in 0 .. N - 1 /\ length \in THRESHOLD + 1 .. F
      BY <1>2, <1>3, <1>4, <2>1 DEF Positions
    <3>. QED
      BY <2>1, <3>1 DEF Codes
  <2>2. CASE ~worth
    BY <1>8, <2>2 DEF Codes
  <2>. QED
    BY <2>1, <2>2
<1>. HIDE DEF code
<1>11. DecodedTo(out', DecodedBy(decoder, code))
  BY <1>1, <1>3, <1>7, <1>10, NextDecoded
<1>12. /\ out' \in Seq(Codes) /\ Len(out') = Len(out) + 1 /\ SubSeq(out', 1, Len(out)) = out
       /\ out'[Len(out')] \in Codes
  <2>1. out' \in Seq(Codes) /\ Len(out') = Len(out) + 1 /\ out'[Len(out) + 1] = code
        /\ \A i \in 1 .. Len(out) : out'[i] = out[i]
    BY <1>1, <1>3, <1>10
  <2>2. SubSeq(out', 1, Len(out)) = out
    BY <1>3, <2>1
  <2>. QED
    BY <1>10, <2>1, <2>2
<1>. QED
  BY <1>1, <1>4, <1>5, <1>9, <1>11, <1>12

LEMMA EmitKeeps == ASSUME LzssInv, Emit PROVE LzssInv'
<1>1. /\ phase = "emit" /\ phase' = "slide" /\ taken' = taken + slides'
      /\ UNCHANGED <<data, tree, match, textBuf, s, r, srcPos, textLen, j, p, cmp, q>>
  BY DEF Emit
<1>2. /\ \E decoder : DecodedTo(out', decoder) /\ DecoderAt(decoder, Wrap(r + slides'), taken')
      /\ out' \in Seq(Codes) /\ slides' \in 1 .. textLen /\ taken' \in 0 .. Len(data)
  <2>1. CountsInv
    BY DEF LzssInv
  <2>. QED
    BY <2>1, EmitDecodes DEF CountsInv
<1>3. CountsInv /\ slides = 0 /\ Passed' = Passed /\ textLen \in 0 .. F /\ F \in Nat /\ ~(j <= F)
  <2>1. CountsInv /\ slides = 0 /\ taken \in Nat /\ slides' \in Nat /\ F \in Nat /\ ~(j <= F)
    BY <1>1, <1>2, Sizes DEF LzssInv, CountsInv
  <2>2. ASSUME NEW a \in Nat, NEW b \in Nat PROVE (a + b) - b = a - 0
    OBVIOUS
  <2>3. Passed' = Passed
    BY <1>1, <2>1, <2>2 DEF Passed
  <2>4. textLen \in 0 .. F
    BY <2>1 DEF CountsInv, Passed
  <2>. QED
    BY <2>1, <2>3, <2>4
<1>4. CountsInv'
  <2>1. /\ data' = data /\ r' = r /\ s' = s /\ textLen' = textLen /\ srcPos' = srcPos /\ j' = j
        /\ phase' = "slide" /\ slides' \in 1 .. F
    BY <1>1, <1>2, <1>3
  <2>. QED
    BY <1>2, <1>3, <2>1 DEF CountsInv
<1>5. RingInv' /\ WindowInv' /\ InsertInv' /\ TreeInv'
  BY <1>1, <1>3 DEF LzssInv, RingInv, WindowInv, InsertInv, TreeInv, DeleteInv, Symbol
<1>6. MatchInv'
  BY <1>1 DEF LzssInv, MatchInv
<1>7. OutInv'
  BY <1>1, <1>2 DEF OutInv, DecoderAt, Symbol
<1>. QED
  BY <1>4, <1>5, <1>6, <1>7 DEF LzssInv

LEMMA StartSlideKeeps == ASSUME LzssInv, StartSlide PROVE LzssInv'
<1>1. /\ phase = "slide" /\ phase' = "delete" /\ q' = tree.lson[s]
      /\ UNCHANGED <<data, out, taken, tree, match, textBuf, s, r, srcPos, textLen, slides, j>>
  BY DEF StartSlide, windowVars
<1>2. CountsInv' /\ RingInv' /\ WindowInv' /\ InsertInv' /\ MatchInv' /\ OutInv'
  BY <1>1 DEF LzssInv, CountsInv, RingInv, WindowInv, InsertInv, MatchInv, OutInv, Passed, Symbol,
       DecoderAt
<1>3. PICK rank : IsTree(tree, textBuf, rank)
  BY DEF LzssInv, TreeInv
<1>4. DeleteInv(rank)'
  <2>. SUFFICES ASSUME s \in Strings(tree), tree.lson[s] # NIL
                PROVE  /\ q' \in Strings(tree) /\ rank[s] < rank[q'] /\ q' = tree.lson[s]
                       /\ textBuf[q'] = textBuf[s]
    BY <1>1 DEF DeleteInv, OnTheWay
  <2>1. q' \in Strings(tree) /\ tree.dad[q'] = s /\ q' = tree.lson[s]
    BY <1>1, <1>3 DEF IsTree, DadOfLeft
  <2>2. rank[s] < rank[q'] /\ Initial(textBuf, s) = textBuf[q']
    BY <1>3, <2>1 DEF IsTree, Ranked, Headed
  <2>3. Initial(textBuf, s) = textBuf[s]
    BY RootsBeyond DEF Initial, Strings
  <2>. QED
    BY <2>1, <2>2, <2>3
<1>5. TreeInv'
  BY <1>1, <1>3, <1>4 DEF TreeInv
<1>. QED
  BY <1>2, <1>5 DEF LzssInv

LEMMA SearchKeeps == ASSUME LzssInv, Search PROVE LzssInv'
<1>1. /\ phase = "delete" /\ q' = tree.rson[q]
      /\ UNCHANGED <<data, out, taken, phase, tree, match, textBuf, s, r, srcPos, textLen, slides, j>>
      /\ tree.dad[s] # NIL /\ tree.lson[s] # NIL /\ tree.rson[s] # NIL /\ tree.rson[q] # NIL
  BY DEF Search, Searching, windowVars
<1>2. CountsInv' /\ RingInv' /\ WindowInv' /\ InsertInv' /\ MatchInv' /\ OutInv'
  BY <1>1 DEF LzssInv, CountsInv, RingInv, WindowInv, InsertInv, MatchInv, OutInv, Passed, Symbol,
       DecoderAt
<1>3. PICK rank : IsTree(tree, textBuf, rank) /\ DeleteInv(rank)
  BY DEF LzssInv, TreeInv
<1>4. DeleteInv(rank)'
  <2>. SUFFICES ASSUME s \in Strings(tree)
                PROVE  /\ q' \in Strings(tree) /\ rank[s] < rank[q']
                       /\ tree.dad[q'] \in Strings(tree) /\ rank[s] < rank[tree.dad[q']]
                       /\ tree.rson[tree.dad[q']] = q' /\ textBuf[q'] = textBuf[s]
    BY <1>1 DEF DeleteInv, OnTheWay
  <2>1. q \in Strings(tree) /\ rank[s] < rank[q] /\ textBuf[q] = textBuf[s]
    BY <1>1, <1>3 DEF DeleteInv, OnTheWay
  <2>2. q' \in Strings(tree) /\ tree.dad[q'] = q /\ tree.rson[q] = q'
    BY <1>1, <1>3, <2>1 DEF IsTree, DadOfRight, Nodes
  <2>3. rank[q] < rank[q'] /\ Initial(textBuf, q) = textBuf[q']
    BY <1>3, <2>2 DEF IsTree, Ranked, Headed
  <2>4. Initial(textBuf, q) = textBuf[q]
    BY <2>1, RootsBeyond DEF Initial, Strings
  <2>5. rank[s] \in Int /\ rank[q] \in Int /\ rank[q'] \in Int
    <3>1. s \in (0 .. N) \cup Roots /\ q \in (0 .. N) \cup Roots /\ q' \in (0 .. N) \cup Roots
      BY <1>3, <2>1, <2>2, Family DEF Nodes
    <3>. QED
      BY <1>3, <3>1 DEF IsTree, Ranked
  <2>. QED
    BY <2>1, <2>2, <2>3, <2>4, <2>5
<1>5. TreeInv'
  BY <1>1, <1>3, <1>4 DEF TreeInv
<1>. QED
  BY <1>2, <1>5 DEF LzssInv

\* The numbers after the window has moved by one symbol.
LEMMA SlideCounts ==
  ASSUME LzssInv, Slide
  PROVE  /\ phase = "delete" /\ ~Searching /\ j = F + 1 /\ j' = j
         /\ r \in Positions /\ s \in Positions /\ s = Wrap(r + F) /\ r' = Wrap(r + 1)
         /\ slides \in 1 .. F /\ slides' = slides - 1 /\ Passed \in Nat /\ Passed' = Passed + 1
         /\ textLen \in 1 .. F /\ data' = data /\ data \in Seq(Symbols)
         /\ UNCHANGED <<data, out, taken, j, q>>
         /\ \/ /\ Passed + F < Len(data) /\ textLen = F /\ textLen' = F
               /\ textBuf' = Stored(textBuf, s, data[Passed + F + 1])
            \/ ~(Passed + F < Len(data)) /\ textLen' = textLen - 1 /\ textBuf' = textBuf
         /\ \/ StartInsert(deleteNode(tree, s), r', textBuf'[r'])
            \/ /\ tree' = deleteNode(tree, s) /\ match' = match
               /\ phase' = (IF slides' > 0 THEN "slide" ELSE "finished")
         /\ CountsInv'
<1>1. /\ phase = "delete" /\ ~Searching /\ UNCHANGED <<data, out, taken, j, q>>
      /\ s' = (s + 1) % N /\ r' = (r + 1) % N /\ slides' = slides - 1
      /\ \/ /\ srcPos < Len(data) /\ textBuf' = Stored(textBuf, s, data[srcPos + 1])
            /\ textLen' = textLen /\ srcPos' = srcPos + 1
         \/ /\ ~(srcPos < Len(data)) /\ textBuf' = textBuf /\ textLen' = textLen - 1
            /\ srcPos' = srcPos
      /\ \/ textLen' > 0 /\ StartInsert(deleteNode(tree, s), r', textBuf'[r'])
         \/ /\ ~(textLen' > 0) /\ tree' = deleteNode(tree, s) /\ match' = match
            /\ phase' = (IF slides' > 0 THEN "slide" ELSE "finished")
  BY DEF Slide
<1>2. N \in Nat /\ F \in Nat /\ 1 < F /\ F + F <= N
  BY Sizes
<1>3. /\ CountsInv /\ data \in Seq(Symbols) /\ Len(data) \in Nat /\ taken \in 0 .. Len(data)
      /\ slides \in 1 .. F /\ Passed \in Nat /\ taken = Passed + slides
      /\ r \in 0 .. N - 1 /\ s = Wrap(r + F) /\ j = F + 1 /\ j \in Nat
      /\ textLen = (IF Len(data) - Passed < F THEN Len(data) - Passed ELSE F)
      /\ srcPos = (IF Passed + F < Len(data) THEN Passed + F ELSE Len(data))
  <2>1. CountsInv /\ taken \in Int /\ slides \in Int
    BY DEF LzssInv, CountsInv
  <2>2. taken = Passed + slides
    BY <2>1 DEF Passed
  <2>. QED
    BY <1>1, <1>2, <2>1, <2>2 DEF CountsInv, Positions
<1>4. s \in 0 .. N - 1 /\ r' = Wrap(r + 1) /\ s' = Wrap(s + 1)
  <2>1. s \in 0 .. N - 1
    BY <1>2, <1>3 DEF Wrap
  <2>2. r + 1 \in Nat /\ r + 1 < N + N /\ s + 1 \in Nat /\ s + 1 < N + N
    BY <1>2, <1>3, <2>1
  <2>. QED
    BY <1>1, <2>1, <2>2, Wrapped
<1>5. Passed' = Passed + 1 /\ Passed' \in Nat /\ slides' \in 0 .. F - 1 /\ taken' = taken
  <2>1. ASSUME NEW a \in Int, NEW b \in Int PROVE a - (b - 1) = a - b + 1
    OBVIOUS
  <2>2. taken \in Int /\ slides \in Int
    BY <1>3
  <2>3. Passed' = Passed + 1
    BY <1>1, <2>1, <2>2 DEF Passed
  <2>. QED
    BY <1>1, <1>2, <1>3, <2>3
<1>6. r' \in Positions /\ s' = Wrap(r' + F)
  BY <1>2, <1>3, <1>4 DEF Wrap, Positions
<1>7. \/ /\ Passed + F < Len(data) /\ textLen = F /\ textLen' = F /\ srcPos' = Passed + F + 1
         /\ textBuf' = Stored(textBuf, s, data[Passed + F + 1])
      \/ /\ ~(Passed + F < Len(data)) /\ textLen' = textLen - 1 /\ textBuf' = textBuf
         /\ srcPos' = Len(data) /\ textLen = Len(data) - Passed
  BY <1>1, <1>2, <1>3
<1>8. textLen \in 1 .. F
  BY <1>2, <1>3
<1>9. /\ textLen' = (IF Len(data) - (Passed + 1) < F THEN Len(data) - (Passed + 1) ELSE F)
      /\ srcPos' = (IF Passed + 1 + F < Len(data) THEN Passed + 1 + F ELSE Len(data))
  <2>1. CASE Passed + F < Len(data)
    BY <1>2, <1>3, <1>7, <2>1
  <2>2. CASE ~(Passed + F < Len(data))
    BY <1>2, <1>3, <1>7, <2>2
  <2>. QED
    BY <2>1, <2>2
<1>10. \/ phase' = "insert" /\ textLen' > 0
       \/ phase' = "slide" /\ slides' > 0
       \/ phase' = "finished" /\ taken = Len(data)
  <2>1. CASE textLen' > 0
    BY <1>1, <2>1 DEF StartInsert
  <2>2. CASE ~(textLen' > 0)
    <3>1. Len(data) - (Passed + 1) <= 0
      BY <1>2, <1>3, <1>9, <2>2
    <3>2. slides = 1 /\ taken = Len(data)
      BY <1>3, <3>1
    <3>. QED
      BY <1>1, <2>2, <3>2
  <2>. QED
    BY <2>1, <2>2
<1>11. CountsInv'
  <2>1. /\ data' = data /\ out' = out /\ out \in Seq(Codes) /\ 0 < Len(data) /\ Len(data) <= MaxLength
        /\ j' \in 1 .. F + 1 /\ ~(j' <= F)
    BY <1>1, <1>2, <1>3 DEF CountsInv
  <2>2. slides' \in 0 .. F /\ taken' \in 0 .. Len(data)
    BY <1>2, <1>3, <1>5
  <2>3. /\ textLen' = (IF Len(data') - Passed' < F THEN Len(data') - Passed' ELSE F)
        /\ srcPos' = (IF Passed' + F < Len(data') THEN Passed' + F ELSE Len(data'))
    BY <1>5, <1>9, <2>1
  <2>4. /\ phase' \in {"insert", "slide", "finished"}
        /\ phase' = "slide" => slides' > 0
        /\ phase' = "insert" => textLen' > 0
        /\ phase' = "finished" => taken' = Len(data')
    BY <1>5, <1>10, <2>1
  <2>. QED
    BY <1>3, <1>5, <1>6, <2>1, <2>2, <2>3, <2>4 DEF CountsInv
<1>. QED
  BY <1>1, <1>3, <1>4, <1>5, <1>7, <1>8, <1>11 DEF Positions

LEMMA SlideRing == ASSUME LzssInv, Slide PROVE RingInv'
<1>1. /\ r \in Positions /\ s \in Positions /\ s = Wrap(r + F) /\ r' = Wrap(r + 1)
      /\ Passed \in Nat /\ Passed' = Passed + 1
      /\ textLen \in 1 .. F /\ data' = data /\ data \in Seq(Symbols)
      /\ \/ /\ Passed + F < Len(data) /\ textLen = F /\ textLen' = F
            /\ textBuf' = Stored(textBuf, s, data[Passed + F + 1])
         \/ ~(Passed + F < Len(data)) /\ textLen' = textLen - 1 /\ textBuf' = textBuf
  BY SlideCounts
<1>2. RingInv /\ N \in Nat /\ F \in Nat /\ 1 < F /\ F + F <= N
  BY Sizes DEF LzssInv
<1>3. /\ Ahead(r, s) = F /\ r # s /\ Ahead(r, r) = 0 /\ Behind(r, r) = N
  BY <1>1, <1>2 DEF Ahead, Behind, Wrap, Positions
<1>4. ASSUME NEW x \in Positions
      PROVE  /\ Ahead(r, x) \in 0 .. N - 1 /\ Behind(r, x) = N - Ahead(r, x)
             /\ Ahead(r', x) = IF x = r THEN N - 1 ELSE Ahead(r, x) - 1
             /\ Behind(r', x) = IF x = r THEN 1 ELSE Behind(r, x) + 1
             /\ Ahead(r, x) = 0 <=> x = r
             /\ Ahead(r, x) = F <=> x = s
  <2>1. Ahead(r, x) = F => x = s
    <3>1. Wrap(r + Ahead(r, x)) = x
      BY <1>1, Distances
    <3>. QED
      BY <1>1, <3>1
  <2>. QED
    BY <1>1, <1>3, <2>1, Distances, Onward
<1>5. ASSUME NEW x \in Positions
      PROVE  (IF Ahead(r', x) < textLen' THEN Symbol(Passed' + 1 + Ahead(r', x))
              ELSE Symbol(Passed' + 1 - Behind(r', x)))
               = IF x = s /\ textLen' = F THEN Symbol(Passed + F + 1) ELSE textBuf[x]
  <2>0. textBuf[x] = IF Ahead(r, x) < textLen THEN Symbol(Passed + 1 + Ahead(r, x))
                     ELSE Symbol(Passed + 1 - Behind(r, x))
    BY <1>2 DEF RingInv
  <2>1. CASE x = r
    <3>1. Ahead(r', x) = N - 1 /\ Behind(r', x) = 1 /\ Ahead(r, x) = 0 /\ x # s
      BY <1>3, <1>4, <2>1
    <3>2. ~(Ahead(r', x) < textLen')
      BY <1>1, <1>2, <3>1
    <3>3. Passed' + 1 - Behind(r', x) = Passed + 1 /\ Passed + 1 + Ahead(r, x) = Passed + 1
      BY <1>1, <3>1
    <3>4. Ahead(r, x) < textLen
      BY <1>1, <3>1
    <3>. QED
      BY <2>0, <3>1, <3>2, <3>3, <3>4
  <2>2. CASE x # r
    <3>1. /\ Ahead(r', x) = Ahead(r, x) - 1 /\ Behind(r', x) = Behind(r, x) + 1
          /\ Ahead(r, x) \in 1 .. N - 1 /\ Behind(r, x) \in Int
      BY <1>2, <1>4, <2>2
    <3>2. /\ Passed' + 1 + Ahead(r', x) = Passed + 1 + Ahead(r, x)
          /\ Passed' + 1 - Behind(r', x) = Passed + 1 - Behind(r, x)
      BY <1>1, <3>1
    <3>3. CASE x = s /\ textLen' = F
      <4>1. Ahead(r', x) < textLen' /\ Passed' + 1 + Ahead(r', x) = Passed + F + 1
        BY <1>1, <1>2, <1>3, <3>1, <3>3
      <4>. QED
        BY <3>3, <4>1
    <3>4. CASE ~(x = s /\ textLen' = F)
      <4>1. Ahead(r', x) < textLen' <=> Ahead(r, x) < textLen
        <5>1. CASE Passed + F < Len(data) /\ textLen = F /\ textLen' = F
          BY <1>2, <1>4, <3>1, <3>4, <5>1
        <5>2. CASE textLen' = textLen - 1
          BY <1>1, <1>2, <3>1, <5>2
        <5>. QED
          BY <1>1, <5>1, <5>2
      <4>. QED
        BY <2>0, <3>2, <3>4, <4>1
    <3>. QED
      BY <3>3, <3>4
  <2>. QED
    BY <2>1, <2>2
<1>6. CASE /\ Passed + F < Len(data) /\ textLen = F /\ textLen' = F
           /\ textBuf' = Stored(textBuf, s, data[Passed + F + 1])
  <2>. DEFINE new == data[Passed + F + 1]
  <2>1. Passed + F + 1 \in 1 .. Len(data) /\ new \in Symbols /\ Symbol(Passed + F + 1) = new
    BY <1>1, <1>2, <1>6 DEF Symbol
  <2>2. textBuf \in [0 .. N + F - 2 -> Symbols]
    BY <1>2 DEF RingInv
  <2>. HIDE DEF new
  <2>3. textBuf' = [i \in 0 .. N + F - 2 |->
                      IF i = s \/ (s < F - 1 /\ i = s + N) THEN new ELSE textBuf[i]]
    BY <1>6, <2>2 DEF Stored, new
  <2>4. textBuf' \in [0 .. N + F - 2 -> Symbols]
    BY <2>1, <2>2, <2>3
  <2>5. ASSUME NEW x \in Positions PROVE textBuf'[x] = IF x = s THEN new ELSE textBuf[x]
    <3>1. x \in 0 .. N + F - 2 /\ ~(x = s + N)
      BY <1>1, <1>2 DEF Positions
    <3>. QED
      BY <2>3, <3>1
  <2>6. ASSUME NEW x \in 0 .. F - 2 PROVE textBuf'[N + x] = textBuf'[x]
    <3>1. /\ x \in Positions /\ N + x \in 0 .. N + F - 2 /\ N + x # s
          /\ (s < F - 1 /\ N + x = s + N <=> x = s)
      BY <1>1, <1>2 DEF Positions
    <3>2. textBuf[N + x] = textBuf[x]
      BY <1>2 DEF RingInv
    <3>. QED
      BY <2>3, <2>5, <3>1, <3>2
  <2>7. ASSUME NEW x \in Positions
        PROVE  textBuf'[x] = IF Ahead(r', x) < textLen' THEN Symbol(Passed' + 1 + Ahead(r', x))
                             ELSE Symbol(Passed' + 1 - Behind(r', x))
    BY <1>5, <1>6, <2>1, <2>5
  <2>8. \A i : Symbol(i)' = Symbol(i)
    BY <1>1 DEF Symbol
  <2>. QED
    BY <2>4, <2>6, <2>7, <2>8 DEF RingInv
<1>7. CASE ~(Passed + F < Len(data)) /\ textLen' = textLen - 1 /\ textBuf' = textBuf
  <2>1. textLen' # F
    BY <1>1, <1>7
  <2>2. ASSUME NEW x \in Positions
        PROVE  textBuf'[x] = IF Ahead(r', x) < textLen' THEN Symbol(Passed' + 1 + Ahead(r', x))
                             ELSE Symbol(Passed' + 1 - Behind(r', x))
    BY <1>5, <1>7, <2>1
  <2>3. \A i : Symbol(i)' = Symbol(i)
    BY <1>1 DEF Symbol
  <2>. QED
    BY <1>2, <1>7, <2>2, <2>3 DEF RingInv
<1>. QED
  BY <1>1, <1>6, <1>7

LEMMA SlideKeeps == ASSUME LzssInv, Slide PROVE LzssInv'
<1>. DEFINE rest == deleteNode(tree, s)
<1>1. /\ phase = "delete" /\ ~Searching /\ j = F + 1 /\ j' = j
      /\ r \in Positions /\ s \in Positions /\ s = Wrap(r + F) /\ r' = Wrap(r + 1)
      /\ slides \in 1 .. F /\ slides' = slides - 1 /\ UNCHANGED <<data, out, taken, j, q>>
      /\ CountsInv' /\ RingInv' /\ MatchInv /\ RingInv
      /\ \/ StartInsert(rest, r', textBuf'[r'])
         \/ /\ tree' = rest /\ match' = match
            /\ phase' = (IF slides' > 0 THEN "slide" ELSE "finished")
  BY SlideCounts, SlideRing DEF LzssInv
<1>2. N \in Nat /\ F \in Nat /\ 1 < F /\ F + F <= N
  BY Sizes
<1>3. PICK rank : IsTree(tree, textBuf, rank) /\ DeleteInv(rank)
  BY DEF LzssInv, TreeInv
<1>4. PICK level : IsTree(rest, textBuf, level) /\ Strings(rest) = Strings(tree) \ {s}
  <2>1. s \in Strings(tree) /\ tree.lson[s] # NIL /\ tree.rson[s] # NIL
          => OnTheWay(tree, s, rank) /\ tree.rson[q] = NIL /\ textBuf[q] = textBuf[s]
    BY <1>1, <1>3 DEF DeleteInv, Searching, Strings
  <2>. QED
    BY <1>1, <1>3, <2>1, DeleteKeeps
<1>. HIDE DEF rest
<1>5. IsTree(rest, textBuf', level)
  <2>1. ASSUME NEW x \in Strings(rest) PROVE textBuf'[x] = textBuf[x]
    <3>1. x \in Positions /\ x # s
      BY <1>4 DEF Strings
    <3>2. CASE textBuf' = textBuf
      BY <3>2
    <3>3. CASE textBuf' = Stored(textBuf, s, data[Passed + F + 1])
      <4>1. x \in DOMAIN textBuf /\ ~(x = s + N)
        <5>1. DOMAIN textBuf = 0 .. N + F - 2
          BY <1>1 DEF RingInv
        <5>. QED
          BY <1>1, <1>2, <3>1, <5>1 DEF Positions
      <4>. QED
        BY <3>1, <3>3, <4>1 DEF Stored
    <3>. QED
      BY <3>2, <3>3, SlideCounts
  <2>. DEFINE new == textBuf'
  <2>2. \A x \in Strings(rest) : new[x] = textBuf[x]
    BY <2>1
  <2>. HIDE DEF new
  <2>3. IsTree(rest, new, level)
    BY <1>4, <2>2, RewriteKeeps
  <2>. QED
    BY <2>3 DEF new
<1>6. ASSUME NEW x \in Strings(rest) PROVE x \in Positions /\ x # r' /\ Behind(r', x) <= N - F
  <2>1. x \in Positions /\ x \in Strings(tree) /\ x # s
    BY <1>4 DEF Strings
  <2>2. Behind(r, x) <= N - F \/ x = r
    BY <1>1, <2>1 DEF LzssInv, WindowInv
  <2>3. /\ Behind(r, x) \in 1 .. N /\ Behind(r, x) = N - Ahead(r, x)
        /\ Wrap(r + Ahead(r, x)) = x /\ Ahead(r, x) \in 0 .. N - 1
        /\ Behind(r', x) = IF x = r THEN 1 ELSE Behind(r, x) + 1
        /\ r' \in Positions
    BY <1>1, <2>1, Distances, Onward
  <2>4. Ahead(r, x) # F
    BY <1>1, <2>1, <2>3
  <2>5. Behind(r', x) <= N - F
    BY <1>2, <2>2, <2>3, <2>4
  <2>6. Behind(r', r') = N
    <3>1. ASSUME NEW base \in Positions PROVE Behind(base, base) = N
      BY <1>2 DEF Behind, Positions
    <3>. QED
      BY <2>3, <3>1
  <2>. QED
    BY <1>2, <2>1, <2>5, <2>6
<1>7. r' \in Positions /\ Inserted' = r' /\ textBuf'[r'] \in Symbols
  <2>1. r' \in Positions /\ ~(j' <= F)
    BY <1>1, <1>2, Onward
  <2>2. r' \in 0 .. N + F - 2 /\ textBuf' \in [0 .. N + F - 2 -> Symbols]
    BY <1>1, <1>2, <2>1 DEF RingInv, Positions
  <2>. QED
    BY <2>1, <2>2 DEF Inserted
<1>8. InsertInv' /\ TreeInv' /\ MatchInv' /\ Strings(tree') = Strings(rest)
  <2>1. CASE StartInsert(rest, r', textBuf'[r'])
    <3>1. r' \notin Strings(rest)
      BY <1>6
    <3>. QED
      BY <1>1, <1>5, <1>7, <2>1, <3>1, InsertStarts
  <2>2. CASE /\ tree' = rest /\ match' = match
             /\ phase' = (IF slides' > 0 THEN "slide" ELSE "finished")
    <3>1. phase' # "insert" /\ phase' # "emit" /\ phase' # "delete"
      BY <2>2
    <3>2. InsertInv' /\ MatchInv'
      BY <1>1, <2>2, <3>1 DEF InsertInv, MatchInv
    <3>3. TreeInv'
      BY <1>5, <2>2, <3>1 DEF TreeInv, DeleteInv
    <3>. QED
      BY <2>2, <3>2, <3>3
  <2>. QED
    BY <1>1, <2>1, <2>2
<1>9. WindowInv'
  <2>1. ~(j' <= F) /\ phase' # "fill"
    BY <1>1, <1>2 DEF StartInsert
  <2>. QED
    BY <1>6, <1>8, <2>1 DEF WindowInv
<1>10. OutInv'
  <2>1. PICK decoder : DecodedTo(out, decoder) /\ DecoderAt(decoder, Wrap(r + slides), taken)
    BY DEF LzssInv, OutInv
  <2>2. Wrap(r' + slides') = Wrap(r + slides)
    BY <1>1, <1>2 DEF Wrap, Positions
  <2>. QED
    BY <1>1, <2>1, <2>2 DEF OutInv, DecoderAt, Symbol
<1>. QED
  BY <1>1, <1>8, <1>9, <1>10 DEF LzssInv

------------------------------------------------------------------------------
(* The theorems.                                                           *)

LEMMA LzssStarts == LzssTreeInit => LzssInv
<1>. SUFFICES ASSUME LzssTreeInit PROVE LzssInv
  OBVIOUS
<1>. DEFINE base == N - F
<1>1. /\ data \in Inputs /\ out = <<>> /\ taken = 0 /\ phase = "fill" /\ slides = 0
      /\ s = 0 /\ r = base /\ j = 0
      /\ textLen = (IF Len(data) < F THEN Len(data) ELSE F) /\ srcPos = textLen
      /\ textBuf = [i \in 0 .. N + F - 2 |-> IF i \in r .. r + textLen - 1 THEN data[i - r + 1] ELSE 0]
      /\ match = [position |-> 0, length |-> 0]
      /\ tree = [lson |-> [i \in 0 .. N |-> 0],
                 rson |-> [i \in 0 .. N \cup {Root(c) : c \in Symbols} |-> IF i > N THEN NIL ELSE 0],
                 dad |-> [i \in 0 .. N |-> IF i < N THEN NIL ELSE 0]]
  BY DEF LzssTreeInit
<1>2. N \in Nat /\ F \in Nat /\ 1 < F /\ F + F <= N /\ 0 \in Symbols /\ Symbols \subseteq Nat
  BY Sizes
<1>3. data \in Seq(Symbols) /\ Len(data) \in 1 .. MaxLength
  <2>1. PICK n \in 1 .. MaxLength : data \in [1 .. n -> Symbols]
    BY <1>1 DEF Inputs
  <2>2. n \in Nat /\ MaxLength \in Nat
    BY <2>1, LzssTreeAssumption
  <2>3. data \in Seq(Symbols) /\ Len(data) = n
    BY <2>1, <2>2
  <2>. QED
    BY <2>1, <2>2, <2>3
<1>4. textLen \in 1 .. F /\ textLen <= Len(data) /\ base \in Positions /\ 0 \in Positions
  BY <1>1, <1>2, <1>3, LzssTreeAssumption DEF Positions
<1>5. Passed = 0
  BY <1>1 DEF Passed
<1>6. CountsInv
  <2>1. Wrap(r + F) = 0 /\ base + F = N
    BY <1>1, <1>2 DEF Wrap
  <2>2. out \in Seq(Codes)
    BY <1>1
  <2>. QED
    BY <1>1, <1>2, <1>3, <1>4, <1>5, <2>1, <2>2, LzssTreeAssumption DEF CountsInv
<1>7. RingInv
  <2>. DEFINE look == base .. base + textLen - 1
  <2>1. textBuf = [i \in 0 .. N + F - 2 |-> IF i \in look THEN data[i - base + 1] ELSE 0]
    BY <1>1
  <2>2. ASSUME NEW i \in look PROVE i - base + 1 \in 1 .. Len(data)
    BY <1>2, <1>3, <1>4 DEF Positions
  <2>3. textBuf \in [0 .. N + F - 2 -> Symbols]
    <3>1. \A i \in look : data[i - base + 1] \in Symbols
      BY <1>3, <2>2
    <3>. HIDE DEF look
    <3>. QED
      BY <1>2, <2>1, <3>1
  <2>4. ASSUME NEW x \in Positions
        PROVE  textBuf[x] = IF Ahead(r, x) < textLen THEN Symbol(Passed + 1 + Ahead(r, x))
                            ELSE Symbol(Passed + 1 - Behind(r, x))
    <3>1. x \in 0 .. N + F - 2
      BY <1>2 DEF Positions
    <3>2. x \in look <=> Ahead(r, x) < textLen
      BY <1>1, <1>2, <1>4 DEF Ahead, Positions
    <3>3. CASE x \in look
      <4>1. Ahead(r, x) = x - base /\ Passed + 1 + Ahead(r, x) = x - base + 1
        BY <1>1, <1>2, <1>4, <1>5, <3>3 DEF Ahead, Positions
      <4>2. Symbol(x - base + 1) = data[x - base + 1]
        BY <2>2, <3>3 DEF Symbol
      <4>. HIDE DEF look
      <4>. QED
        BY <2>1, <3>1, <3>2, <3>3, <4>1, <4>2
    <3>4. CASE x \notin look
      <4>1. Passed + 1 - Behind(r, x) \in Int /\ Passed + 1 - Behind(r, x) < 1
        <5>1. Behind(r, x) \in 1 .. N
          BY <1>1, <1>4, Distances
        <5>. QED
          BY <1>2, <1>5, <5>1
      <4>2. Symbol(Passed + 1 - Behind(r, x)) = 0
        BY <4>1 DEF Symbol
      <4>. HIDE DEF look
      <4>. QED
        BY <2>1, <3>1, <3>2, <3>4, <4>2
    <3>. QED
      BY <3>3, <3>4
  <2>5. ASSUME NEW x \in 0 .. F - 2 PROVE textBuf[N + x] = textBuf[x]
    <3>1. x \in 0 .. N + F - 2 /\ N + x \in 0 .. N + F - 2 /\ x \notin look /\ N + x \notin look
      BY <1>2, <1>4
    <3>. HIDE DEF look
    <3>. QED
      BY <2>1, <3>1
  <2>. QED
    BY <2>3, <2>4, <2>5 DEF RingInv
<1>8. Strings(tree) = {}
  BY <1>1, <1>2 DEF Strings, Positions
<1>9. WindowInv
  BY <1>8 DEF WindowInv
<1>10. TreeInv
  <2>. DEFINE rank == [x \in (0 .. N) \cup Roots |-> 0]
              places == (0 .. N) \cup Roots
  <2>1. Nodes(tree) = Roots
    BY <1>8 DEF Nodes
  <2>2. /\ DOMAIN tree = {"lson", "rson", "dad"}
        /\ tree = [lson |-> tree.lson, rson |-> tree.rson, dad |-> tree.dad]
        /\ tree.lson = [i \in 0 .. N |-> 0]
        /\ tree.rson = [i \in places |-> IF i > N THEN NIL ELSE 0]
        /\ tree.dad = [i \in 0 .. N |-> IF i < N THEN NIL ELSE 0]
    BY <1>1 DEF Roots
  <2>3. Arrays(tree)
    BY <1>2, <2>2, RootsBeyond DEF Arrays
  <2>4. DadOfRight(tree)
    <3>1. ASSUME NEW x \in Roots PROVE tree.rson[x] = NIL
      BY <2>2, RootsBeyond
    <3>. QED
      BY <2>1, <3>1 DEF DadOfRight
  <2>5. Ranked(tree, rank)
    BY <1>8 DEF Ranked
  <2>6. SonOfItsDad(tree) /\ DadOfLeft(tree) /\ Headed(tree, textBuf)
    BY <1>8 DEF SonOfItsDad, DadOfLeft, Headed
  <2>. HIDE DEF rank
  <2>7. IsTree(tree, textBuf, rank)
    BY <2>3, <2>4, <2>5, <2>6 DEF IsTree
  <2>. QED
    BY <1>1, <2>7 DEF TreeInv, DeleteInv
<1>11. InsertInv /\ MatchInv
  BY <1>1, <1>2, <1>4 DEF InsertInv, MatchInv
<1>12. OutInv
  <2>1. DecodedTo(out, EmptyDecoder)
    BY <1>1, NothingDecoded
  <2>2. DecoderAt(EmptyDecoder, N - F, 0)
    BY <1>3, DecoderStarts
  <2>3. Wrap(r + slides) = N - F
    BY <1>1, <1>2 DEF Wrap
  <2>. QED
    BY <1>1, <2>1, <2>2, <2>3 DEF OutInv
<1>. QED
  BY <1>6, <1>7, <1>9, <1>10, <1>11, <1>12 DEF LzssInv

LEMMA LzssStutters == ASSUME LzssInv, UNCHANGED lzssVars PROVE LzssInv'
<1>1. UNCHANGED <<data, out, taken, phase, tree, match, textBuf, s, r, srcPos, textLen, slides, j, p,
                  cmp, q>>
  BY DEF lzssVars, windowVars
<1>. QED
  BY <1>1 DEF LzssInv, CountsInv, RingInv, WindowInv, InsertInv, TreeInv, DeleteInv, MatchInv,
              OutInv, Passed, Symbol, DecoderAt, Inserted, OnTheWay

\* At every step of lzssCompress's loops the ring ends with the input that has been coded and the
\* look-ahead, the arrays form a tree of strings of the window, the longest match is one, and the
\* decoder of the codes so far has reproduced what they stand for.
THEOREM LzssInvariant == LzssTreeSpec => []LzssInv
<1>1. LzssInv /\ [LzssTreeNext]_lzssVars => LzssInv'
  BY FillKeeps, DescendKeeps, EmitKeeps, StartSlideKeeps, SearchKeeps, SlideKeeps, LzssStutters
     DEF LzssTreeNext
<1>. QED
  BY LzssStarts, <1>1, PTL DEF LzssTreeSpec

\* The variables of the compressor keep their types, s and r stay one window apart, and when the
\* loops have ended the whole input has been coded.
THEOREM LzssTreeTypes == LzssTreeSpec => []LzssTreeTypeOK
<1>1. LzssInv => LzssTreeTypeOK
  <2>. SUFFICES ASSUME LzssInv PROVE LzssTreeTypeOK
    OBVIOUS
  <2>1. CountsInv /\ MatchInv /\ N \in Nat /\ F \in Nat /\ 1 < F /\ F + F <= N
    BY Sizes DEF LzssInv
  <2>2. data \in Inputs
    <3>1. data \in Seq(Symbols) /\ Len(data) <= MaxLength /\ MaxLength \in Nat
      BY <2>1, LzssTreeAssumption DEF CountsInv
    <3>2. Len(data) > 0
      BY <2>1 DEF CountsInv
    <3>. QED
      BY <3>1, <3>2 DEF Inputs
  <2>3. s \in 0 .. N - 1 /\ r = (s + N - F) % N
    <3>1. r \in 0 .. N - 1 /\ s = Wrap(r + F)
      BY <2>1 DEF CountsInv, Positions
    <3>2. s \in 0 .. N - 1 /\ s + N - F \in Nat /\ s + N - F < N + N /\ Wrap(s + N - F) = r
      BY <2>1, <3>1 DEF Wrap
    <3>. QED
      BY <3>2, Wrapped
  <2>4. textLen \in 0 .. F /\ srcPos \in 0 .. Len(data) /\ taken \in 0 .. Len(data)
    BY <2>1 DEF CountsInv, Passed
  <2>5. /\ phase \in {"fill", "insert", "emit", "slide", "delete", "finished"}
        /\ slides \in 0 .. F /\ j \in 0 .. F + 1
        /\ phase = "finished" => taken = Len(data)
    BY <2>1 DEF CountsInv
  <2>6. match.length \in 0 .. F /\ match.position \in 0 .. N - 1
    BY <2>1 DEF MatchInv, Positions
  <2>. QED
    BY <2>2, <2>3, <2>4, <2>5, <2>6 DEF LzssTreeTypeOK
<1>. QED
  BY LzssInvariant, <1>1, PTL

\* The decoder of the specification is the decoder of the codes.
LEMMA SameDecoder ==
  /\ Lzss!Codes = Codes
  /\ \A codes : Lzss!lzssDecompress(codes) = lzssDecompress(codes)
BY DEF Lzss!Codes, Codes, Lzss!Literal, Literal, Lzss!Copy, Copy, Lzss!lzssDecompress, lzssDecompress,
       Lzss!DecodedBy, DecodedBy, Lzss!Accepted, Accepted, Lzss!EmptyDecoder, EmptyDecoder

\* Each code lzssCompress emits makes lzssDecompress reproduce exactly the input it has taken: the
\* specification of the compressor implements Lzss, the one that promises it.
THEOREM CompressionIsDecoded == LzssTreeSpec => EmitsWhatDecodes
<1>1. LzssTreeInit => Lzss!LzssInit
  BY LzssStarts DEF LzssInv, CountsInv, Lzss!LzssInit, LzssTreeInit
<1>2. LzssInv /\ [LzssTreeNext]_lzssVars => [Lzss!LzssNext]_<<data, out, taken>>
  <2>. SUFFICES ASSUME LzssInv, [LzssTreeNext]_lzssVars
                PROVE  [Lzss!LzssNext]_<<data, out, taken>>
    OBVIOUS
  <2>1. CASE Emit
    <3>1. /\ \E decoder : DecodedTo(out', decoder) /\ DecoderAt(decoder, Wrap(r + slides'), taken')
          /\ out' \in Seq(Codes) /\ Len(out') = Len(out) + 1 /\ SubSeq(out', 1, Len(out)) = out
          /\ out'[Len(out')] \in Codes
          /\ taken' \in taken + 1 .. Len(data) /\ taken < Len(data) /\ data' = data
      BY <2>1, EmitDecodes DEF Emit
    <3>2. lzssDecompress(out') = SubSeq(data, 1, taken')
      BY <3>1, DecodedText DEF DecoderAt
    <3>. QED
      BY <3>1, <3>2, SameDecoder DEF Lzss!LzssNext
  <2>2. CASE ~Emit
    <3>1. UNCHANGED <<data, out, taken>>
      BY <2>2 DEF LzssTreeNext, Fill, Descend, StartSlide, Search, Slide, lzssVars
    <3>. QED
      BY <3>1
  <2>. QED
    BY <2>1, <2>2
<1>. QED
  BY LzssInvariant, <1>1, <1>2, PTL DEF LzssTreeSpec, EmitsWhatDecodes, Lzss!LzssSpec
==============================================================================
