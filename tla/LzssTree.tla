------------------------------- MODULE LzssTree -------------------------------
(***************************************************************************)
(* lzssCompress of src/src/drivers/coolledux/wire.ts: the ring buffer of   *)
(* the last N symbols, whose first F - 1 are repeated behind it, with a    *)
(* binary search tree of the strings that start at each of its positions,  *)
(* held in three arrays.  A code is emitted for the string at r; then the  *)
(* window slides over it, one symbol at a time: the string the new symbol  *)
(* overwrites leaves the tree, and the one that has become complete joins. *)
(* The loops are steps: each of insertNode's compares one string of the    *)
(* tree with the one that joins, each of deleteNode's goes one further in  *)
(* search of the string that takes the place of the one that leaves.       *)
(***************************************************************************)
EXTENDS LzssCodes

CONSTANT MaxLength \* of the inputs
ASSUME LzssTreeAssumption == MaxLength \in Nat

VARIABLES
  data, out, taken, \* of Lzss
  phase,            \* fill the tree, insert a string, emit a code, slide the window, delete a
                    \* string, or finished
  tree,             \* the arrays lson, rson and dad
  match,            \* matchPosition and matchLength
  textBuf, s, r, srcPos, textLen,
  j,                \* of the loop that inserts the first strings, F + 1 after it
  p, cmp,           \* of insertNode: the string compared last, and how it compares
  q,                \* of deleteNode
  slides            \* symbols the window still has to slide over
windowVars == <<textBuf, s, r, srcPos, textLen, slides>>
lzssVars == <<data, out, taken, phase, tree, match, windowVars, j, p, cmp, q>>

Lzss == INSTANCE Lzss
NIL == N
Root(c) == N + 1 + c
Inputs == UNION {[1 .. n -> Symbols] : n \in 1 .. MaxLength}

------------------------------------------------------------------------------
(* The tree.                                                               *)

\* How many symbols the strings at two positions share, when they share the first.
Shared(buf, a, b) ==
  LET differ == {i \in 1 .. F - 1 : buf[a + i] # buf[b + i]}
  IN  IF differ = {} THEN F ELSE CHOOSE i \in differ : \A k \in differ : i <= k
\* Where the descent goes on, and the string at a position joined to the free place there.
Below(t) == IF cmp >= 0 THEN t.rson[p] ELSE t.lson[p]
Attached(t, at) ==
  [lson |-> IF cmp >= 0 THEN t.lson ELSE [t.lson EXCEPT ![p] = at],
   rson |-> IF cmp >= 0 THEN [t.rson EXCEPT ![p] = at] ELSE t.rson,
   dad |-> [t.dad EXCEPT ![at] = p]]

\* A node leaves its place to another one, or to none.
Succeeded(t, node, heir) ==
  LET above == t.dad[node]
      right == t.rson[above] = node
  IN  [lson |-> IF right THEN t.lson ELSE [t.lson EXCEPT ![above] = heir],
       rson |-> IF right THEN [t.rson EXCEPT ![above] = heir] ELSE t.rson,
       dad |-> [t.dad EXCEPT ![heir] = above, ![node] = NIL]]
\* The string at a position takes the place of the equal one at node.
Replaced(t, node, at) ==
  Succeeded([lson |-> [t.lson EXCEPT ![at] = t.lson[node]],
             rson |-> [t.rson EXCEPT ![at] = t.rson[node]],
             dad |-> [t.dad EXCEPT ![t.lson[node]] = at, ![t.rson[node]] = at]], node, at)

\* The greatest string to the left of a node with two sons becomes the father of both.
Merged(t, node) ==
  LET left == t.lson[node]
      right == t.rson[node]
  IN  IF q = left
      THEN [t EXCEPT !.rson = [@ EXCEPT ![q] = right], !.dad = [@ EXCEPT ![right] = q]]
      ELSE [lson |-> [t.lson EXCEPT ![q] = left],
            rson |-> [t.rson EXCEPT ![t.dad[q]] = t.lson[q], ![q] = right],
            dad |-> [t.dad EXCEPT ![t.lson[q]] = t.dad[q], ![left] = q, ![right] = q]]
\* A mutant that leaves the overwritten string in the tree.
keepNode(t, node) == t
deleteNode(t, node) ==
  IF t.dad[node] = NIL THEN t
  ELSE CASE t.rson[node] = NIL -> Succeeded(t, node, t.lson[node])
         [] t.lson[node] = NIL -> Succeeded(t, node, t.rson[node])
         [] OTHER -> Succeeded(Merged(t, node), node, q)

------------------------------------------------------------------------------
\* The look-ahead is filled; then the strings before it and the one at it are inserted.
LzssTreeInit ==
  /\ data \in Inputs /\ out = <<>> /\ taken = 0 /\ phase = "fill" /\ slides = 0
  /\ s = 0 /\ r = N - F
  /\ textLen = (IF Len(data) < F THEN Len(data) ELSE F) /\ srcPos = textLen
  /\ textBuf = [i \in 0 .. N + F - 2 |-> IF i \in r .. r + textLen - 1 THEN data[i - r + 1] ELSE 0]
  /\ tree = [lson |-> [i \in 0 .. N |-> 0],
             rson |-> [i \in 0 .. N \cup {Root(c) : c \in Symbols} |-> IF i > N THEN NIL ELSE 0],
             dad |-> [i \in 0 .. N |-> IF i < N THEN NIL ELSE 0]]
  /\ match = [position |-> 0, length |-> 0]
  /\ j = 0 /\ p = NIL /\ cmp = 1 /\ q = NIL

\* insertNode of the string at a position begins at the root of its first symbol.
StartInsert(t, at, c) ==
  /\ phase' = "insert" /\ p' = Root(c) /\ cmp' = 1
  /\ tree' = [t EXCEPT !.lson = [@ EXCEPT ![at] = NIL], !.rson = [@ EXCEPT ![at] = NIL]]
  /\ match' = [match EXCEPT !.length = 0]
Inserted == IF j <= F THEN r - j ELSE r
Fill ==
  /\ phase = "fill"
  /\ j' = j + 1
  /\ UNCHANGED <<data, out, taken, windowVars, q>>
  /\ StartInsert(tree, Inserted', textBuf[Inserted'])

EndInsert ==
  /\ phase' = IF j <= F THEN "fill" ELSE IF slides > 0 THEN "slide" ELSE "emit"
  /\ UNCHANGED <<p, cmp>>
\* The loop of insertNode ends at a free place, or else compares the next string.  The longest
\* match met first is kept; at an equal string the loop ends.
Descend ==
  /\ phase = "insert"
  /\ LET next == Below(tree)
         shared == Shared(textBuf, Inserted, next)
     IN  \/ /\ next = NIL
            /\ tree' = Attached(tree, Inserted)
            /\ UNCHANGED match
            /\ EndInsert
         \/ /\ next # NIL
            /\ match' = IF shared > match.length THEN [position |-> next, length |-> shared]
                        ELSE match
            /\ IF match'.length >= F
               THEN tree' = Replaced(tree, next, Inserted) /\ EndInsert
               ELSE /\ p' = next
                    /\ cmp' = textBuf[Inserted + shared] - textBuf[next + shared]
                    /\ UNCHANGED <<phase, tree>>
  /\ UNCHANGED <<data, out, taken, windowVars, j, q>>

\* A literal, or a copy of the longest match, but never of more than is left of the input.
Emit ==
  /\ phase = "emit"
  /\ LET length == IF match.length > textLen THEN textLen ELSE match.length
         worth == length > THRESHOLD
     IN  /\ out' = Append(out, IF worth THEN Copy(match.position, length)
                               ELSE Literal(textBuf[r]))
         /\ slides' = IF worth THEN length ELSE 1
         /\ taken' = taken + slides'
  /\ phase' = "slide"
  /\ UNCHANGED <<data, tree, match, textBuf, s, r, srcPos, textLen, j, p, cmp, q>>

\* deleteNode of the string that is overwritten looks to its left for the greatest one.
StartSlide ==
  /\ phase = "slide"
  /\ phase' = "delete" /\ q' = tree.lson[s]
  /\ UNCHANGED <<data, out, taken, tree, match, windowVars, j, p, cmp>>
Searching ==
  /\ tree.dad[s] # NIL /\ tree.lson[s] # NIL /\ tree.rson[s] # NIL
  /\ tree.rson[q] # NIL
Search ==
  /\ phase = "delete" /\ Searching
  /\ q' = tree.rson[q]
  /\ UNCHANGED <<data, out, taken, phase, tree, match, windowVars, j, p, cmp>>

\* The first F - 1 symbols of the ring are repeated behind it, so that a string never wraps.
WithoutMirror(buf, at, c) == [buf EXCEPT ![at] = c]
Stored(buf, at, c) ==
  [i \in DOMAIN buf |-> IF i = at \/ (at < F - 1 /\ i = at + N) THEN c ELSE buf[i]]
\* The window moves on by one symbol; the string it now begins with joins the tree.
Slide ==
  /\ phase = "delete" /\ ~Searching
  /\ LET more == srcPos < Len(data)
     IN  /\ textBuf' = IF more THEN Stored(textBuf, s, data[srcPos + 1]) ELSE textBuf
         /\ textLen' = IF more THEN textLen ELSE textLen - 1
         /\ srcPos' = IF more THEN srcPos + 1 ELSE srcPos
  /\ s' = (s + 1) % N /\ r' = (r + 1) % N
  /\ slides' = slides - 1
  /\ IF textLen' > 0 THEN StartInsert(deleteNode(tree, s), r', textBuf'[r'])
     ELSE /\ tree' = deleteNode(tree, s)
          /\ phase' = IF slides' > 0 THEN "slide" ELSE "finished"
          /\ UNCHANGED <<match, p, cmp>>
  /\ UNCHANGED <<data, out, taken, j, q>>

LzssTreeNext == Fill \/ Descend \/ Emit \/ StartSlide \/ Search \/ Slide
LzssTreeSpec == LzssTreeInit /\ [][LzssTreeNext]_lzssVars /\ WF_lzssVars(LzssTreeNext)

------------------------------------------------------------------------------
LzssTreeTypeOK ==
  /\ data \in Inputs /\ taken \in 0 .. Len(data) /\ srcPos \in 0 .. Len(data)
  /\ phase \in {"fill", "insert", "emit", "slide", "delete", "finished"}
  /\ slides \in 0 .. F /\ textLen \in 0 .. F /\ j \in 0 .. F + 1
  /\ s \in 0 .. N - 1 /\ r = (s + N - F) % N
  /\ match.length \in 0 .. F /\ match.position \in 0 .. N - 1
  /\ (phase = "finished" => taken = Len(data))

\* The compressor keeps the promise of Lzss: however the strings are inserted into, replaced in
\* and deleted from the tree while the ring wraps around, each code it emits makes the decoder
\* reproduce exactly the symbols it has taken.
EmitsWhatDecodes == Lzss!LzssSpec
==============================================================================
