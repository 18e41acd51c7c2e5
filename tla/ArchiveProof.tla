------------------------------ MODULE ArchiveProof ------------------------------
(***************************************************************************)
(* Proofs about investigations outside the memory of one page, for any     *)
(* tabs, displays and bounds: what filtering a list keeps, the types, and  *)
(* the inductive invariant behind ArchiveIsSound.                          *)
(***************************************************************************)
EXTENDS Archive, SequenceTheorems, FiniteSetTheorems, TLAPS

------------------------------------------------------------------------------
(* Filters.                                                                *)

\* The least number of a set of them.  (The principle of induction in the form of a
\* well-founded relation.)
LEMMA LeastPlace ==
  ASSUME NEW S \in SUBSET Nat, S # {}
  PROVE  \E n \in S : \A m \in S : n <= m
<1>. DEFINE family == {0 .. n : n \in S}
<1>1. IsWellFoundedOn(StrictSubsetOrdering(Nat), FiniteSubsetsOf(Nat))
  BY FS_StrictSubsetOrderingWellFounded
<1>2. family # {} /\ family \subseteq FiniteSubsetsOf(Nat)
  <2>1. ASSUME NEW n \in S PROVE 0 .. n \in FiniteSubsetsOf(Nat)
    <3>1. IsFiniteSet(0 .. n)
      BY FS_Interval
    <3>. QED
      BY <3>1 DEF FiniteSubsetsOf
  <2>. QED
    BY <2>1
<1>. HIDE DEF family
<1>3. PICK x \in family : \A y \in family : <<y, x>> \notin StrictSubsetOrdering(Nat)
  BY <1>1, <1>2, WFMin
<1>4. PICK n \in S : x = 0 .. n
  BY <1>3 DEF family
<1>5. ASSUME NEW m \in S, m < n PROVE FALSE
  <2>1. 0 .. m \in family
    BY DEF family
  <2>2. 0 .. m \subseteq 0 .. n /\ n \in 0 .. n /\ n \notin 0 .. m
    BY <1>5
  <2>3. <<0 .. m, x>> \in StrictSubsetOrdering(Nat)
    BY <1>4, <2>2 DEF StrictSubsetOrdering
  <2>. QED
    BY <1>3, <2>1, <2>3
<1>. QED
  BY <1>5

Increasing(p, n) == \A i, j \in 1 .. n : i < j => p[i] < p[j]
Orders(p, n, places) ==
  /\ p \in [1 .. n -> places] /\ Increasing(p, n)
  /\ \A x \in places : \E i \in 1 .. n : p[i] = x

\* Places of a list can be put in order, all of them,
LEMMA OrderExists ==
  ASSUME NEW n \in Nat, NEW places \in SUBSET (1 .. n)
  PROVE  \E p \in [1 .. Cardinality(places) -> places] : Increasing(p, Cardinality(places))
<1>. DEFINE Ordered(T) == \E p \in [1 .. Cardinality(T) -> T] : Increasing(p, Cardinality(T))
            bad == {m \in Nat : \E T \in SUBSET (1 .. m) : ~Ordered(T)}
<1>1. ASSUME bad # {} PROVE FALSE
  <2>1. PICK m \in bad : \A k \in bad : m <= k
    <3>1. bad \in SUBSET Nat
      OBVIOUS
    <3>. HIDE DEF bad
    <3>. QED
      BY <1>1, <3>1, LeastPlace
  <2>2. PICK T \in SUBSET (1 .. m) : ~Ordered(T)
    OBVIOUS
  <2>3. m \in Nat /\ (m # 0 => m - 1 \in Nat /\ m - 1 \notin bad)
    <3>1. m \in Nat
      OBVIOUS
    <3>. HIDE DEF bad
    <3>. QED
      BY <3>1, <2>1
  <2>4. CASE m = 0
    <3>1. T = {}
      BY <2>4
    <3>2. Cardinality(T) = 0
      BY <3>1, FS_EmptySet
    <3>3. [i \in 1 .. 0 |-> 0] \in [1 .. Cardinality(T) -> T]
      BY <3>2
    <3>4. Increasing([i \in 1 .. 0 |-> 0], Cardinality(T))
      BY <3>2 DEF Increasing
    <3>. QED
      BY <2>2, <3>3, <3>4
  <2>5. CASE m # 0 /\ m \notin T
    <3>1. T \in SUBSET (1 .. m - 1)
      BY <2>3, <2>5
    <3>. QED
      BY <2>2, <2>3, <2>5, <3>1
  <2>6. CASE m # 0 /\ m \in T
    <3>. DEFINE U == T \ {m}
    <3>1. U \in SUBSET (1 .. m - 1)
      BY <2>3, <2>6
    <3>2. Ordered(U)
      BY <2>3, <2>6, <3>1
    <3>3. PICK q \in [1 .. Cardinality(U) -> U] : Increasing(q, Cardinality(U))
      BY <3>2
    <3>4. IsFiniteSet(T)
      <4>1. IsFiniteSet(1 .. m)
        BY <2>3, FS_Interval
      <4>. QED
        BY <4>1, FS_Subset
    <3>5. Cardinality(U) = Cardinality(T) - 1 /\ IsFiniteSet(U)
      BY <2>6, <3>4, FS_RemoveElement
    <3>6. Cardinality(T) \in Nat /\ Cardinality(U) \in Nat
      BY <3>4, <3>5, FS_CardinalityType
    <3>. DEFINE c == Cardinality(U)
                p == [i \in 1 .. c + 1 |-> IF i <= c THEN q[i] ELSE m]
    <3>7. Cardinality(T) = c + 1 /\ c \in Nat
      BY <3>5, <3>6
    <3>8. \A i \in 1 .. c : q[i] \in T /\ q[i] \in 1 .. m - 1
      BY <3>1, <3>3
    <3>. HIDE DEF c, U
    <3>9. p \in [1 .. c + 1 -> T]
      BY <2>6, <3>7, <3>8
    <3>10. Increasing(p, c + 1)
      <4>1. Increasing(q, c)
        BY <3>3 DEF c
      <4>. SUFFICES ASSUME NEW i \in 1 .. c + 1, NEW j \in 1 .. c + 1, i < j
                    PROVE  p[i] < p[j]
        BY DEF Increasing
      <4>2. CASE j <= c
        BY <3>7, <4>1, <4>2 DEF Increasing
      <4>3. CASE j = c + 1
        <5>1. i \in 1 .. c
          BY <3>7, <4>3
        <5>2. p[i] = q[i] /\ p[j] = m
          BY <3>7, <4>3, <5>1
        <5>. QED
          BY <2>3, <3>8, <5>1, <5>2
      <4>. QED
        BY <3>7, <4>2, <4>3
    <3>. HIDE DEF p
    <3>. QED
      BY <2>2, <3>7, <3>9, <3>10
  <2>. QED
    BY <2>4, <2>5, <2>6
<1>2. n \notin bad
  BY <1>1
<1>. QED
  BY <1>2

LEMMA InOrderFacts ==
  ASSUME NEW n \in Nat, NEW places \in SUBSET (1 .. n)
  PROVE  /\ IsFiniteSet(places) /\ Cardinality(places) \in 0 .. n
         /\ Orders(InOrder(places), Cardinality(places), places)
<1>. DEFINE c == Cardinality(places)
            p == InOrder(places)
<1>1. IsFiniteSet(places) /\ c \in Nat /\ c <= n
  <2>1. IsFiniteSet(1 .. n) /\ Cardinality(1 .. n) = n
    BY FS_Interval
  <2>. QED
    BY <2>1, FS_Subset, FS_CardinalityType
<1>2. \E q \in [1 .. c -> places] : Increasing(q, c)
  BY OrderExists
<1>3. \E q \in [1 .. c -> places] : \A i, j \in DOMAIN q : i < j => q[i] < q[j]
  BY <1>2 DEF Increasing
<1>4. p \in [1 .. c -> places] /\ Increasing(p, c)
  BY <1>3 DEF InOrder, Increasing
<1>5. p \in Injection(1 .. c, places)
  <2>1. \A i \in 1 .. c : p[i] \in 1 .. n
    BY <1>4
  <2>. HIDE DEF p, c
  <2>2. \A i, j \in 1 .. c : p[i] = p[j] => i = j
    BY <1>1, <1>4, <2>1 DEF Increasing
  <2>. QED
    BY <1>4, <2>2 DEF Injection, IsInjective
<1>6. IsFiniteSet(1 .. c) /\ Cardinality(1 .. c) = c
  BY <1>1, FS_Interval
<1>7. p \in Surjection(1 .. c, places)
  BY <1>1, <1>5, <1>6, FS_Injection
<1>. QED
  BY <1>1, <1>4, <1>7 DEF Surjection, Orders

\* and in one way only.
LEMMA OrderIsUnique ==
  ASSUME NEW places \in SUBSET Nat, NEW a \in Nat, NEW b \in Nat, NEW p, NEW q,
         Orders(p, a, places), Orders(q, b, places)
  PROVE  a = b /\ p = q
<1>1. /\ p \in [1 .. a -> places] /\ q \in [1 .. b -> places]
      /\ \A i \in 1 .. a : p[i] \in Nat
      /\ \A i \in 1 .. b : q[i] \in Nat
  BY DEF Orders
<1>2. \A i, j \in 1 .. a : i < j => p[i] < p[j]
  BY DEF Orders, Increasing
<1>3. \A i, j \in 1 .. b : i < j => q[i] < q[j]
  BY DEF Orders, Increasing
<1>4. (\A i \in 1 .. a : \E j \in 1 .. b : q[j] = p[i]) /\ (\A i \in 1 .. b : \E j \in 1 .. a : p[j] = q[i])
  BY <1>1 DEF Orders
<1>. DEFINE bad == {k \in (1 .. a) \cap (1 .. b) : p[k] # q[k]}
<1>5. ASSUME bad # {} PROVE FALSE
  <2>1. PICK k \in bad : \A i \in bad : k <= i
    <3>1. bad \in SUBSET Nat
      OBVIOUS
    <3>. HIDE DEF bad
    <3>. QED
      BY <1>5, <3>1, LeastPlace
  <2>2. k \in 1 .. a /\ k \in 1 .. b /\ p[k] # q[k]
    OBVIOUS
  <2>3. \A i \in 1 .. k - 1 : p[i] = q[i]
    <3>1. \A i \in 1 .. k - 1 : i \in 1 .. a /\ i \in 1 .. b /\ i < k
      BY <2>2
    <3>2. \A i \in 1 .. k - 1 : i \notin bad
      <4>. HIDE DEF bad
      <4>. QED
        BY <2>1, <2>2, <3>1
    <3>. QED
      BY <3>1, <3>2
  <2>4. CASE p[k] < q[k]
    <3>1. PICK j \in 1 .. b : q[j] = p[k]
      BY <1>4, <2>2
    <3>2. j < k
      BY <1>1, <1>3, <2>2, <2>4, <3>1
    <3>3. p[j] = p[k] /\ j \in 1 .. a
      BY <2>2, <2>3, <3>1, <3>2
    <3>. QED
      BY <1>1, <1>2, <2>2, <3>2, <3>3
  <2>5. CASE q[k] < p[k]
    <3>1. PICK j \in 1 .. a : p[j] = q[k]
      BY <1>4, <2>2
    <3>2. j < k
      BY <1>1, <1>2, <2>2, <2>5, <3>1
    <3>3. q[j] = q[k] /\ j \in 1 .. b
      BY <2>2, <2>3, <3>1, <3>2
    <3>. QED
      BY <1>1, <1>3, <2>2, <3>2, <3>3
  <2>. QED
    BY <1>1, <2>2, <2>4, <2>5
<1>6. \A k \in (1 .. a) \cap (1 .. b) : p[k] = q[k]
  BY <1>5
<1>7. ~(a < b)
  <2>. SUFFICES ASSUME a < b PROVE FALSE
    OBVIOUS
  <2>1. PICK j \in 1 .. a : p[j] = q[a + 1]
    BY <1>4
  <2>2. q[j] = q[a + 1] /\ j \in 1 .. b /\ a + 1 \in 1 .. b /\ j < a + 1
    BY <1>6, <2>1
  <2>. QED
    BY <1>1, <1>3, <2>2
<1>8. ~(b < a)
  <2>. SUFFICES ASSUME b < a PROVE FALSE
    OBVIOUS
  <2>1. PICK j \in 1 .. b : q[j] = p[b + 1]
    BY <1>4
  <2>2. p[j] = p[b + 1] /\ j \in 1 .. a /\ b + 1 \in 1 .. a /\ j < b + 1
    BY <1>6, <2>1
  <2>. QED
    BY <1>1, <1>2, <2>2
<1>9. a = b
  BY <1>7, <1>8
<1>. QED
  BY <1>1, <1>6, <1>9

\* A filter that keeps everything keeps every place.
LEMMA AllInOrder ==
  ASSUME NEW n \in Nat
  PROVE  Cardinality(1 .. n) = n /\ InOrder(1 .. n) = [k \in 1 .. n |-> k]
<1>1. Cardinality(1 .. n) = n
  BY FS_Interval
<1>2. Orders(InOrder(1 .. n), n, 1 .. n)
  BY <1>1, InOrderFacts
<1>3. Orders([k \in 1 .. n |-> k], n, 1 .. n)
  BY DEF Orders, Increasing
<1>. QED
  BY <1>1, <1>2, <1>3, OrderIsUnique

\* Without one place, the later ones move up.
Skip(k, j) == IF k < j THEN k ELSE k + 1
LEMMA InOrderWithout ==
  ASSUME NEW n \in Nat, NEW places \in SUBSET (1 .. n), NEW j \in 1 .. Cardinality(places)
  PROVE  LET p == InOrder(places)
             c == Cardinality(places)
         IN  /\ Cardinality(places \ {p[j]}) = c - 1 /\ c \in Nat
             /\ InOrder(places \ {p[j]}) = [k \in 1 .. c - 1 |-> p[Skip(k, j)]]
<1>. DEFINE p == InOrder(places)
            c == Cardinality(places)
            rest == places \ {p[j]}
            r == [k \in 1 .. c - 1 |-> p[Skip(k, j)]]
<1>1. IsFiniteSet(places) /\ c \in 0 .. n /\ Orders(p, c, places)
  BY InOrderFacts
<1>2. p[j] \in places /\ c \in Nat /\ c - 1 \in Nat
  BY <1>1 DEF Orders
<1>3. Cardinality(rest) = c - 1
  BY <1>1, <1>2, FS_RemoveElement
<1>4. rest \in SUBSET (1 .. n)
  OBVIOUS
<1>5. Orders(InOrder(rest), c - 1, rest)
  BY <1>3, <1>4, InOrderFacts
<1>6. \A k \in 1 .. c : p[k] \in places /\ p[k] \in Nat
  <2>1. p \in [1 .. c -> places]
    BY <1>1 DEF Orders
  <2>2. \A x \in places : x \in Nat
    OBVIOUS
  <2>. HIDE DEF p, c
  <2>. QED
    BY <2>1, <2>2
<1>7. \A i, k \in 1 .. c : i < k => p[i] < p[k]
  BY <1>1 DEF Orders, Increasing
<1>8. \A k \in 1 .. c - 1 : Skip(k, j) \in 1 .. c /\ Skip(k, j) # j
  BY <1>2 DEF Skip
<1>9. \A i, k \in 1 .. c - 1 : i < k => Skip(i, j) < Skip(k, j)
  BY <1>2 DEF Skip
<1>10. ASSUME NEW i \in 1 .. c, i # j PROVE \E k \in 1 .. c - 1 : Skip(k, j) = i
  <2>1. CASE i < j
    <3>1. i \in 1 .. c - 1 /\ Skip(i, j) = i
      BY <1>2, <2>1 DEF Skip
    <3>. QED
      BY <3>1
  <2>2. CASE i > j
    <3>1. i - 1 \in 1 .. c - 1 /\ Skip(i - 1, j) = i
      BY <1>2, <2>2 DEF Skip
    <3>. QED
      BY <3>1
  <2>. QED
    BY <1>2, <1>10, <2>1, <2>2
<1>11. \A x \in places : \E i \in 1 .. c : p[i] = x
  BY <1>1 DEF Orders
<1>. HIDE DEF p, c
<1>12. Orders(r, c - 1, rest)
  <2>1. ASSUME NEW k \in 1 .. c - 1 PROVE p[Skip(k, j)] \in rest
    <3>1. p[Skip(k, j)] # p[j]
      BY <1>2, <1>6, <1>7, <1>8 DEF c
    <3>. QED
      BY <1>6, <1>8, <3>1
  <2>2. r \in [1 .. c - 1 -> rest]
    BY <2>1
  <2>3. Increasing(r, c - 1)
    <3>. SUFFICES ASSUME NEW i \in 1 .. c - 1, NEW k \in 1 .. c - 1, i < k PROVE r[i] < r[k]
      BY DEF Increasing
    <3>1. p[Skip(i, j)] < p[Skip(k, j)]
      BY <1>7, <1>8, <1>9
    <3>. QED
      BY <3>1
  <2>4. ASSUME NEW x \in rest PROVE \E k \in 1 .. c - 1 : r[k] = x
    <3>1. PICK i \in 1 .. c : p[i] = x /\ i # j
      BY <1>11
    <3>2. PICK k \in 1 .. c - 1 : Skip(k, j) = i
      BY <1>10, <3>1
    <3>. QED
      BY <3>1, <3>2
  <2>. QED
    BY <2>2, <2>3, <2>4 DEF Orders
<1>13. InOrder(rest) = r
  <2>1. rest \in SUBSET Nat
    BY <1>4
  <2>. HIDE DEF rest, r
  <2>. QED
    BY <1>2, <1>5, <1>12, <2>1, OrderIsUnique
<1>. QED
  BY <1>2, <1>3, <1>13 DEF p, c

------------------------------------------------------------------------------
(* The invariant.                                                          *)

Displays == Panels \cup {"none"}
Evidences(n) == [n : 1 .. n, on : Panels, scope : EvidenceScopes]
Recs(m, n) ==
  [id : 0 .. m, bound : Displays, active : BOOLEAN, evidence : SUBSET Evidences(n),
   runs : SUBSET (1 .. n), panel : 0 .. n]
RealRecs(m, n) == {r \in Recs(m, n) : r.id # 0}
StoredEntries(m, n) == [record : RealRecs(m, n), malformed : SUBSET Nat, unreadable : BOOLEAN]
WorkspaceSet(m, n) ==
  [display : Displays, imported : BOOLEAN, current : Recs(m, n), detached : Recs(m, n),
   fresh : BOOLEAN]
PageSet(m, n) == [shown : WorkspaceSet(m, n), live : WorkspaceSet(m, n), own : SUBSET (1 .. n)]
Promises == [id : Nat, results : SUBSET Nat, runs : SUBSET Nat]

DistinctIds(list) == \A i, j \in 1 .. Len(list) : list[i].id = list[j].id => i = j
DistinctEntries(h) == \A i, j \in 1 .. Len(h) : h[i].record.id = h[j].record.id => i = j
HistoryOK(h, m, n) ==
  h \in Seq(StoredEntries(m, n)) /\ Len(h) <= MaxStored /\ DistinctEntries(h)

\* A workspace on a display works on a record of that display; what its current record claims of
\* the session was earned in this tab.
Proper(r) == r.id = 0 => r = NoRecord
BoundHere(w) ==
  ~w.imported /\ w.display # "none" /\ w.current # NoRecord => w.current.bound = w.display
EarnedHere(w, own) ==
  /\ \A e \in w.current.evidence :
       /\ e.scope # "built-in-profile"
       /\ e.scope = "current-session" => ~w.imported /\ e.n \in own /\ e.on = w.current.bound
  /\ w.current.panel # 0 => ~w.imported /\ w.current.panel \in own /\ w.display # "none"
WorkspaceOK(w, own) ==
  Proper(w.current) /\ Proper(w.detached) /\ BoundHere(w) /\ EarnedHere(w, own)
PageOK(p) ==
  /\ WorkspaceOK(p.shown, p.own) /\ WorkspaceOK(p.live, p.own)
  /\ ~p.live.imported /\ (~p.shown.imported => p.live = NoWorkspace)
ArchiveTypes ==
  /\ records \in 0 .. MaxRecords /\ results \in 0 .. MaxResults
  /\ pages \in [Pages -> PageSet(records, results)]
  /\ HistoryOK(localHistory, records, results)
  /\ file \in [record : Recs(records, results), full : BOOLEAN] /\ Proper(file.record)
ArchiveLocal == ArchiveTypes /\ \A t \in Pages : PageOK(pages[t])

\* The history has what was promised, and the records that tabs work on have it too: each is
\* worked on in one place, so that saving it cannot take back what was saved of it.
Real(p) == IF p.shown.imported THEN p.live ELSE p.shown
Matches(list, promises) ==
  /\ Len(list) = Len(promises)
  /\ \A i \in 1 .. Len(promises) :
       list[i].id = promises[i].id /\ promises[i].results \subseteq ResultsOf(list[i])
Covers(r, promises) ==
  \A i \in 1 .. Len(promises) : promises[i].id = r.id => promises[i].results \subseteq ResultsOf(r)
HoldsApart(w) == w.current.id # 0 => w.current.id # w.detached.id
Safe(w, promises) == HoldsApart(w) /\ Covers(w.current, promises) /\ Covers(w.detached, promises)
KeptAsPromised ==
  /\ kept \in Seq(Promises) /\ Matches(loadStore(localHistory), kept)
  /\ \A t \in Pages : Safe(Real(pages[t]), kept)
  /\ \A t, u \in Pages : t # u => Held(Real(pages[t])) \cap Held(Real(pages[u])) = {}

ArchiveInv == ArchiveLocal /\ (OneHolder => KeptAsPromised)

------------------------------------------------------------------------------
(* Records.                                                                *)

LEMMA NoRecordIs ==
  ASSUME NEW m \in Nat, NEW n \in Nat
  PROVE  NoRecord \in Recs(m, n) /\ Proper(NoRecord) /\ NoRecord.id = 0 /\ ~NoRecord.active
         /\ NoRecord.evidence = {} /\ NoRecord.panel = 0 /\ NoRecord.bound = "none"
BY DEF NoRecord, Recs, Displays, Proper

\* Types grow with the numbers given.
LEMMA RecsGrow ==
  ASSUME NEW m \in Nat, NEW n \in Nat, NEW m2 \in Nat, NEW n2 \in Nat, m <= m2, n <= n2
  PROVE  Recs(m, n) \subseteq Recs(m2, n2)
<1>1. Evidences(n) \subseteq Evidences(n2)
  BY DEF Evidences
<1>2. 0 .. m \subseteq 0 .. m2 /\ 1 .. n \subseteq 1 .. n2 /\ 0 .. n \subseteq 0 .. n2
  OBVIOUS
<1>. QED
  BY <1>1, <1>2 DEF Recs

\* Another scope changes nothing else; only the scope of a result is not its own.
LEMMA ScopedIs ==
  ASSUME NEW m \in Nat, NEW n \in Nat, NEW r \in Recs(m, n), NEW scope \in EvidenceScopes
  PROVE  /\ Scoped(r, scope) \in Recs(m, n)
         /\ Scoped(r, scope) = [r EXCEPT !.evidence = Scoped(r, scope).evidence]
         /\ \A e \in Scoped(r, scope).evidence : e.scope = scope
         /\ ResultsOf(Scoped(r, scope)) = ResultsOf(r)
<1>. DEFINE q == Scoped(r, scope)
            E == {[e EXCEPT !.scope = scope] : e \in r.evidence}
<1>1. r.evidence \subseteq Evidences(n)
  BY DEF Recs
<1>2. \A e \in r.evidence : /\ [e EXCEPT !.scope = scope] \in Evidences(n)
                            /\ [e EXCEPT !.scope = scope].scope = scope
                            /\ [e EXCEPT !.scope = scope].n = e.n
  BY <1>1 DEF Evidences
<1>3. E \subseteq Evidences(n) /\ \A e \in E : e.scope = scope
  BY <1>2
<1>4. q = [r EXCEPT !.evidence = E]
  BY DEF Scoped
<1>5. {e.n : e \in E} = {e.n : e \in r.evidence}
  BY <1>2
<1>. HIDE DEF E, q
<1>6. q \in Recs(m, n) /\ q.evidence = E
  BY <1>3, <1>4 DEF Recs
<1>7. ResultsOf(q) = ResultsOf(r)
  BY <1>5, <1>6 DEF ResultsOf
<1>. QED
  BY <1>3, <1>4, <1>6, <1>7 DEF q

LEMMA DemotedIs ==
  ASSUME NEW m \in Nat, NEW n \in Nat, NEW r \in Recs(m, n), NEW scope \in EvidenceScopes
  PROVE  LET d == demoteInvestigationEvidence(r, scope)
         IN  /\ d \in Recs(m, n) /\ d.id = r.id /\ d.bound = r.bound /\ d.panel = 0
             /\ d.active = r.active
             /\ \A e \in d.evidence : e.scope = scope
             /\ ResultsOf(d) = ResultsOf(r)
<1>. DEFINE d == demoteInvestigationEvidence(r, scope)
            q == Scoped(r, scope)
<1>1. /\ q \in Recs(m, n) /\ q = [r EXCEPT !.evidence = q.evidence]
      /\ \A e \in q.evidence : e.scope = scope
      /\ ResultsOf(q) = ResultsOf(r)
  BY ScopedIs
<1>2. d = [q EXCEPT !.panel = 0]
  BY DEF demoteInvestigationEvidence
<1>. HIDE DEF d, q
<1>3. /\ d \in Recs(m, n) /\ d.id = q.id /\ d.bound = q.bound /\ d.panel = 0 /\ d.active = q.active
      /\ d.evidence = q.evidence
  BY <1>1, <1>2 DEF Recs
<1>4. q.id = r.id /\ q.bound = r.bound /\ q.active = r.active
  <2>1. \A E : /\ [r EXCEPT !.evidence = E].id = r.id /\ [r EXCEPT !.evidence = E].bound = r.bound
               /\ [r EXCEPT !.evidence = E].active = r.active
    BY DEF Recs
  <2>. QED
    BY <1>1, <2>1
<1>5. ResultsOf(d) = ResultsOf(q)
  BY <1>3 DEF ResultsOf
<1>. QED
  BY <1>1, <1>3, <1>4, <1>5 DEF d

LEMMA DetachedIs ==
  ASSUME NEW m \in Nat, NEW n \in Nat, NEW r \in Recs(m, n), r.id # 0
  PROVE  LET d == Detached(r)
         IN  d \in Recs(m, n) /\ d.id = r.id /\ d # NoRecord /\ Proper(d) /\ ResultsOf(d) = ResultsOf(r)
<1>. DEFINE q == demoteInvestigationEvidence(r, "previous-local-session")
            d == Detached(r)
<1>1. q \in Recs(m, n) /\ q.id = r.id /\ ResultsOf(q) = ResultsOf(r)
  BY DemotedIs DEF EvidenceScopes
<1>2. d = [q EXCEPT !.active = FALSE]
  BY DEF Detached
<1>. HIDE DEF q, d
<1>3. d \in Recs(m, n) /\ d.id = q.id /\ d.evidence = q.evidence
  BY <1>1, <1>2 DEF Recs
<1>4. ResultsOf(d) = ResultsOf(q)
  BY <1>3 DEF ResultsOf
<1>5. d # NoRecord
  BY <1>1, <1>3 DEF NoRecord
<1>. QED
  BY <1>1, <1>3, <1>4, <1>5 DEF d, Proper

LEMMA SanitizedIs ==
  ASSUME NEW m \in Nat, NEW n \in Nat, NEW r \in Recs(m, n), NEW malformed
  PROVE  LET d == sanitizeInvestigation(r, malformed)
         IN  /\ d \in Recs(m, n) /\ d.id = r.id /\ d.bound = r.bound
             /\ ResultsOf(d) = ResultsOf(r) \ malformed
<1>. DEFINE q == sanitizeOrchestration(r, malformed)
            d == sanitizeInvestigation(r, malformed)
            E == {e \in r.evidence : e.n \notin malformed}
            R == r.runs \ malformed
<1>1. q = [r EXCEPT !.runs = R, !.panel = 0]
  BY DEF sanitizeOrchestration
<1>2. /\ q \in Recs(m, n) /\ q.id = r.id /\ q.bound = r.bound /\ q.evidence = r.evidence
  <2>1. R \in SUBSET (1 .. n) /\ 0 \in 0 .. n
    BY DEF Recs
  <2>. HIDE DEF R, q
  <2>. QED
    BY <1>1, <2>1 DEF Recs
<1>3. d = [q EXCEPT !.evidence = E]
  BY <1>2 DEF sanitizeInvestigation
<1>4. E \subseteq r.evidence /\ {e.n : e \in E} = {e.n : e \in r.evidence} \ malformed
  OBVIOUS
<1>5. E \subseteq Evidences(n)
  BY <1>4 DEF Recs
<1>. HIDE DEF E, d, q
<1>6. d \in Recs(m, n) /\ d.id = q.id /\ d.bound = q.bound /\ d.evidence = E
  BY <1>2, <1>3, <1>5 DEF Recs
<1>. QED
  BY <1>2, <1>4, <1>6 DEF ResultsOf, d

LEMMA CreatedIs ==
  ASSUME NEW m \in Nat, NEW n \in Nat, NEW id \in 1 .. m, NEW display \in Displays
  PROVE  LET d == createInvestigation(id, display)
         IN  /\ d \in Recs(m, n) /\ d.id = id /\ d.bound = display /\ d.panel = 0 /\ d.active
             /\ d.evidence = {} /\ Proper(d) /\ d # NoRecord
<1>. DEFINE d == createInvestigation(id, display)
<1>1. d = [NoRecord EXCEPT !.id = id, !.bound = display, !.active = TRUE]
  BY DEF createInvestigation
<1>2. 0 \in 0 .. n /\ id \in 0 .. m /\ id # 0
  OBVIOUS
<1>3. NoRecord \in Recs(m, n) /\ NoRecord.id = 0 /\ NoRecord.evidence = {} /\ NoRecord.panel = 0
  BY NoRecordIs
<1>. HIDE DEF d
<1>4. /\ d \in Recs(m, n) /\ d.id = id /\ d.bound = display /\ d.panel = 0 /\ d.active = TRUE
      /\ d.evidence = {}
  BY <1>1, <1>2, <1>3 DEF Recs
<1>. QED
  BY <1>2, <1>3, <1>4 DEF d, Proper

\* What an editor makes a record claim has the same results under the same name.
LEMMA ClaimedIs ==
  ASSUME NEW m \in Nat, NEW n \in Nat, NEW r \in Recs(m, n), NEW c \in Claiming(r), results = n
  PROVE  c \in Recs(m, n) /\ c.id = r.id /\ ResultsOf(c) = ResultsOf(r)
<1>. DEFINE q == Scoped(r, "current-session")
<1>1. /\ q \in Recs(m, n) /\ ResultsOf(q) = ResultsOf(r) /\ q = [r EXCEPT !.evidence = q.evidence]
  BY ScopedIs DEF EvidenceScopes
<1>2. q.id = r.id
  <2>1. \A E : [r EXCEPT !.evidence = E].id = r.id
    BY DEF Recs
  <2>. QED
    BY <1>1, <2>1
<1>3. c = r \/ c = [q EXCEPT !.panel = n]
  BY DEF Claiming
<1>. HIDE DEF q
<1>4. ASSUME c = [q EXCEPT !.panel = n]
      PROVE  c \in Recs(m, n) /\ c.id = q.id /\ c.evidence = q.evidence
  <2>1. n \in 0 .. n
    OBVIOUS
  <2>. QED
    BY <1>1, <1>4, <2>1 DEF Recs
<1>. QED
  BY <1>1, <1>2, <1>3, <1>4 DEF ResultsOf

------------------------------------------------------------------------------
(* The history as it is loaded and saved.                                  *)

LEMMA EntriesAtIs ==
  ASSUME NEW X, NEW list \in Seq(X), NEW places \in SUBSET (1 .. Len(list))
  PROVE  LET e == EntriesAt(list, places)
             c == Cardinality(places)
             p == InOrder(places)
         IN  /\ e \in Seq(X) /\ Len(e) = c /\ c \in 0 .. Len(list) /\ DOMAIN p = 1 .. c
             /\ \A k \in 1 .. c : p[k] \in places /\ e[k] = list[p[k]]
             /\ \A i, k \in 1 .. c : p[i] = p[k] => i = k
             /\ \A x \in places : \E k \in 1 .. c : p[k] = x
<1>. DEFINE e == EntriesAt(list, places)
            c == Cardinality(places)
            p == InOrder(places)
<1>1. Len(list) \in Nat /\ \A i \in 1 .. Len(list) : list[i] \in X
  OBVIOUS
<1>2. c \in 0 .. Len(list) /\ Orders(p, c, places)
  BY <1>1, InOrderFacts
<1>3. /\ p \in [1 .. c -> places] /\ \A x \in places : \E k \in 1 .. c : p[k] = x
      /\ \A i, k \in 1 .. c : i < k => p[i] < p[k]
  BY <1>2 DEF Orders, Increasing
<1>4. \A k \in 1 .. c : p[k] \in 1 .. Len(list)
  BY <1>3
<1>5. e = [k \in 1 .. c |-> list[p[k]]]
  <2>1. DOMAIN p = 1 .. c
    BY <1>3
  <2>. QED
    BY <2>1 DEF EntriesAt
<1>. HIDE DEF e, c, p
<1>6. \A i, k \in 1 .. c : p[i] = p[k] => i = k
  BY <1>2, <1>3, <1>4
<1>7. c \in Nat /\ \A k \in 1 .. c : list[p[k]] \in X
  BY <1>1, <1>2, <1>4
<1>8. e \in Seq(X) /\ Len(e) = c
  BY <1>5, <1>7
<1>9. \A k \in 1 .. c : e[k] = list[p[k]]
  BY <1>5
<1>. QED
  BY <1>2, <1>3, <1>6, <1>8, <1>9 DEF e, c, p

Apart(list, id) == {i \in 1 .. Len(list) : list[i].id # id}
LEMMA OthersIs ==
  ASSUME NEW X, NEW list \in Seq(X), NEW id
  PROVE  LET o == Others(list, id)
             p == InOrder(Apart(list, id))
         IN  /\ o = EntriesAt(list, Apart(list, id))
             /\ o \in Seq(X) /\ Len(o) \in 0 .. Len(list)
             /\ \A k \in 1 .. Len(o) : p[k] \in 1 .. Len(list) /\ o[k] = list[p[k]] /\ o[k].id # id
             /\ DistinctIds(list) => DistinctIds(o)
<1>. DEFINE o == Others(list, id)
            places == Apart(list, id)
            p == InOrder(places)
            c == Cardinality(places)
<1>1. DOMAIN list = 1 .. Len(list)
  OBVIOUS
<1>2. o = EntriesAt(list, places)
  BY <1>1 DEF Others, Apart
<1>3. places \in SUBSET (1 .. Len(list)) /\ \A i \in places : list[i].id # id
  BY DEF Apart
<1>4. /\ o \in Seq(X) /\ Len(o) = c /\ c \in 0 .. Len(list)
      /\ \A k \in 1 .. c : p[k] \in places /\ o[k] = list[p[k]]
      /\ \A i, k \in 1 .. c : p[i] = p[k] => i = k
  <2>. HIDE DEF places, o
  <2>. QED
    BY <1>2, <1>3, EntriesAtIs
<1>. HIDE DEF places, o, c, p
<1>5. DistinctIds(list) => DistinctIds(o)
  <2>. SUFFICES ASSUME DistinctIds(list), NEW i \in 1 .. c, NEW k \in 1 .. c, o[i].id = o[k].id
                PROVE  i = k
    BY <1>4 DEF DistinctIds
  <2>1. p[i] \in 1 .. Len(list) /\ p[k] \in 1 .. Len(list) /\ list[p[i]].id = list[p[k]].id
    BY <1>3, <1>4
  <2>2. p[i] = p[k]
    BY <2>1 DEF DistinctIds
  <2>. QED
    BY <1>4, <2>2
<1>. QED
  BY <1>2, <1>3, <1>4, <1>5 DEF places, o, p

LEMMA MaxStoredIs == MaxStored \in Nat /\ MaxStored > 0
BY ArchiveAssumption

Pushed(x, list) == Limited(<<x>> \o list)
LEMMA PushedIs ==
  ASSUME NEW X, NEW x \in X, NEW list \in Seq(X)
  PROVE  LET l == Pushed(x, list)
         IN  /\ l \in Seq(X) /\ Len(l) = (IF Len(list) < MaxStored THEN Len(list) + 1 ELSE MaxStored)
             /\ Len(l) > 0 /\ Len(l) <= MaxStored /\ Len(l) - 1 <= Len(list)
             /\ l[1] = x /\ \A k \in 2 .. Len(l) : k - 1 \in 1 .. Len(list) /\ l[k] = list[k - 1]
<1>. DEFINE l == Pushed(x, list)
            s == <<x>> \o list
<1>1. /\ s \in Seq(X) /\ Len(s) = Len(list) + 1 /\ Len(list) \in Nat
      /\ s[1] = x /\ \A k \in 2 .. Len(s) : s[k] = list[k - 1]
  <2>1. <<x>> \in Seq(X) /\ Len(<<x>>) = 1 /\ <<x>>[1] = x
    OBVIOUS
  <2>2. Len(list) \in Nat
    OBVIOUS
  <2>3. /\ s \in Seq(X) /\ Len(s) = 1 + Len(list)
        /\ \A i \in 1 .. 1 + Len(list) : s[i] = IF i <= 1 THEN <<x>>[i] ELSE list[i - 1]
    BY <2>1, ConcatProperties
  <2>. HIDE DEF s
  <2>. QED
    BY <2>1, <2>2, <2>3
<1>2. l = IF Len(s) > MaxStored THEN SubSeq(s, 1, MaxStored) ELSE s
  BY DEF Pushed, Limited
<1>. HIDE DEF l, s
<1>3. CASE Len(s) > MaxStored
  <2>1. \A i \in 1 .. MaxStored : s[i] \in X
    BY <1>1, <1>3, MaxStoredIs
  <2>2. MaxStored \in Int /\ 1 \in Int /\ 1 <= MaxStored
    BY MaxStoredIs
  <2>3. /\ l \in Seq(X) /\ Len(l) = (IF 1 <= MaxStored THEN MaxStored - 1 + 1 ELSE 0)
        /\ \A i \in 1 .. MaxStored - 1 + 1 : l[i] = s[1 + i - 1]
    BY <1>2, <1>3, <2>1, <2>2, SubSeqProperties
  <2>4. Len(l) = MaxStored /\ \A i \in 1 .. MaxStored : l[i] = s[i]
    BY <2>2, <2>3, MaxStoredIs
  <2>5. ~(Len(list) < MaxStored)
    BY <1>1, <1>3, MaxStoredIs
  <2>. QED
    BY <1>1, <1>3, <2>3, <2>4, <2>5, MaxStoredIs DEF l
<1>4. CASE ~(Len(s) > MaxStored)
  <2>1. l = s /\ Len(list) < MaxStored
    BY <1>1, <1>2, <1>4, MaxStoredIs
  <2>. QED
    BY <1>1, <1>4, <2>1, MaxStoredIs DEF l
<1>. QED
  BY <1>3, <1>4

\* The records that can be read, in their order.
Readable(h) == {i \in 1 .. Len(h) : ~h[i].unreadable}
LEMMA LoadIs ==
  ASSUME NEW m \in Nat, NEW n \in Nat, NEW h \in Seq(StoredEntries(m, n))
  PROVE  LET l == loadStore(h)
             p == InOrder(Readable(h))
             c == Cardinality(Readable(h))
         IN  /\ l \in Seq(RealRecs(m, n)) /\ Len(l) = c /\ c \in 0 .. Len(h)
             /\ \A k \in 1 .. c : /\ p[k] \in Readable(h) /\ p[k] \in 1 .. Len(h)
                                  /\ l[k] = sanitizeInvestigation(h[p[k]].record, h[p[k]].malformed)
                                  /\ l[k].id = h[p[k]].record.id
                                  /\ ResultsOf(l[k]) = ResultsOf(h[p[k]].record) \ h[p[k]].malformed
             /\ DistinctEntries(h) => DistinctIds(l)
<1>. DEFINE l == loadStore(h)
            places == Readable(h)
            p == InOrder(places)
            c == Cardinality(places)
            e == EntriesAt(h, places)
<1>1. places \in SUBSET (1 .. Len(h)) /\ DOMAIN h = 1 .. Len(h)
  BY DEF Readable
<1>2. /\ e \in Seq(StoredEntries(m, n)) /\ Len(e) = c /\ c \in 0 .. Len(h)
      /\ \A k \in 1 .. c : p[k] \in places /\ e[k] = h[p[k]]
      /\ \A i, k \in 1 .. c : p[i] = p[k] => i = k
  <2>. HIDE DEF places
  <2>. QED
    BY <1>1, EntriesAtIs
<1>3. l = [i \in 1 .. c |-> sanitizeInvestigation(e[i].record, e[i].malformed)]
  <2>1. DOMAIN e = 1 .. c
    BY <1>2
  <2>2. e = EntriesAt(h, {i \in DOMAIN h : ~h[i].unreadable})
    BY <1>1 DEF Readable
  <2>. HIDE DEF e, c
  <2>. QED
    BY <2>1, <2>2 DEF loadStore
<1>. HIDE DEF places, p, c, e, l
<1>4. ASSUME NEW k \in 1 .. c
      PROVE  /\ p[k] \in places /\ p[k] \in 1 .. Len(h)
             /\ l[k] = sanitizeInvestigation(h[p[k]].record, h[p[k]].malformed)
             /\ l[k] \in RealRecs(m, n) /\ l[k].id = h[p[k]].record.id
             /\ ResultsOf(l[k]) = ResultsOf(h[p[k]].record) \ h[p[k]].malformed
  <2>1. p[k] \in places /\ p[k] \in 1 .. Len(h) /\ e[k] = h[p[k]]
    BY <1>1, <1>2
  <2>2. h[p[k]] \in StoredEntries(m, n)
    BY <2>1
  <2>3. l[k] = sanitizeInvestigation(h[p[k]].record, h[p[k]].malformed)
    BY <1>3, <2>1
  <2>. DEFINE r == h[p[k]].record
              M == h[p[k]].malformed
  <2>4. r \in Recs(m, n) /\ r.id # 0
    BY <2>2 DEF StoredEntries, RealRecs
  <2>. HIDE DEF r, M
  <2>5. LET d == sanitizeInvestigation(r, M)
        IN  /\ d \in Recs(m, n) /\ d.id = r.id /\ d.bound = r.bound
            /\ ResultsOf(d) = ResultsOf(r) \ M
    BY <2>4, SanitizedIs
  <2>. QED
    BY <2>1, <2>3, <2>4, <2>5 DEF RealRecs, r, M
<1>5. l \in Seq(RealRecs(m, n)) /\ Len(l) = c
  <2>1. c \in Nat /\ \A k \in 1 .. c : sanitizeInvestigation(e[k].record, e[k].malformed) \in RealRecs(m, n)
    <3>1. \A k \in 1 .. c : l[k] = sanitizeInvestigation(e[k].record, e[k].malformed)
      BY <1>3
    <3>. QED
      BY <1>2, <1>4, <3>1
  <2>. QED
    BY <1>3, <2>1
<1>. HIDE DEF l, places, p, c, e
<1>6. DistinctEntries(h) => DistinctIds(l)
  <2>. SUFFICES ASSUME DistinctEntries(h), NEW i \in 1 .. c, NEW k \in 1 .. c, l[i].id = l[k].id
                PROVE  i = k
    BY <1>5 DEF DistinctIds
  <2>1. /\ p[i] \in 1 .. Len(h) /\ p[k] \in 1 .. Len(h)
        /\ h[p[i]].record.id = h[p[k]].record.id
    BY <1>4
  <2>2. p[i] = p[k]
    BY <2>1 DEF DistinctEntries
  <2>. QED
    BY <1>2, <2>2
<1>. QED
  BY <1>2, <1>4, <1>5, <1>6 DEF l, p, c, places

LEMMA SavedIs ==
  ASSUME NEW m \in Nat, NEW n \in Nat, NEW h \in Seq(StoredEntries(m, n)), DistinctEntries(h),
         NEW r \in RealRecs(m, n)
  PROVE  LET next == Saved(r, h)
         IN  /\ next = Pushed(sanitizeInvestigation(r, {}), Others(loadStore(h), r.id))
             /\ next \in Seq(RealRecs(m, n)) /\ Len(next) <= MaxStored /\ DistinctIds(next)
             /\ sanitizeInvestigation(r, {}).id = r.id
             /\ ResultsOf(sanitizeInvestigation(r, {})) = ResultsOf(r)
<1>. DEFINE next == Saved(r, h)
            x == sanitizeInvestigation(r, {})
            l == loadStore(h)
            o == Others(l, r.id)
<1>1. next = Pushed(x, o)
  BY DEF Saved, Pushed
<1>2. x \in RealRecs(m, n) /\ x.id = r.id /\ ResultsOf(x) = ResultsOf(r)
  <2>1. r \in Recs(m, n) /\ r.id # 0
    BY DEF RealRecs
  <2>2. \A M : LET d == sanitizeInvestigation(r, M)
                IN  d \in Recs(m, n) /\ d.id = r.id /\ ResultsOf(d) = ResultsOf(r) \ M
    BY <2>1, SanitizedIs
  <2>. QED
    BY <2>1, <2>2 DEF RealRecs
<1>3. l \in Seq(RealRecs(m, n)) /\ DistinctIds(l)
  BY LoadIs
<1>. HIDE DEF l, x
<1>4. o \in Seq(RealRecs(m, n)) /\ DistinctIds(o) /\ \A k \in 1 .. Len(o) : o[k].id # r.id
  BY <1>3, OthersIs
<1>. HIDE DEF next, o
<1>5. /\ next \in Seq(RealRecs(m, n)) /\ Len(next) <= MaxStored /\ next[1] = x
      /\ \A k \in 2 .. Len(next) : k - 1 \in 1 .. Len(o) /\ next[k] = o[k - 1]
  <2>. DEFINE R == RealRecs(m, n)
              q == Pushed(x, o)
  <2>1. x \in R /\ o \in Seq(R)
    BY <1>2, <1>4
  <2>. HIDE DEF R
  <2>2. /\ q \in Seq(R) /\ Len(q) <= MaxStored /\ q[1] = x
        /\ \A k \in 2 .. Len(q) : k - 1 \in 1 .. Len(o) /\ q[k] = o[k - 1]
    BY <2>1, PushedIs
  <2>. HIDE DEF q
  <2>3. next = q
    BY <1>1 DEF q
  <2>. QED
    BY <2>2, <2>3 DEF R
<1>6. DistinctIds(next)
  <2>. SUFFICES ASSUME NEW i \in 1 .. Len(next), NEW k \in 1 .. Len(next), next[i].id = next[k].id
                PROVE  i = k
    BY DEF DistinctIds
  <2>0. Len(next) \in Nat
    BY <1>5
  <2>1. CASE i = 1 \/ k = 1
    <3>1. \A j \in 2 .. Len(next) : next[j].id # next[1].id
      BY <1>2, <1>4, <1>5
    <3>. QED
      BY <2>0, <2>1, <3>1
  <2>2. CASE i # 1 /\ k # 1
    <3>1. i \in 2 .. Len(next) /\ k \in 2 .. Len(next)
      BY <2>0, <2>2
    <3>2. i - 1 \in 1 .. Len(o) /\ k - 1 \in 1 .. Len(o) /\ o[i - 1].id = o[k - 1].id
      BY <1>5, <3>1
    <3>3. i - 1 = k - 1
      BY <1>4, <3>2 DEF DistinctIds
    <3>. QED
      BY <2>0, <3>3
  <2>. QED
    BY <2>1, <2>2
<1>. QED
  BY <1>1, <1>2, <1>5, <1>6 DEF next, x, l, o

\* What is stored is loaded again.
StoredAll(list) == [i \in DOMAIN list |-> Stored(list[i])]
LEMMA StoredIs ==
  ASSUME NEW m \in Nat, NEW n \in Nat, NEW list \in Seq(RealRecs(m, n)), DistinctIds(list),
         Len(list) <= MaxStored
  PROVE  LET h == StoredAll(list)
         IN  /\ HistoryOK(h, m, n) /\ Len(loadStore(h)) = Len(list)
             /\ \A i \in 1 .. Len(list) : /\ loadStore(h)[i].id = list[i].id
                                          /\ ResultsOf(loadStore(h)[i]) = ResultsOf(list[i])
<1>. DEFINE h == StoredAll(list)
            l == loadStore(h)
            k == Len(list)
<1>1. k \in Nat /\ DOMAIN list = 1 .. k /\ \A i \in 1 .. k : list[i] \in RealRecs(m, n)
  OBVIOUS
<1>2. h = [i \in 1 .. k |-> Stored(list[i])]
  BY <1>1 DEF StoredAll
<1>3. \A i \in 1 .. k : /\ Stored(list[i]) \in StoredEntries(m, n)
                        /\ Stored(list[i]).record = list[i] /\ ~Stored(list[i]).unreadable
                        /\ Stored(list[i]).malformed = {}
  BY <1>1 DEF Stored, StoredEntries
<1>. HIDE DEF h, k, l
<1>4. h \in Seq(StoredEntries(m, n)) /\ Len(h) = k
  BY <1>1, <1>2, <1>3
<1>5. \A i \in 1 .. k : h[i].record = list[i] /\ ~h[i].unreadable /\ h[i].malformed = {}
  BY <1>2, <1>3
<1>6. DistinctEntries(h)
  BY <1>4, <1>5 DEF DistinctEntries, DistinctIds, k
<1>7. Readable(h) = 1 .. k
  BY <1>4, <1>5 DEF Readable
<1>8. Cardinality(Readable(h)) = k /\ InOrder(Readable(h)) = [i \in 1 .. k |-> i]
  BY <1>1, <1>7, AllInOrder
<1>9. LET p == InOrder(Readable(h))
          c == Cardinality(Readable(h))
      IN  /\ Len(l) = c
          /\ \A i \in 1 .. c : /\ l[i].id = h[p[i]].record.id
                               /\ ResultsOf(l[i]) = ResultsOf(h[p[i]].record) \ h[p[i]].malformed
  BY <1>4, LoadIs, ZenonT(60) DEF l
<1>10. Len(l) = k /\ \A i \in 1 .. k : /\ l[i].id = h[i].record.id
                                       /\ ResultsOf(l[i]) = ResultsOf(h[i].record) \ h[i].malformed
  BY <1>8, <1>9
<1>11. \A i \in 1 .. k : l[i].id = list[i].id /\ ResultsOf(l[i]) = ResultsOf(list[i])
  BY <1>5, <1>10
<1>. QED
  BY <1>4, <1>6, <1>10, <1>11 DEF HistoryOK, h, l, k

\* Filtering both lists by a name keeps them in step.
LEMMA OthersMatch ==
  ASSUME NEW X, NEW l \in Seq(X), NEW promises \in Seq(Promises), Matches(l, promises), NEW id
  PROVE  Matches(Others(l, id), Others(promises, id))
<1>. DEFINE o == Others(l, id)
            q == Others(promises, id)
            p == InOrder(Apart(promises, id))
<1>1. Apart(l, id) = Apart(promises, id)
  BY DEF Apart, Matches
<1>2. /\ o = EntriesAt(l, Apart(l, id))
      /\ \A k \in 1 .. Len(o) : p[k] \in 1 .. Len(l) /\ o[k] = l[p[k]]
  BY <1>1, OthersIs
<1>3. /\ q = EntriesAt(promises, Apart(promises, id))
      /\ \A k \in 1 .. Len(q) : p[k] \in 1 .. Len(promises) /\ q[k] = promises[p[k]]
  BY OthersIs
<1>4. Len(o) = Cardinality(Apart(promises, id)) /\ Len(q) = Cardinality(Apart(promises, id))
  <2>1. Apart(l, id) \in SUBSET (1 .. Len(l)) /\ Apart(promises, id) \in SUBSET (1 .. Len(promises))
    BY DEF Apart
  <2>2. Len(EntriesAt(l, Apart(l, id))) = Cardinality(Apart(l, id))
    BY <2>1, EntriesAtIs
  <2>3. Len(EntriesAt(promises, Apart(promises, id))) = Cardinality(Apart(promises, id))
    BY <2>1, EntriesAtIs
  <2>. QED
    BY <1>1, <1>2, <1>3, <2>2, <2>3
<1>. HIDE DEF o, q, p
<1>5. Len(o) = Len(q)
  BY <1>4
<1>6. \A k \in 1 .. Len(q) : o[k].id = q[k].id /\ q[k].results \subseteq ResultsOf(o[k])
  <2>. SUFFICES ASSUME NEW k \in 1 .. Len(q)
                PROVE  o[k].id = q[k].id /\ q[k].results \subseteq ResultsOf(o[k])
    OBVIOUS
  <2>1. o[k] = l[p[k]] /\ q[k] = promises[p[k]] /\ p[k] \in 1 .. Len(promises)
    BY <1>2, <1>3, <1>5
  <2>. QED
    BY <2>1 DEF Matches
<1>. QED
  BY <1>5, <1>6 DEF Matches, o, q

\* What saving a record promises.
Pledge(r, promises) ==
  LET before == {p \in {promises[i] : i \in DOMAIN promises} : p.id = r.id}
  IN  [id |-> r.id, results |-> ResultsOf(r) \cup UNION {p.results : p \in before},
       runs |-> r.runs \cup UNION {p.runs : p \in before}]
LEMMA PledgeIs ==
  ASSUME NEW m \in Nat, NEW n \in Nat, NEW r \in RealRecs(m, n), NEW promises \in Seq(Promises),
         Covers(r, promises)
  PROVE  LET x == Pledge(r, promises) IN x \in Promises /\ x.id = r.id /\ x.results = ResultsOf(r)
<1>. DEFINE before == {p \in {promises[i] : i \in DOMAIN promises} : p.id = r.id}
            A == UNION {p.results : p \in before}
            B == UNION {p.runs : p \in before}
<1>1. Pledge(r, promises) = [id |-> r.id, results |-> ResultsOf(r) \cup A, runs |-> r.runs \cup B]
  BY DEF Pledge
<1>2. DOMAIN promises = 1 .. Len(promises) /\ \A i \in 1 .. Len(promises) : promises[i] \in Promises
  OBVIOUS
<1>3. A \subseteq ResultsOf(r)
  BY <1>2 DEF Covers
<1>4. B \subseteq Nat
  BY <1>2 DEF Promises
<1>5. r.id \in Nat /\ r.runs \subseteq Nat /\ ResultsOf(r) \subseteq Nat
  BY DEF RealRecs, Recs, ResultsOf, Evidences
<1>. HIDE DEF A, B, before
<1>6. ResultsOf(r) \cup A = ResultsOf(r) /\ r.runs \cup B \subseteq Nat
  BY <1>3, <1>4, <1>5
<1>. QED
  BY <1>1, <1>5, <1>6 DEF Promises

\* Saving a record keeps the history sound,
Store(h, k) == [history |-> h, kept |-> k]
SaveOutcome(store, r, h, k) ==
  \/ store = Store(h, k)
  \/ r.id # 0 /\ store = Store(StoredAll(Saved(r, h)), Pushed(Pledge(r, k), Others(k, r.id)))
LEMMA SaveIs ==
  ASSUME NEW m \in Nat, NEW n \in Nat, NEW h, NEW k, HistoryOK(h, m, n),
         NEW r \in Recs(m, n), Proper(r)
  PROVE  /\ SaveOutcome(saveInvestigation(Store(h, k), r), r, h, k)
         /\ HistoryOK(saveInvestigation(Store(h, k), r).history, m, n)
         /\ \E h2, k2 : saveInvestigation(Store(h, k), r) = Store(h2, k2)
<1>. DEFINE store == saveInvestigation(Store(h, k), r)
<1>1. CASE r = NoRecord \/ refusing
  <2>1. store = Store(h, k)
    BY <1>1 DEF saveInvestigation
  <2>. HIDE DEF store
  <2>2. store.history = h
    BY <2>1 DEF Store
  <2>. QED
    BY <2>1, <2>2 DEF store, SaveOutcome
<1>2. CASE ~(r = NoRecord \/ refusing)
  <2>1. r \in RealRecs(m, n)
    BY <1>2 DEF RealRecs, Proper
  <2>2. Promised(r, k) = Pushed(Pledge(r, k), Others(k, r.id))
    BY DEF Promised, Pushed, Pledge
  <2>3. store = Store(StoredAll(Saved(r, h)), Promised(r, k))
    BY <1>2 DEF saveInvestigation, StoredAll, Store
  <2>4. h \in Seq(StoredEntries(m, n)) /\ DistinctEntries(h)
    BY DEF HistoryOK
  <2>5. /\ Saved(r, h) \in Seq(RealRecs(m, n)) /\ DistinctIds(Saved(r, h))
        /\ Len(Saved(r, h)) <= MaxStored
    BY <2>1, <2>4, SavedIs
  <2>6. HistoryOK(StoredAll(Saved(r, h)), m, n)
    BY <2>5, StoredIs
  <2>. HIDE DEF store
  <2>7. store.history = StoredAll(Saved(r, h)) /\ r.id # 0
    BY <2>1, <2>3 DEF Store, RealRecs
  <2>8. SaveOutcome(store, r, h, k)
    BY <2>2, <2>3, <2>7 DEF SaveOutcome
  <2>. QED
    BY <2>3, <2>6, <2>7, <2>8 DEF store
<1>. QED
  BY <1>1, <1>2

\* and what it promises is kept by everybody who holds what was saved.
LEMMA SaveKeeps ==
  ASSUME NEW m \in Nat, NEW n \in Nat, NEW h, NEW k, HistoryOK(h, m, n),
         k \in Seq(Promises), Matches(loadStore(h), k),
         NEW r \in Recs(m, n), Proper(r), Covers(r, k)
  PROVE  LET store == saveInvestigation(Store(h, k), r)
         IN  /\ store.kept \in Seq(Promises) /\ Matches(loadStore(store.history), store.kept)
             /\ \A q : Covers(q, k) /\ (q.id = r.id => ResultsOf(r) \subseteq ResultsOf(q))
                         => Covers(q, store.kept)
<1>. DEFINE store == saveInvestigation(Store(h, k), r)
<1>1. SaveOutcome(store, r, h, k)
  BY SaveIs
<1>. HIDE DEF store
<1>2. CASE store = Store(h, k)
  <2>1. store.history = h /\ store.kept = k
    BY <1>2 DEF Store
  <2>. QED
    BY <2>1 DEF store
<1>3. CASE r.id # 0 /\ store = Store(StoredAll(Saved(r, h)), Pushed(Pledge(r, k), Others(k, r.id)))
  <2>0. r \in RealRecs(m, n)
    BY <1>3 DEF RealRecs
  <2>. DEFINE next == Saved(r, h)
              pledge == Pledge(r, k)
              others == Others(k, r.id)
              k2 == Pushed(pledge, others)
              l == loadStore(h)
              lo == Others(l, r.id)
              x == sanitizeInvestigation(r, {})
              l2 == loadStore(StoredAll(next))
  <2>1. h \in Seq(StoredEntries(m, n)) /\ DistinctEntries(h)
    BY DEF HistoryOK
  <2>2. /\ next = Pushed(x, lo) /\ next \in Seq(RealRecs(m, n)) /\ Len(next) <= MaxStored
        /\ DistinctIds(next) /\ x.id = r.id /\ ResultsOf(x) = ResultsOf(r)
    BY <2>0, <2>1, SavedIs
  <2>3. l \in Seq(RealRecs(m, n))
    BY <2>1, LoadIs
  <2>4. pledge \in Promises /\ pledge.id = r.id /\ pledge.results = ResultsOf(r)
    BY <2>0, PledgeIs
  <2>5. others \in Seq(Promises) /\ lo \in Seq(RealRecs(m, n))
    BY <2>3, OthersIs
  <2>6. Matches(lo, others)
    <3>. HIDE DEF l
    <3>1. Matches(l, k)
      BY DEF l
    <3>. QED
      BY <2>3, <3>1, OthersMatch
  <2>7. \A i \in 1 .. Len(others) : \E j \in 1 .. Len(k) : others[i] = k[j]
    <3>1. \A i \in 1 .. Len(others) : InOrder(Apart(k, r.id))[i] \in 1 .. Len(k)
                                       /\ others[i] = k[InOrder(Apart(k, r.id))[i]]
      BY OthersIs
    <3>. QED
      BY <3>1
  <2>8. /\ Len(l2) = Len(next)
        /\ \A i \in 1 .. Len(next) : l2[i].id = next[i].id /\ ResultsOf(l2[i]) = ResultsOf(next[i])
    <3>. HIDE DEF next
    <3>. QED
      BY <2>2, StoredIs
  <2>9. x \in RealRecs(m, n)
    <3>1. r \in Recs(m, n) /\ r.id # 0
      BY <2>0 DEF RealRecs
    <3>2. \A M : sanitizeInvestigation(r, M) \in Recs(m, n)
      BY <3>1, SanitizedIs
    <3>. QED
      BY <2>2, <3>1, <3>2 DEF RealRecs
  <2>. HIDE DEF next, pledge, others, k2, l, lo, x, l2
  <2>10. /\ Len(next) = (IF Len(lo) < MaxStored THEN Len(lo) + 1 ELSE MaxStored)
         /\ next[1] = x /\ \A i \in 2 .. Len(next) : i - 1 \in 1 .. Len(lo) /\ next[i] = lo[i - 1]
    <3>. DEFINE q == Pushed(x, lo)
    <3>1. /\ Len(q) = (IF Len(lo) < MaxStored THEN Len(lo) + 1 ELSE MaxStored)
          /\ q[1] = x /\ \A i \in 2 .. Len(q) : i - 1 \in 1 .. Len(lo) /\ q[i] = lo[i - 1]
      BY <2>5, <2>9, PushedIs
    <3>. HIDE DEF q
    <3>2. next = q
      BY <2>2 DEF q
    <3>. QED
      BY <3>1, <3>2
  <2>11. /\ k2 \in Seq(Promises)
         /\ Len(k2) = (IF Len(others) < MaxStored THEN Len(others) + 1 ELSE MaxStored)
         /\ k2[1] = pledge
         /\ \A i \in 2 .. Len(k2) : i - 1 \in 1 .. Len(others) /\ k2[i] = others[i - 1]
    BY <2>4, <2>5, PushedIs DEF k2
  <2>12. Matches(l2, k2)
    <3>1. Len(lo) = Len(others)
      BY <2>6 DEF Matches
    <3>2. Len(l2) = Len(k2) /\ Len(next) = Len(k2)
      BY <2>8, <2>10, <2>11, <3>1
    <3>3. ASSUME NEW i \in 1 .. Len(k2)
          PROVE  next[i].id = k2[i].id /\ k2[i].results \subseteq ResultsOf(next[i])
      <4>1. CASE i = 1
        BY <2>2, <2>4, <2>10, <2>11, <4>1
      <4>2. CASE i # 1
        <5>1. i \in 2 .. Len(k2)
          BY <2>11, <4>2
        <5>2. i - 1 \in 1 .. Len(others) /\ k2[i] = others[i - 1] /\ next[i] = lo[i - 1]
          BY <2>10, <2>11, <3>2, <5>1
        <5>. QED
          BY <2>6, <5>2 DEF Matches
      <4>. QED
        BY <4>1, <4>2
    <3>4. ASSUME NEW i \in 1 .. Len(k2)
          PROVE  l2[i].id = k2[i].id /\ k2[i].results \subseteq ResultsOf(l2[i])
      <4>1. l2[i].id = next[i].id /\ ResultsOf(l2[i]) = ResultsOf(next[i])
        BY <2>8, <3>2
      <4>. QED
        BY <3>3, <4>1
    <3>. QED
      BY <3>2, <3>4 DEF Matches
  <2>13. ASSUME NEW q, Covers(q, k), q.id = r.id => ResultsOf(r) \subseteq ResultsOf(q)
         PROVE  Covers(q, k2)
    <3>. SUFFICES ASSUME NEW i \in 1 .. Len(k2), k2[i].id = q.id
                  PROVE  k2[i].results \subseteq ResultsOf(q)
      BY DEF Covers
    <3>1. CASE i = 1
      BY <2>4, <2>11, <2>13, <3>1
    <3>2. CASE i # 1
      <4>1. i \in 2 .. Len(k2)
        BY <2>11, <3>2
      <4>2. i - 1 \in 1 .. Len(others) /\ k2[i] = others[i - 1]
        BY <2>11, <4>1
      <4>3. PICK j \in 1 .. Len(k) : k2[i] = k[j]
        BY <2>7, <4>2
      <4>. QED
        BY <2>13, <4>3 DEF Covers
    <3>. QED
      BY <3>1, <3>2
  <2>14. store.kept = k2 /\ loadStore(store.history) = l2
    <3>1. store.history = StoredAll(Saved(r, h)) /\ store.kept = Pushed(Pledge(r, k), Others(k, r.id))
      BY <1>3 DEF Store
    <3>. QED
      BY <3>1 DEF k2, l2, next, pledge, others
  <2>. QED
    BY <2>11, <2>12, <2>13, <2>14 DEF store
<1>. QED
  BY <1>1, <1>2, <1>3 DEF SaveOutcome

LEMMA PersistIs ==
  ASSUME NEW m \in Nat, NEW n \in Nat, HistoryOK(localHistory, m, n),
         NEW first \in Recs(m, n), Proper(first), NEW second \in Recs(m, n), Proper(second),
         Persist(first, second)
  PROVE  HistoryOK(localHistory', m, n)
<1>. DEFINE s1 == saveInvestigation(Store(localHistory, kept), first)
            s2 == saveInvestigation(s1, second)
<1>1. HistoryOK(s1.history, m, n) /\ s1 = Store(s1.history, s1.kept)
  <2>1. HistoryOK(s1.history, m, n) /\ \E h2, k2 : s1 = Store(h2, k2)
    BY SaveIs
  <2>. HIDE DEF s1
  <2>. QED
    BY <2>1 DEF Store
<1>2. localHistory' = s2.history
  BY DEF Persist, Store
<1>. HIDE DEF s1
<1>3. HistoryOK(saveInvestigation(Store(s1.history, s1.kept), second).history, m, n)
  BY <1>1, SaveIs
<1>. QED
  BY <1>1, <1>2, <1>3

LEMMA PersistKeeps ==
  ASSUME NEW m \in Nat, NEW n \in Nat, HistoryOK(localHistory, m, n),
         NEW first \in Recs(m, n), Proper(first), NEW second \in Recs(m, n), Proper(second),
         Persist(first, second),
         kept \in Seq(Promises), Matches(loadStore(localHistory), kept),
         Covers(first, kept), Covers(second, kept),
         second.id = first.id => ResultsOf(first) \subseteq ResultsOf(second)
  PROVE  /\ kept' \in Seq(Promises) /\ Matches(loadStore(localHistory'), kept')
         /\ \A q : Covers(q, kept) /\ (q.id = first.id => ResultsOf(first) \subseteq ResultsOf(q))
                     /\ (q.id = second.id => ResultsOf(second) \subseteq ResultsOf(q))
                     => Covers(q, kept')
<1>. DEFINE s1 == saveInvestigation(Store(localHistory, kept), first)
            s2 == saveInvestigation(s1, second)
<1>1. HistoryOK(s1.history, m, n) /\ s1 = Store(s1.history, s1.kept)
  <2>1. HistoryOK(s1.history, m, n) /\ \E h2, k2 : s1 = Store(h2, k2)
    BY SaveIs
  <2>. HIDE DEF s1
  <2>. QED
    BY <2>1 DEF Store
<1>2. /\ s1.kept \in Seq(Promises) /\ Matches(loadStore(s1.history), s1.kept)
      /\ \A q : Covers(q, kept) /\ (q.id = first.id => ResultsOf(first) \subseteq ResultsOf(q))
                  => Covers(q, s1.kept)
  BY SaveKeeps
<1>3. localHistory' = s2.history /\ kept' = s2.kept
  BY DEF Persist, Store
<1>. HIDE DEF s1
<1>4. Covers(second, s1.kept)
  BY <1>2
<1>. DEFINE s3 == saveInvestigation(Store(s1.history, s1.kept), second)
<1>5. /\ s3.kept \in Seq(Promises) /\ Matches(loadStore(s3.history), s3.kept)
      /\ \A q : Covers(q, s1.kept) /\ (q.id = second.id => ResultsOf(second) \subseteq ResultsOf(q))
                  => Covers(q, s3.kept)
  BY <1>1, <1>2, <1>4, SaveKeeps
<1>6. s3 = s2
  BY <1>1
<1>. HIDE DEF s2, s3
<1>7. localHistory' = s3.history /\ kept' = s3.kept
  BY <1>3, <1>6
<1>. QED
  BY <1>2, <1>5, <1>7

------------------------------------------------------------------------------
(* Workspaces.                                                             *)

LEMMA WorkspacesGrow ==
  ASSUME NEW m \in Nat, NEW n \in Nat, NEW m2 \in Nat, NEW n2 \in Nat, m <= m2, n <= n2
  PROVE  /\ WorkspaceSet(m, n) \subseteq WorkspaceSet(m2, n2) /\ PageSet(m, n) \subseteq PageSet(m2, n2)
         /\ \A h : HistoryOK(h, m, n) => HistoryOK(h, m2, n2)
<1>1. Recs(m, n) \subseteq Recs(m2, n2)
  BY RecsGrow
<1>2. WorkspaceSet(m, n) \subseteq WorkspaceSet(m2, n2)
  BY <1>1 DEF WorkspaceSet
<1>3. 1 .. n \subseteq 1 .. n2
  OBVIOUS
<1>4. PageSet(m, n) \subseteq PageSet(m2, n2)
  BY <1>2, <1>3 DEF PageSet
<1>5. StoredEntries(m, n) \subseteq StoredEntries(m2, n2)
  BY <1>1 DEF StoredEntries, RealRecs
<1>6. ASSUME NEW h, HistoryOK(h, m, n) PROVE HistoryOK(h, m2, n2)
  <2>1. h \in Seq(StoredEntries(m, n))
    BY <1>6 DEF HistoryOK
  <2>2. h \in Seq(StoredEntries(m2, n2))
    BY <1>5, <2>1, SeqMonotonic
  <2>. QED
    BY <1>6, <2>2 DEF HistoryOK
<1>. QED
  BY <1>2, <1>4, <1>6

LEMMA NoWorkspaceIs ==
  ASSUME NEW m \in Nat, NEW n \in Nat, NEW own
  PROVE  /\ NoWorkspace \in WorkspaceSet(m, n) /\ WorkspaceOK(NoWorkspace, own)
         /\ ~NoWorkspace.imported /\ NoWorkspace.display = "none" /\ Held(NoWorkspace) = {}
         /\ NoWorkspace.current = NoRecord /\ NoWorkspace.detached = NoRecord
<1>. DEFINE w == NoWorkspace
<1>1. /\ NoRecord \in Recs(m, n) /\ Proper(NoRecord) /\ NoRecord.id = 0
      /\ NoRecord.evidence = {} /\ NoRecord.panel = 0
  BY NoRecordIs
<1>2. /\ w.imported = FALSE /\ w.display = "none" /\ w.current = NoRecord /\ w.detached = NoRecord
  BY DEF NoWorkspace
<1>3. w \in WorkspaceSet(m, n)
  BY <1>1 DEF WorkspaceSet, NoWorkspace, Displays
<1>. HIDE DEF w
<1>4. WorkspaceOK(w, own)
  BY <1>1, <1>2 DEF WorkspaceOK, BoundHere, EarnedHere
<1>5. Held(w) = {}
  BY <1>1, <1>2 DEF Held
<1>. QED
  BY <1>2, <1>3, <1>4, <1>5 DEF w

\* The panel of the current record forgotten
Forgotten(r) == [r EXCEPT !.panel = 0]
LEMMA ForgottenIs ==
  ASSUME NEW m \in Nat, NEW n \in Nat, NEW r \in Recs(m, n), Proper(r)
  PROVE  LET f == Forgotten(r)
         IN  /\ f \in Recs(m, n) /\ Proper(f) /\ f.id = r.id /\ f.bound = r.bound /\ f.panel = 0
             /\ f.evidence = r.evidence /\ ResultsOf(f) = ResultsOf(r) /\ (f = NoRecord <=> r = NoRecord)
<1>. DEFINE f == Forgotten(r)
<1>1. f = [r EXCEPT !.panel = 0]
  BY DEF Forgotten
<1>2. 0 \in 0 .. n
  OBVIOUS
<1>. HIDE DEF f
<1>3. f \in Recs(m, n) /\ f.id = r.id /\ f.bound = r.bound /\ f.panel = 0 /\ f.evidence = r.evidence
  BY <1>1, <1>2 DEF Recs
<1>4. ResultsOf(f) = ResultsOf(r)
  BY <1>3 DEF ResultsOf
<1>5. r = NoRecord => f = NoRecord
  <2>1. [NoRecord EXCEPT !.panel = 0] = NoRecord
    BY DEF NoRecord
  <2>. QED
    BY <1>1, <2>1
<1>6. NoRecord.id = 0
  BY DEF NoRecord
<1>. QED
  BY <1>3, <1>4, <1>5, <1>6 DEF Proper, f

LEMMA UnlinkedIs ==
  ASSUME NEW m \in Nat, NEW n \in Nat, NEW w \in WorkspaceSet(m, n), NEW own, WorkspaceOK(w, own),
         NEW unexpected \in BOOLEAN
  PROVE  LET u == Unlinked(w, unexpected)
         IN  /\ u \in WorkspaceSet(m, n) /\ WorkspaceOK(u, own) /\ u.imported = w.imported
             /\ u.display = "none" /\ u.detached = w.detached /\ u.current.id = w.current.id
             /\ ResultsOf(u.current) = ResultsOf(w.current)
<1>. DEFINE u == Unlinked(w, unexpected)
            f == Forgotten(w.current)
            g == w.fresh /\ ~unexpected
<1>1. /\ w.current \in Recs(m, n) /\ w.detached \in Recs(m, n) /\ w.imported \in BOOLEAN
      /\ w.fresh \in BOOLEAN /\ Proper(w.current)
  BY DEF WorkspaceSet, WorkspaceOK
<1>2. /\ f \in Recs(m, n) /\ Proper(f) /\ f.id = w.current.id /\ f.panel = 0
      /\ f.evidence = w.current.evidence /\ f.bound = w.current.bound
      /\ ResultsOf(f) = ResultsOf(w.current)
  BY <1>1, ForgottenIs
<1>3. u = [w EXCEPT !.display = "none", !.current = f, !.fresh = g]
  BY DEF Unlinked, Forgotten
<1>4. g \in BOOLEAN /\ "none" \in Displays
  BY DEF Displays
<1>. HIDE DEF u, f, g
<1>5. /\ u \in WorkspaceSet(m, n) /\ u.imported = w.imported /\ u.display = "none"
      /\ u.detached = w.detached /\ u.current = f
  BY <1>2, <1>3, <1>4 DEF WorkspaceSet
<1>6. WorkspaceOK(u, own)
  BY <1>2, <1>5 DEF WorkspaceOK, BoundHere, EarnedHere
<1>. QED
  BY <1>2, <1>5, <1>6 DEF u

\* A workspace goes on with its record, or starts a new one and detaches the one it had.
Continues(s, w, id) ==
  \/ /\ s.current.id = w.current.id /\ ResultsOf(w.current) \subseteq ResultsOf(s.current)
     /\ s.detached = w.detached
  \/ /\ s.current.id = id /\ w.current = NoRecord /\ s.detached = w.detached
  \/ /\ s.current.id = id /\ w.current # NoRecord
     /\ s.detached.id = w.current.id /\ ResultsOf(s.detached) = ResultsOf(w.current)
Working(s, w, own, n) ==
  /\ s.imported = w.imported /\ s.display = w.display /\ s.current.active /\ s.current # NoRecord
  /\ WorkspaceOK(s, own) /\ Continues(s, w, records + 1)
  /\ \/ s \in WorkspaceSet(records, n) /\ s.current.id <= records
     \/ s \in WorkspaceSet(records + 1, n) /\ s.current.id = records + 1

LEMMA ActiveIsARecord ==
  ASSUME NEW r, r.active PROVE r # NoRecord
BY DEF NoRecord

LEMMA StartedIs ==
  ASSUME records \in Nat, NEW n \in Nat, NEW w \in WorkspaceSet(records, n), NEW own, WorkspaceOK(w, own)
  PROVE  Working(startInvestigation(w), w, own, n)
<1>. DEFINE s == startInvestigation(w)
<1>1. CASE w.current.active /\ w.fresh
  <2>1. s = w
    BY <1>1 DEF startInvestigation
  <2>2. w.current # NoRecord
    BY <1>1, ActiveIsARecord
  <2>3. w.current.id \in 0 .. records
    BY DEF WorkspaceSet, Recs
  <2>4. Continues(w, w, records + 1)
    BY DEF Continues
  <2>. HIDE DEF s
  <2>. QED
    BY <1>1, <2>1, <2>2, <2>3, <2>4 DEF Working, s
<1>2. CASE ~(w.current.active /\ w.fresh)
  <2>. DEFINE d == IF w.current = NoRecord THEN w.detached ELSE Detached(w.current)
              c == createInvestigation(records + 1, w.display)
  <2>1. s = [w EXCEPT !.detached = d, !.current = c, !.fresh = TRUE]
    BY <1>2 DEF startInvestigation
  <2>2. /\ w.current \in Recs(records, n) /\ w.detached \in Recs(records, n)
        /\ w.imported \in BOOLEAN /\ w.display \in Displays
        /\ Proper(w.current) /\ Proper(w.detached)
    BY DEF WorkspaceSet, WorkspaceOK
  <2>3. records + 1 \in Nat /\ records + 1 \in 1 .. records + 1 /\ Recs(records, n) \subseteq Recs(records + 1, n)
        /\ WorkspaceSet(records, n) \subseteq WorkspaceSet(records + 1, n)
    BY RecsGrow, WorkspacesGrow
  <2>4. /\ c \in Recs(records + 1, n) /\ c.id = records + 1 /\ c.bound = w.display /\ c.panel = 0
        /\ c.active /\ c.evidence = {} /\ Proper(c) /\ c # NoRecord
    BY <2>2, <2>3, CreatedIs
  <2>5. d \in Recs(records + 1, n) /\ Proper(d)
    <3>1. CASE w.current = NoRecord
      BY <2>2, <2>3, <3>1
    <3>2. CASE w.current # NoRecord
      <4>1. w.current.id # 0
        BY <2>2, <3>2 DEF Proper
      <4>2. Detached(w.current) \in Recs(records, n) /\ Proper(Detached(w.current))
        BY <2>2, <4>1, DetachedIs
      <4>. QED
        BY <2>3, <3>2, <4>2
    <3>. QED
      BY <3>1, <3>2
  <2>6. \/ w.current = NoRecord /\ d = w.detached
        \/ /\ w.current # NoRecord /\ d.id = w.current.id /\ ResultsOf(d) = ResultsOf(w.current)
    <3>1. CASE w.current = NoRecord
      BY <3>1
    <3>2. CASE w.current # NoRecord
      <4>1. w.current.id # 0
        BY <2>2, <3>2 DEF Proper
      <4>2. /\ Detached(w.current).id = w.current.id
            /\ ResultsOf(Detached(w.current)) = ResultsOf(w.current)
        BY <2>2, <4>1, DetachedIs
      <4>. QED
        BY <3>2, <4>2
    <3>. QED
      BY <3>1, <3>2
  <2>7. w \in WorkspaceSet(records + 1, n)
    BY <2>3
  <2>. HIDE DEF s, d, c
  <2>8. /\ s \in WorkspaceSet(records + 1, n) /\ s.imported = w.imported /\ s.display = w.display
        /\ s.current = c /\ s.detached = d
    BY <2>1, <2>4, <2>5, <2>7 DEF WorkspaceSet
  <2>9. WorkspaceOK(s, own)
    BY <2>4, <2>5, <2>8 DEF WorkspaceOK, BoundHere, EarnedHere
  <2>10. Continues(s, w, records + 1)
    BY <2>4, <2>6, <2>8 DEF Continues
  <2>. QED
    BY <2>4, <2>8, <2>9, <2>10 DEF Working, s
<1>. QED
  BY <1>1, <1>2

LEMMA EnsuredIs ==
  ASSUME records \in Nat, NEW n \in Nat, NEW w \in WorkspaceSet(records, n), NEW own, WorkspaceOK(w, own)
  PROVE  Working(ensureInvestigation(w), w, own, n)
<1>. DEFINE s == ensureInvestigation(w)
<1>0. /\ w.current \in Recs(records, n) /\ w.current.id \in 0 .. records
  BY DEF WorkspaceSet, Recs
<1>1. CASE w.current.active
  <2>1. s = w
    BY <1>1 DEF ensureInvestigation
  <2>2. w.current # NoRecord
    BY <1>1, ActiveIsARecord
  <2>3. Continues(w, w, records + 1)
    BY DEF Continues
  <2>. HIDE DEF s
  <2>. QED
    BY <1>0, <1>1, <2>1, <2>2, <2>3 DEF Working, s
<1>2. CASE ~w.current.active /\ w.current # NoRecord /\ w.fresh
  <2>. DEFINE c == [w.current EXCEPT !.active = TRUE]
  <2>1. s = [w EXCEPT !.current = c]
    BY <1>2 DEF ensureInvestigation
  <2>2. /\ c \in Recs(records, n) /\ c.id = w.current.id /\ c.bound = w.current.bound
        /\ c.panel = w.current.panel /\ c.active = TRUE /\ c.evidence = w.current.evidence
    BY <1>0 DEF Recs
  <2>3. ResultsOf(c) = ResultsOf(w.current)
    BY <2>2 DEF ResultsOf
  <2>4. c # NoRecord
    BY <2>2, ActiveIsARecord
  <2>5. Proper(c)
    BY <1>2, <2>2 DEF Proper, WorkspaceOK
  <2>. HIDE DEF s, c
  <2>6. /\ s \in WorkspaceSet(records, n) /\ s.imported = w.imported /\ s.display = w.display
        /\ s.current = c /\ s.detached = w.detached
    BY <2>1, <2>2 DEF WorkspaceSet
  <2>7. WorkspaceOK(s, own)
    BY <1>2, <2>2, <2>5, <2>6 DEF WorkspaceOK, BoundHere, EarnedHere
  <2>8. Continues(s, w, records + 1)
    BY <2>2, <2>3, <2>6 DEF Continues
  <2>9. s.current.id <= records
    BY <1>0, <2>2, <2>6
  <2>. QED
    BY <2>2, <2>4, <2>6, <2>7, <2>8, <2>9 DEF Working, s
<1>3. CASE ~w.current.active /\ ~(w.current # NoRecord /\ w.fresh)
  <2>1. s = startInvestigation(w)
    BY <1>3 DEF ensureInvestigation
  <2>. QED
    BY <2>1, StartedIs
<1>. QED
  BY <1>1, <1>2, <1>3

------------------------------------------------------------------------------
(* One tab moves.                                                          *)

LEMMA PageIs ==
  ASSUME ArchiveLocal, NEW t \in Pages
  PROVE  /\ records \in Nat /\ results \in Nat
         /\ pages[t] \in PageSet(records, results) /\ PageOK(pages[t])
         /\ pages[t].shown \in WorkspaceSet(records, results) /\ WorkspaceOK(pages[t].shown, pages[t].own)
         /\ pages[t].live \in WorkspaceSet(records, results) /\ WorkspaceOK(pages[t].live, pages[t].own)
         /\ pages[t].own \subseteq 1 .. results
<1>1. /\ pages[t] \in PageSet(records, results) /\ PageOK(pages[t])
      /\ records \in 0 .. MaxRecords /\ results \in 0 .. MaxResults
  BY DEF ArchiveLocal, ArchiveTypes
<1>. QED
  BY <1>1 DEF PageSet, PageOK

LEMMA RealIs ==
  ASSUME ArchiveLocal, NEW t \in Pages
  PROVE  LET w == Real(pages[t])
         IN  /\ w \in WorkspaceSet(records, results) /\ WorkspaceOK(w, pages[t].own) /\ ~w.imported
             /\ w.current \in Recs(records, results) /\ w.detached \in Recs(records, results)
             /\ Proper(w.current) /\ Proper(w.detached)
             /\ Held(w) \subseteq 1 .. records
<1>. DEFINE w == Real(pages[t])
<1>1. w \in WorkspaceSet(records, results) /\ WorkspaceOK(w, pages[t].own)
  BY PageIs DEF Real
<1>2. ~w.imported
  BY PageIs DEF Real, PageOK
<1>. HIDE DEF w
<1>3. /\ w.current \in Recs(records, results) /\ w.detached \in Recs(records, results)
      /\ Proper(w.current) /\ Proper(w.detached)
  BY <1>1 DEF WorkspaceSet, WorkspaceOK
<1>4. Held(w) \subseteq 1 .. records
  <2>1. w.current.id \in 0 .. records /\ w.detached.id \in 0 .. records
    BY <1>3 DEF Recs
  <2>2. records \in Nat
    BY PageIs
  <2>. QED
    BY <2>1, <2>2 DEF Held
<1>. QED
  BY <1>1, <1>2, <1>3, <1>4 DEF w

LEMMA LocalStep ==
  ASSUME ArchiveLocal, NEW t \in Pages, NEW p, PageOK(p),
         records' \in 0 .. MaxRecords, results' \in 0 .. MaxResults,
         records <= records', results <= results',
         p \in PageSet(records', results'), pages' = [pages EXCEPT ![t] = p],
         HistoryOK(localHistory', records', results'), file' = file
  PROVE  ArchiveLocal'
<1>1. /\ records \in Nat /\ results \in Nat /\ records' \in Nat /\ results' \in Nat
      /\ pages \in [Pages -> PageSet(records, results)]
      /\ file \in [record : Recs(records, results), full : BOOLEAN] /\ Proper(file.record)
      /\ \A u \in Pages : PageOK(pages[u])
  BY ArchiveAssumption DEF ArchiveLocal, ArchiveTypes
<1>2. /\ Recs(records, results) \subseteq Recs(records', results')
      /\ PageSet(records, results) \subseteq PageSet(records', results')
  BY <1>1, RecsGrow, WorkspacesGrow
<1>3. pages' \in [Pages -> PageSet(records', results')]
  BY <1>1, <1>2
<1>4. \A u \in Pages : PageOK(pages'[u])
  BY <1>1
<1>5. file' \in [record : Recs(records', results'), full : BOOLEAN] /\ Proper(file'.record)
  BY <1>1, <1>2
<1>. QED
  BY <1>3, <1>4, <1>5 DEF ArchiveLocal, ArchiveTypes

\* A tab cannot take back what another one was promised: their records are not the same.
LEMMA PageMoves ==
  ASSUME ArchiveLocal, KeptAsPromised, NEW m \in Nat, NEW n \in Nat, records <= m, results <= n,
         NEW t \in Pages, NEW p, pages' = [pages EXCEPT ![t] = p],
         NEW first \in Recs(m, n), Proper(first), NEW second \in Recs(m, n), Proper(second),
         Persist(first, second),
         Safe(Real(p), kept), Covers(first, kept), Covers(second, kept),
         second.id = first.id => ResultsOf(first) \subseteq ResultsOf(second),
         \A q \in {Real(p).current, Real(p).detached}, f \in {first, second} :
           q.id = f.id => ResultsOf(f) \subseteq ResultsOf(q),
         \A u \in Pages \ {t} : /\ Held(Real(p)) \cap Held(Real(pages[u])) = {}
                                /\ first.id \notin Held(Real(pages[u]))
                                /\ second.id \notin Held(Real(pages[u]))
  PROVE  KeptAsPromised'
<1>1. /\ kept \in Seq(Promises) /\ Matches(loadStore(localHistory), kept)
      /\ \A u \in Pages : Safe(Real(pages[u]), kept)
      /\ \A u, v \in Pages : u # v => Held(Real(pages[u])) \cap Held(Real(pages[v])) = {}
  BY DEF KeptAsPromised
<1>2. HistoryOK(localHistory, m, n)
  <2>1. HistoryOK(localHistory, records, results) /\ records \in Nat /\ results \in Nat
    BY PageIs DEF ArchiveLocal, ArchiveTypes
  <2>. QED
    BY <2>1, WorkspacesGrow
<1>3. /\ kept' \in Seq(Promises) /\ Matches(loadStore(localHistory'), kept')
      /\ \A q : Covers(q, kept) /\ (q.id = first.id => ResultsOf(first) \subseteq ResultsOf(q))
                     /\ (q.id = second.id => ResultsOf(second) \subseteq ResultsOf(q))
                     => Covers(q, kept')
  BY <1>1, <1>2, PersistKeeps
<1>4. Safe(Real(p), kept')
  BY <1>3 DEF Safe
<1>5. ASSUME NEW u \in Pages, u # t PROVE Safe(Real(pages[u]), kept')
  <2>. DEFINE w == Real(pages[u])
  <2>1. Proper(w.current) /\ Proper(w.detached)
    BY RealIs
  <2>2. Safe(w, kept) /\ first.id \notin Held(w) /\ second.id \notin Held(w)
    BY <1>1, <1>5
  <2>. HIDE DEF w
  <2>3. ASSUME NEW q \in {w.current, w.detached}, NEW f \in {first, second}, q.id = f.id
        PROVE  ResultsOf(f) \subseteq ResultsOf(q)
    <3>1. q.id = 0
      BY <2>2, <2>3 DEF Held
    <3>2. q = NoRecord /\ f = NoRecord
      BY <2>1, <2>3, <3>1 DEF Proper
    <3>. QED
      BY <3>2
  <2>4. Covers(w.current, kept') /\ Covers(w.detached, kept')
    BY <1>3, <2>2, <2>3 DEF Safe
  <2>. QED
    BY <2>2, <2>4 DEF Safe, w
<1>6. /\ pages'[t] = p /\ \A u \in Pages : u # t => pages'[u] = pages[u]
  BY DEF ArchiveLocal, ArchiveTypes
<1>7. \A u \in Pages : Safe(Real(pages'[u]), kept')
  BY <1>4, <1>5, <1>6
<1>8. \A u, v \in Pages : u # v => Held(Real(pages'[u])) \cap Held(Real(pages'[v])) = {}
  BY <1>1, <1>6
<1>. QED
  BY <1>3, <1>7, <1>8 DEF KeptAsPromised

\* A record that comes from what the tab held, or has a number never used, is nobody else's.
Derived(r, w) ==
  \/ r.id = 0 \/ r.id = records + 1
  \/ \E q \in {w.current, w.detached} : q.id = r.id /\ ResultsOf(q) \subseteq ResultsOf(r)
LEMMA KeptIds ==
  ASSUME ArchiveLocal, KeptAsPromised
  PROVE  \A i \in 1 .. Len(kept) : kept[i].id \in 1 .. records
<1>. DEFINE l == loadStore(localHistory)
<1>1. records \in Nat /\ results \in Nat /\ localHistory \in Seq(StoredEntries(records, results))
  BY ArchiveAssumption DEF ArchiveLocal, ArchiveTypes, HistoryOK
<1>2. l \in Seq(RealRecs(records, results))
  BY <1>1, LoadIs
<1>3. Matches(l, kept)
  BY DEF KeptAsPromised
<1>. HIDE DEF l
<1>4. ASSUME NEW i \in 1 .. Len(kept) PROVE kept[i].id \in 1 .. records
  <2>1. l[i].id = kept[i].id /\ i \in 1 .. Len(l)
    BY <1>3 DEF Matches
  <2>2. l[i] \in RealRecs(records, results)
    BY <1>2, <2>1
  <2>. QED
    BY <1>1, <2>1, <2>2 DEF RealRecs, Recs
<1>. QED
  BY <1>4

LEMMA DerivedIs ==
  ASSUME ArchiveLocal, KeptAsPromised, NEW t \in Pages, NEW r, Derived(r, Real(pages[t]))
  PROVE  /\ Covers(r, kept)
         /\ \A u \in Pages \ {t} : r.id \notin Held(Real(pages[u]))
<1>. DEFINE w == Real(pages[t])
<1>1. records \in Nat /\ \A i \in 1 .. Len(kept) : kept[i].id \in 1 .. records
  BY KeptIds, PageIs
<1>2. \A u \in Pages : Held(Real(pages[u])) \subseteq 1 .. records
  BY RealIs
<1>3. Safe(w, kept) /\ \A u \in Pages \ {t} : Held(w) \cap Held(Real(pages[u])) = {}
  BY DEF KeptAsPromised
<1>. HIDE DEF w
<1>4. Derived(r, w)
  BY DEF w
<1>5. CASE r.id = 0 \/ r.id = records + 1
  <2>1. r.id \notin 1 .. records
    BY <1>1, <1>5
  <2>. QED
    BY <1>1, <1>2, <2>1 DEF Covers
<1>6. CASE r.id # 0 /\ \E q \in {w.current, w.detached} : q.id = r.id /\ ResultsOf(q) \subseteq ResultsOf(r)
  <2>1. PICK q \in {w.current, w.detached} : q.id = r.id /\ ResultsOf(q) \subseteq ResultsOf(r)
    BY <1>6
  <2>2. Covers(q, kept)
    BY <1>3 DEF Safe
  <2>3. Covers(r, kept)
    BY <2>1, <2>2 DEF Covers
  <2>4. r.id \in Held(w)
    BY <1>6, <2>1 DEF Held
  <2>. QED
    BY <1>3, <2>3, <2>4
<1>. QED
  BY <1>4, <1>5, <1>6 DEF Derived

LEMMA PageMovesOn ==
  ASSUME ArchiveLocal, KeptAsPromised, NEW m \in Nat, NEW n \in Nat, records <= m, results <= n,
         NEW t \in Pages, NEW p, pages' = [pages EXCEPT ![t] = p],
         NEW first \in Recs(m, n), Proper(first), NEW second \in Recs(m, n), Proper(second),
         Persist(first, second), HoldsApart(Real(p)),
         \A r \in {Real(p).current, Real(p).detached, first, second} : Derived(r, Real(pages[t])),
         second.id = first.id => ResultsOf(first) \subseteq ResultsOf(second),
         \A q \in {Real(p).current, Real(p).detached}, f \in {first, second} :
           q.id = f.id => ResultsOf(f) \subseteq ResultsOf(q)
  PROVE  KeptAsPromised'
<1>1. \A r \in {Real(p).current, Real(p).detached, first, second} :
        Covers(r, kept) /\ \A u \in Pages \ {t} : r.id \notin Held(Real(pages[u]))
  BY DerivedIs
<1>2. Safe(Real(p), kept)
  BY <1>1 DEF Safe
<1>3. \A u \in Pages \ {t} : Held(Real(p)) \cap Held(Real(pages[u])) = {}
  BY <1>1 DEF Held
<1>. QED
  BY <1>1, <1>2, <1>3, PageMoves

LEMMA QuietIs ==
  ASSUME KeepStorage
  PROVE  Persist(NoRecord, NoRecord) /\ localHistory' = localHistory /\ kept' = kept
<1>1. localHistory' = localHistory /\ kept' = kept /\ refusing' = refusing
  BY DEF KeepStorage
<1>2. \A store : saveInvestigation(store, NoRecord) = store
  BY DEF saveInvestigation
<1>. DEFINE st == [history |-> localHistory, kept |-> kept]
<1>3. saveInvestigation(saveInvestigation(st, NoRecord), NoRecord) = st
  BY <1>2
<1>4. st.history = localHistory /\ st.kept = kept
  OBVIOUS
<1>. HIDE DEF st
<1>5. Persist(NoRecord, NoRecord) <=>
        LET store == saveInvestigation(saveInvestigation(st, NoRecord), NoRecord)
        IN  localHistory' = store.history /\ kept' = store.kept /\ UNCHANGED refusing
  BY DEF Persist, st
<1>. QED
  BY <1>1, <1>3, <1>4, <1>5

LEMMA QuietMove ==
  ASSUME ArchiveLocal, KeptAsPromised, NEW t \in Pages, NEW p, pages' = [pages EXCEPT ![t] = p],
         KeepStorage, HoldsApart(Real(p)), Derived(Real(p).current, Real(pages[t])),
         Derived(Real(p).detached, Real(pages[t]))
  PROVE  KeptAsPromised'
<1>1. records \in Nat /\ results \in Nat
  BY PageIs
<1>2. NoRecord \in Recs(records, results) /\ Proper(NoRecord) /\ NoRecord.id = 0 /\ NoRecord.evidence = {}
  BY <1>1, NoRecordIs
<1>3. ResultsOf(NoRecord) = {}
  BY <1>2 DEF ResultsOf
<1>4. Persist(NoRecord, NoRecord)
  BY QuietIs
<1>5. \A r \in {Real(p).current, Real(p).detached, NoRecord, NoRecord} : Derived(r, Real(pages[t]))
  BY <1>2 DEF Derived
<1>6. \A q \in {Real(p).current, Real(p).detached}, f \in {NoRecord, NoRecord} :
        q.id = f.id => ResultsOf(f) \subseteq ResultsOf(q)
  BY <1>3
<1>7. NoRecord.id = NoRecord.id => ResultsOf(NoRecord) \subseteq ResultsOf(NoRecord)
  OBVIOUS
<1>8. records <= records /\ results <= results
  BY <1>1
<1>. QED
  BY <1>1, <1>2, <1>4, <1>5, <1>6, <1>7, <1>8, PageMovesOn

\* Nothing in the memory of a tab moves that is ever saved.
LEMMA RealStays ==
  ASSUME ArchiveLocal, KeptAsPromised, NEW t \in Pages, NEW p, pages' = [pages EXCEPT ![t] = p],
         KeepStorage, Real(p) = Real(pages[t])
  PROVE  KeptAsPromised'
<1>. DEFINE w == Real(pages[t])
<1>1. HoldsApart(w)
  BY DEF KeptAsPromised, Safe
<1>2. Derived(w.current, w) /\ Derived(w.detached, w)
  BY DEF Derived
<1>. QED
  BY <1>1, <1>2, QuietMove

LEMMA ShownStep ==
  ASSUME ArchiveLocal, NEW t \in Pages, NEW s, Shown(t, s), WorkspaceOK(s, pages[t].own),
         s.imported = pages[t].shown.imported,
         records' \in 0 .. MaxRecords, results' \in 0 .. MaxResults,
         records <= records', results <= results', s \in WorkspaceSet(records', results'),
         HistoryOK(localHistory', records', results'), file' = file
  PROVE  ArchiveLocal'
<1>. DEFINE p == [pages[t] EXCEPT !.shown = s]
<1>1. /\ records \in Nat /\ results \in Nat /\ pages[t] \in PageSet(records, results) /\ PageOK(pages[t])
      /\ WorkspaceOK(pages[t].live, pages[t].own)
  BY PageIs
<1>2. records' \in Nat /\ results' \in Nat
  BY ArchiveAssumption
<1>3. pages[t] \in PageSet(records', results')
  BY <1>1, <1>2, WorkspacesGrow
<1>4. pages' = [pages EXCEPT ![t] = p]
  BY DEF Shown
<1>5. p \in PageSet(records', results') /\ p.shown = s /\ p.live = pages[t].live /\ p.own = pages[t].own
  BY <1>3 DEF PageSet
<1>. HIDE DEF p
<1>6. PageOK(p)
  BY <1>1, <1>5 DEF PageOK
<1>. QED
  BY <1>4, <1>5, <1>6, LocalStep

\* Of a tab that shows its own workspace, that one is saved.
LEMMA ShownReal ==
  ASSUME ArchiveLocal, NEW t \in Pages, NEW s, Shown(t, s), ~pages[t].shown.imported, ~s.imported
  PROVE  /\ Real(pages[t]) = pages[t].shown
         /\ \E p : pages' = [pages EXCEPT ![t] = p] /\ Real(p) = s
<1>. DEFINE p == [pages[t] EXCEPT !.shown = s]
<1>1. pages[t] \in PageSet(records, results)
  BY PageIs
<1>2. pages' = [pages EXCEPT ![t] = p]
  BY DEF Shown
<1>3. p.shown = s
  BY <1>1 DEF PageSet
<1>. HIDE DEF p
<1>4. Real(p) = s /\ Real(pages[t]) = pages[t].shown
  BY <1>3 DEF Real
<1>. QED
  BY <1>2, <1>4

LEMMA HistoryIs ==
  ASSUME ArchiveLocal
  PROVE  /\ records \in Nat /\ results \in Nat /\ HistoryOK(localHistory, records, results)
         /\ records \in 0 .. MaxRecords /\ results \in 0 .. MaxResults
BY ArchiveAssumption DEF ArchiveLocal, ArchiveTypes

LEMMA ConnectPanelKeeps ==
  ASSUME ArchiveLocal, NEW t \in Pages, NEW d \in Panels, ConnectPanel(t, d)
  PROVE  ArchiveLocal' /\ (KeptAsPromised => KeptAsPromised')
<1>. DEFINE w == pages[t].shown
            same == bindingAllowsSessionContinuity(w.current.bound, d)
            c == IF same THEN Forgotten(w.current) ELSE NoRecord
            s == [w EXCEPT !.display = d, !.fresh = TRUE, !.detached = NoRecord, !.current = c]
            second == IF w.current = NoRecord \/ same THEN w.detached ELSE Detached(w.current)
<1>1. /\ ~w.imported /\ Shown(t, s) /\ Persist(w.current, second)
      /\ file' = file /\ records' = records /\ results' = results
  BY DEF ConnectPanel, Forgotten
<1>2. /\ HistoryOK(localHistory, records, results) /\ records \in Nat /\ results \in Nat
      /\ records \in 0 .. MaxRecords /\ results \in 0 .. MaxResults
  BY HistoryIs
<1>3. w \in WorkspaceSet(records, results) /\ WorkspaceOK(w, pages[t].own)
  BY PageIs
<1>4. /\ w.current \in Recs(records, results) /\ w.detached \in Recs(records, results)
      /\ Proper(w.current) /\ Proper(w.detached)
  BY <1>3 DEF WorkspaceSet, WorkspaceOK
<1>5. /\ NoRecord \in Recs(records, results) /\ Proper(NoRecord) /\ NoRecord.id = 0
      /\ NoRecord.evidence = {} /\ NoRecord.panel = 0
  BY <1>2, NoRecordIs
<1>6. LET f == Forgotten(w.current)
      IN  /\ f \in Recs(records, results) /\ Proper(f) /\ f.id = w.current.id
          /\ f.bound = w.current.bound /\ f.panel = 0
          /\ f.evidence = w.current.evidence /\ ResultsOf(f) = ResultsOf(w.current)
  BY <1>2, <1>4, ForgottenIs
<1>7. same => w.current.bound = d
  BY DEF bindingAllowsSessionContinuity
<1>8. /\ second \in Recs(records, results) /\ Proper(second)
      /\ second = w.detached \/ (second.id = w.current.id /\ ResultsOf(second) = ResultsOf(w.current)
                                 /\ ~same)
  <2>1. CASE w.current = NoRecord \/ same
    BY <1>4, <2>1
  <2>2. CASE ~(w.current = NoRecord \/ same)
    <3>1. w.current.id # 0
      BY <1>4, <2>2 DEF Proper
    <3>2. LET q == Detached(w.current)
          IN  q \in Recs(records, results) /\ q.id = w.current.id /\ Proper(q)
              /\ ResultsOf(q) = ResultsOf(w.current)
      BY <1>2, <1>4, <3>1, DetachedIs
    <3>. QED
      BY <2>2, <3>2
  <2>. QED
    BY <2>1, <2>2
<1>9. /\ c \in Recs(records, results) /\ Proper(c) /\ c.panel = 0
      /\ \/ c = NoRecord
         \/ /\ same /\ c.id = w.current.id /\ c.bound = d /\ c.evidence = w.current.evidence
            /\ ResultsOf(c) = ResultsOf(w.current) /\ w.current.bound = d
  BY <1>5, <1>6, <1>7
<1>. HIDE DEF second, c, same
<1>10. /\ s \in WorkspaceSet(records, results) /\ s.imported = w.imported /\ s.display = d
       /\ s.detached = NoRecord /\ s.current = c
  <2>1. d \in Displays
    BY DEF Displays
  <2>. HIDE DEF w
  <2>. QED
    BY <1>3, <1>5, <1>9, <2>1 DEF WorkspaceSet
<1>. HIDE DEF s
<1>11. HistoryOK(localHistory', records, results)
  BY <1>1, <1>2, <1>4, <1>8, PersistIs
<1>12. WorkspaceOK(s, pages[t].own)
  <2>1. Proper(s.current) /\ Proper(s.detached) /\ BoundHere(s)
    BY <1>5, <1>9, <1>10 DEF BoundHere
  <2>2. EarnedHere(s, pages[t].own)
    <3>1. CASE c = NoRecord
      BY <1>5, <1>10, <3>1 DEF EarnedHere
    <3>2. CASE c # NoRecord
      <4>1. EarnedHere(w, pages[t].own)
        BY <1>3 DEF WorkspaceOK
      <4>. QED
        BY <1>9, <1>10, <3>2, <4>1 DEF EarnedHere
    <3>. QED
      BY <3>1, <3>2
  <2>. QED
    BY <2>1, <2>2 DEF WorkspaceOK
<1>13. ArchiveLocal'
  BY <1>1, <1>2, <1>10, <1>11, <1>12, ShownStep
<1>14. ASSUME KeptAsPromised PROVE KeptAsPromised'
  <2>1. Real(pages[t]) = w
    BY <1>1, <1>10, ShownReal
  <2>2. PICK p : pages' = [pages EXCEPT ![t] = p] /\ Real(p) = s
    BY <1>1, <1>10, ShownReal
  <2>3. HoldsApart(w)
    BY <1>14, <2>1 DEF KeptAsPromised, Safe
  <2>. HIDE DEF w
  <2>4. HoldsApart(s)
    BY <1>5, <1>10 DEF HoldsApart
  <2>5. Derived(s.current, w) /\ Derived(s.detached, w) /\ Derived(w.current, w) /\ Derived(second, w)
    BY <1>5, <1>8, <1>9, <1>10 DEF Derived
  <2>6. ResultsOf(NoRecord) = {}
    BY <1>5 DEF ResultsOf
  <2>7. second.id = w.current.id => ResultsOf(w.current) \subseteq ResultsOf(second)
    BY <1>4, <1>8, <2>3, <2>6 DEF HoldsApart, Proper
  <2>8. ASSUME NEW q \in {s.current, s.detached}, NEW f \in {w.current, second}, q.id = f.id
        PROVE  ResultsOf(f) \subseteq ResultsOf(q)
    <3>1. CASE q.id = 0
      BY <1>4, <1>8, <2>6, <2>8, <3>1 DEF Proper
    <3>2. CASE q.id # 0
      <4>1. q = c /\ same /\ c.id = w.current.id /\ ResultsOf(c) = ResultsOf(w.current)
        BY <1>5, <1>9, <1>10, <3>2
      <4>2. f = w.current
        BY <1>8, <2>3, <2>8, <3>2, <4>1 DEF HoldsApart
      <4>. QED
        BY <4>1, <4>2
    <3>. QED
      BY <3>1, <3>2
  <2>9. /\ HoldsApart(Real(p)) /\ records <= records /\ results <= results
        /\ \A r \in {Real(p).current, Real(p).detached, w.current, second} : Derived(r, Real(pages[t]))
        /\ \A q \in {Real(p).current, Real(p).detached}, f \in {w.current, second} :
             q.id = f.id => ResultsOf(f) \subseteq ResultsOf(q)
    BY <1>2, <2>1, <2>2, <2>4, <2>5, <2>8
  <2>. QED
    BY <1>1, <1>2, <1>4, <1>8, <1>14, <2>2, <2>7, <2>9, PageMovesOn
<1>. QED
  BY <1>13, <1>14

LEMMA ContinuesDerives ==
  ASSUME ArchiveLocal, KeptAsPromised, NEW t \in Pages, NEW s,
         Continues(s, Real(pages[t]), records + 1)
  PROVE  /\ HoldsApart(s) /\ Derived(s.current, Real(pages[t])) /\ Derived(s.detached, Real(pages[t]))
<1>. DEFINE w == Real(pages[t])
<1>1. /\ w.current.id \in 0 .. records /\ w.detached.id \in 0 .. records /\ records \in Nat
  BY RealIs, HistoryIs DEF Recs
<1>2. HoldsApart(w)
  BY DEF KeptAsPromised, Safe
<1>. HIDE DEF w
<1>3. Continues(s, w, records + 1)
  BY DEF w
<1>4. HoldsApart(s)
  BY <1>1, <1>2, <1>3 DEF HoldsApart, Continues
<1>5. Derived(s.current, w) /\ Derived(s.detached, w)
  BY <1>3 DEF Derived, Continues
<1>. QED
  BY <1>4, <1>5 DEF w

\* Work in a tab on its own workspace, saved or not
LEMMA WorkKeeps ==
  ASSUME ArchiveLocal, KeptAsPromised, NEW t \in Pages, NEW p, pages' = [pages EXCEPT ![t] = p],
         NEW m \in Nat, NEW n \in Nat, records <= m, results <= n,
         Real(p) \in WorkspaceSet(m, n), Proper(Real(p).current), Proper(Real(p).detached),
         Continues(Real(p), Real(pages[t]), records + 1),
         KeepStorage \/ Persist(Real(p).current, NoRecord)
  PROVE  KeptAsPromised'
<1>. DEFINE s == Real(p)
            w == Real(pages[t])
<1>1. HoldsApart(s) /\ Derived(s.current, w) /\ Derived(s.detached, w)
  BY ContinuesDerives
<1>2. CASE KeepStorage
  BY <1>1, <1>2, QuietMove
<1>3. CASE Persist(s.current, NoRecord)
  <2>1. NoRecord \in Recs(m, n) /\ Proper(NoRecord) /\ NoRecord.id = 0 /\ NoRecord.evidence = {}
    BY NoRecordIs
  <2>2. ResultsOf(NoRecord) = {}
    BY <2>1 DEF ResultsOf
  <2>3. s.current \in Recs(m, n) /\ Proper(s.current) /\ Proper(s.detached)
    BY DEF WorkspaceSet
  <2>4. NoRecord.id = s.current.id => ResultsOf(s.current) \subseteq ResultsOf(NoRecord)
    BY <2>1, <2>3 DEF Proper
  <2>5. ASSUME NEW q \in {s.current, s.detached}, NEW f \in {s.current, NoRecord}, q.id = f.id
        PROVE  ResultsOf(f) \subseteq ResultsOf(q)
    <3>1. CASE f = NoRecord
      BY <2>2, <3>1
    <3>2. CASE f = s.current /\ q = s.current
      BY <3>2
    <3>3. CASE f = s.current /\ q = s.detached
      BY <1>1, <2>2, <2>3, <2>5, <3>3 DEF HoldsApart, Proper
    <3>. QED
      BY <3>1, <3>2, <3>3
  <2>6. \A r \in {s.current, s.detached, s.current, NoRecord} : Derived(r, w)
    BY <1>1, <2>1 DEF Derived
  <2>7. /\ \A r \in {Real(p).current, Real(p).detached, Real(p).current, NoRecord} : Derived(r, Real(pages[t]))
        /\ \A q \in {Real(p).current, Real(p).detached}, f \in {Real(p).current, NoRecord} :
             q.id = f.id => ResultsOf(f) \subseteq ResultsOf(q)
    BY <2>5, <2>6
  <2>. QED
    BY <1>1, <1>3, <2>1, <2>3, <2>4, <2>7, PageMovesOn
<1>. QED
  BY <1>2, <1>3

LEMMA WorkMove ==
  ASSUME ArchiveLocal, KeptAsPromised, NEW t \in Pages, NEW p, pages' = [pages EXCEPT ![t] = p],
         NEW s, Real(p) = s, NEW w, Real(pages[t]) = w,
         s \in WorkspaceSet(records, results), Proper(s.current), Proper(s.detached),
         Continues(s, w, records + 1), KeepStorage \/ Persist(s.current, NoRecord)
  PROVE  KeptAsPromised'
<1>1. records \in Nat /\ results \in Nat /\ records <= records /\ results <= results
  BY HistoryIs
<1>2. /\ Real(p) \in WorkspaceSet(records, results) /\ Proper(Real(p).current) /\ Proper(Real(p).detached)
      /\ Continues(Real(p), Real(pages[t]), records + 1)
      /\ KeepStorage \/ Persist(Real(p).current, NoRecord)
  OBVIOUS
<1>. QED
  BY <1>1, <1>2, WorkKeeps

LEMMA LocalMove ==
  ASSUME ArchiveLocal, NEW t \in Pages, NEW p, PageOK(p), p \in PageSet(records, results),
         pages' = [pages EXCEPT ![t] = p], HistoryOK(localHistory', records, results),
         file' = file, records' = records, results' = results
  PROVE  ArchiveLocal'
<1>1. /\ records' \in 0 .. MaxRecords /\ results' \in 0 .. MaxResults
      /\ records <= records' /\ results <= results'
  BY HistoryIs
<1>2. p \in PageSet(records', results') /\ HistoryOK(localHistory', records', results')
  OBVIOUS
<1>. QED
  BY <1>1, <1>2, LocalStep

LEMMA CountedIs ==
  ASSUME ArchiveLocal, NEW n \in Nat, NEW s, NEW w, NEW own, Working(s, w, own, n), CountRecords(s)
  PROVE  /\ records' \in 0 .. MaxRecords /\ records <= records' /\ records' \in Nat
         /\ s \in WorkspaceSet(records', n)
<1>1. records \in Nat /\ records \in 0 .. MaxRecords /\ MaxRecords \in Nat
  BY HistoryIs, ArchiveAssumption
<1>2. /\ s.current.id <= MaxRecords
      /\ records' = IF s.current.id > records THEN s.current.id ELSE records
  BY DEF CountRecords
<1>3. CASE s \in WorkspaceSet(records, n) /\ s.current.id <= records
  <2>1. s.current.id \in 0 .. records
    BY <1>3 DEF WorkspaceSet, Recs
  <2>. QED
    BY <1>1, <1>2, <1>3, <2>1
<1>4. CASE s \in WorkspaceSet(records + 1, n) /\ s.current.id = records + 1
  BY <1>1, <1>2, <1>4
<1>. QED
  BY <1>3, <1>4 DEF Working

LEMMA ConnectPanelFailsKeeps ==
  ASSUME ArchiveLocal, NEW t \in Pages, ConnectPanelFails(t)
  PROVE  ArchiveLocal' /\ (KeptAsPromised => KeptAsPromised')
<1>. DEFINE p == pages[t]
<1>1. /\ ~p.shown.imported /\ Persist(p.shown.current, NoRecord)
      /\ pages' = pages /\ file' = file /\ records' = records /\ results' = results
  BY DEF ConnectPanelFails
<1>2. /\ HistoryOK(localHistory, records, results) /\ records \in Nat /\ results \in Nat
      /\ records \in 0 .. MaxRecords /\ results \in 0 .. MaxResults
  BY HistoryIs
<1>3. p \in PageSet(records, results) /\ PageOK(p) /\ p.shown \in WorkspaceSet(records, results)
      /\ WorkspaceOK(p.shown, p.own)
  BY PageIs
<1>4. p.shown.current \in Recs(records, results) /\ Proper(p.shown.current) /\ Proper(p.shown.detached)
  BY <1>3 DEF WorkspaceSet, WorkspaceOK
<1>5. NoRecord \in Recs(records, results) /\ Proper(NoRecord)
  BY <1>2, NoRecordIs
<1>6. pages' = [pages EXCEPT ![t] = p]
  BY <1>1 DEF ArchiveLocal, ArchiveTypes
<1>7. Real(p) = p.shown
  BY <1>1 DEF Real
<1>8. HistoryOK(localHistory', records, results)
  BY <1>1, <1>2, <1>4, <1>5, PersistIs
<1>9. Real(pages[t]) = p.shown
  BY <1>7
<1>10. Continues(p.shown, p.shown, records + 1)
  BY DEF Continues
<1>. HIDE DEF p
<1>11. ArchiveLocal'
  BY <1>1, <1>3, <1>6, <1>8, LocalMove
<1>12. ASSUME KeptAsPromised PROVE KeptAsPromised'
  BY <1>1, <1>3, <1>4, <1>6, <1>7, <1>9, <1>10, <1>12, WorkMove
<1>. QED
  BY <1>11, <1>12

LEMMA LoseThePanelKeeps ==
  ASSUME ArchiveLocal, NEW t \in Pages, LoseThePanel(t)
  PROVE  ArchiveLocal' /\ (KeptAsPromised => KeptAsPromised')
<1>1. KeepStorage /\ file' = file /\ records' = records /\ results' = results
  BY DEF LoseThePanel
<1>2. /\ HistoryOK(localHistory, records, results) /\ records \in Nat /\ results \in Nat
      /\ records \in 0 .. MaxRecords /\ results \in 0 .. MaxResults
  BY HistoryIs
<1>3. HistoryOK(localHistory', records', results')
  BY <1>1, <1>2, QuietIs
<1>4. /\ pages[t] \in PageSet(records, results) /\ PageOK(pages[t])
      /\ pages[t].shown \in WorkspaceSet(records, results) /\ WorkspaceOK(pages[t].shown, pages[t].own)
      /\ pages[t].live \in WorkspaceSet(records, results) /\ WorkspaceOK(pages[t].live, pages[t].own)
  BY PageIs
<1>5. PICK unexpected \in BOOLEAN :
        \/ /\ ~pages[t].shown.imported /\ pages[t].shown.display # "none"
           /\ Shown(t, Unlinked(pages[t].shown, unexpected))
        \/ /\ pages[t].live.display # "none"
           /\ pages' = [pages EXCEPT ![t].live = Unlinked(@, unexpected)]
  BY DEF LoseThePanel
<1>6. CASE ~pages[t].shown.imported /\ Shown(t, Unlinked(pages[t].shown, unexpected))
  <2>. DEFINE w == pages[t].shown
              s == Unlinked(w, unexpected)
  <2>1. /\ s \in WorkspaceSet(records, results) /\ WorkspaceOK(s, pages[t].own) /\ s.imported = w.imported
        /\ s.detached = w.detached /\ s.current.id = w.current.id
        /\ ResultsOf(s.current) = ResultsOf(w.current)
    BY <1>2, <1>4, UnlinkedIs
  <2>2. Shown(t, s) /\ ~w.imported
    BY <1>6
  <2>. HIDE DEF s
  <2>3. ArchiveLocal'
    BY <1>1, <1>2, <1>3, <2>1, <2>2, ShownStep
  <2>4. ASSUME KeptAsPromised PROVE KeptAsPromised'
    <3>1. PICK p : pages' = [pages EXCEPT ![t] = p] /\ Real(p) = s
      BY <2>1, <2>2, ShownReal
    <3>2. Real(pages[t]) = w
      BY <2>1, <2>2, ShownReal
    <3>3. Continues(s, w, records + 1)
      BY <2>1 DEF Continues
    <3>4. Proper(s.current) /\ Proper(s.detached)
      BY <2>1 DEF WorkspaceOK
    <3>. QED
      BY <1>1, <2>1, <2>4, <3>1, <3>2, <3>3, <3>4, WorkMove
  <2>. QED
    BY <2>3, <2>4
<1>7. CASE /\ pages[t].live.display # "none"
           /\ pages' = [pages EXCEPT ![t].live = Unlinked(@, unexpected)]
  <2>. DEFINE w == pages[t].live
              s == Unlinked(w, unexpected)
              p == [pages[t] EXCEPT !.live = s]
  <2>1. /\ s \in WorkspaceSet(records, results) /\ WorkspaceOK(s, pages[t].own) /\ s.imported = w.imported
        /\ s.detached = w.detached /\ s.current.id = w.current.id
        /\ ResultsOf(s.current) = ResultsOf(w.current)
    BY <1>2, <1>4, UnlinkedIs
  <2>2. pages' = [pages EXCEPT ![t] = p] /\ w.display # "none"
    BY <1>7
  <2>. HIDE DEF s
  <2>3. /\ p \in PageSet(records, results) /\ p.shown = pages[t].shown /\ p.live = s
        /\ p.own = pages[t].own
    BY <1>4, <2>1 DEF PageSet
  <2>. HIDE DEF p
  <2>4. pages[t].shown.imported
    <3>1. NoWorkspace.display = "none"
      BY DEF NoWorkspace
    <3>. QED
      BY <1>4, <2>2, <3>1 DEF PageOK
  <2>5. PageOK(p)
    BY <1>4, <2>1, <2>3, <2>4 DEF PageOK
  <2>6. ArchiveLocal'
    BY <1>1, <1>3, <2>2, <2>3, <2>5, LocalMove
  <2>7. ASSUME KeptAsPromised PROVE KeptAsPromised'
    <3>1. Real(p) = s /\ Real(pages[t]) = w
      BY <2>3, <2>4 DEF Real
    <3>2. Continues(s, w, records + 1)
      BY <2>1 DEF Continues
    <3>3. Proper(s.current) /\ Proper(s.detached)
      BY <2>1 DEF WorkspaceOK
    <3>. QED
      BY <1>1, <2>1, <2>2, <2>7, <3>1, <3>2, <3>3, WorkMove
  <2>. QED
    BY <2>6, <2>7
<1>. QED
  BY <1>5, <1>6, <1>7

\* Reports are only read where records are worked on in one place.
LEMMA WorkIsReal ==
  ASSUME OneHolder, NEW t \in Pages, MayWork(t) PROVE ~pages[t].shown.imported
BY DEF MayWork

LEMMA BeginInvestigationKeeps ==
  ASSUME ArchiveLocal, NEW t \in Pages, BeginInvestigation(t)
  PROVE  ArchiveLocal' /\ (OneHolder /\ KeptAsPromised => KeptAsPromised')
<1>. DEFINE w == pages[t].shown
            s == ensureInvestigation(w)
            own == pages[t].own
<1>1. /\ MayWork(t) /\ Shown(t, s) /\ CountRecords(s) /\ KeepStorage /\ file' = file /\ results' = results
  BY DEF BeginInvestigation
<1>2. /\ HistoryOK(localHistory, records, results) /\ records \in Nat /\ results \in Nat
      /\ results \in 0 .. MaxResults
  BY HistoryIs
<1>3. w \in WorkspaceSet(records, results) /\ WorkspaceOK(w, own)
  BY PageIs
<1>4. Working(s, w, own, results)
  BY <1>2, <1>3, EnsuredIs
<1>. HIDE DEF s, w, own
<1>5. /\ records' \in 0 .. MaxRecords /\ records <= records' /\ records' \in Nat
      /\ s \in WorkspaceSet(records', results)
  BY <1>1, <1>2, <1>4, CountedIs
<1>6. /\ s.imported = w.imported /\ WorkspaceOK(s, own) /\ Continues(s, w, records + 1)
  BY <1>4 DEF Working
<1>7. HistoryOK(localHistory', records', results')
  <2>1. localHistory' = localHistory
    BY <1>1, QuietIs
  <2>2. HistoryOK(localHistory, records', results)
    BY <1>2, <1>5, WorkspacesGrow
  <2>. QED
    BY <1>1, <2>1, <2>2
<1>8. ArchiveLocal'
  BY <1>1, <1>2, <1>5, <1>6, <1>7, ShownStep DEF w, own
<1>9. ASSUME OneHolder, KeptAsPromised PROVE KeptAsPromised'
  <2>1. ~w.imported /\ ~s.imported
    BY <1>1, <1>6, <1>9, WorkIsReal DEF w
  <2>2. PICK p : pages' = [pages EXCEPT ![t] = p] /\ Real(p) = s
    BY <1>1, <2>1, ShownReal DEF w
  <2>3. Real(pages[t]) = w
    BY <1>1, <2>1, ShownReal DEF w
  <2>4. /\ Real(p) \in WorkspaceSet(records', results) /\ Proper(Real(p).current)
        /\ Proper(Real(p).detached) /\ Continues(Real(p), Real(pages[t]), records + 1)
        /\ results <= results
    BY <1>2, <1>5, <1>6, <2>2, <2>3 DEF WorkspaceOK
  <2>. QED
    BY <1>1, <1>2, <1>5, <1>9, <2>2, <2>4, WorkKeeps
<1>. QED
  BY <1>8, <1>9

LEMMA TroubleshootKeeps ==
  ASSUME ArchiveLocal, NEW t \in Pages, Troubleshoot(t)
  PROVE  ArchiveLocal' /\ (OneHolder /\ KeptAsPromised => KeptAsPromised')
<1>. DEFINE w == pages[t].shown
            s == startInvestigation(w)
            own == pages[t].own
<1>1. /\ MayWork(t) /\ Shown(t, s) /\ CountRecords(s) /\ Persist(s.current, NoRecord)
      /\ file' = file /\ results' = results
  BY DEF Troubleshoot
<1>2. /\ HistoryOK(localHistory, records, results) /\ records \in Nat /\ results \in Nat
      /\ results \in 0 .. MaxResults
  BY HistoryIs
<1>3. w \in WorkspaceSet(records, results) /\ WorkspaceOK(w, own)
  BY PageIs
<1>4. Working(s, w, own, results)
  BY <1>2, <1>3, StartedIs
<1>. HIDE DEF s, w, own
<1>5. /\ records' \in 0 .. MaxRecords /\ records <= records' /\ records' \in Nat
      /\ s \in WorkspaceSet(records', results)
  BY <1>1, <1>2, <1>4, CountedIs
<1>6. /\ s.imported = w.imported /\ WorkspaceOK(s, own) /\ Continues(s, w, records + 1)
  BY <1>4 DEF Working
<1>7. HistoryOK(localHistory', records', results')
  <2>1. HistoryOK(localHistory, records', results)
    BY <1>2, <1>5, WorkspacesGrow
  <2>2. s.current \in Recs(records', results) /\ Proper(s.current)
    BY <1>5, <1>6 DEF WorkspaceSet, WorkspaceOK
  <2>3. NoRecord \in Recs(records', results) /\ Proper(NoRecord)
    BY <1>2, <1>5, NoRecordIs
  <2>4. HistoryOK(localHistory', records', results)
    BY <1>1, <1>2, <1>5, <2>1, <2>2, <2>3, PersistIs
  <2>. QED
    BY <1>1, <2>4
<1>8. ArchiveLocal'
  BY <1>1, <1>2, <1>5, <1>6, <1>7, ShownStep DEF w, own
<1>9. ASSUME OneHolder, KeptAsPromised PROVE KeptAsPromised'
  <2>1. ~w.imported /\ ~s.imported
    BY <1>1, <1>6, <1>9, WorkIsReal DEF w
  <2>2. PICK p : pages' = [pages EXCEPT ![t] = p] /\ Real(p) = s
    BY <1>1, <2>1, ShownReal DEF w
  <2>3. Real(pages[t]) = w
    BY <1>1, <2>1, ShownReal DEF w
  <2>4. /\ Real(p) \in WorkspaceSet(records', results) /\ Proper(Real(p).current)
        /\ Proper(Real(p).detached) /\ Continues(Real(p), Real(pages[t]), records + 1)
        /\ results <= results /\ Persist(Real(p).current, NoRecord)
    BY <1>1, <1>2, <1>5, <1>6, <2>2, <2>3 DEF WorkspaceOK
  <2>. QED
    BY <1>2, <1>5, <1>9, <2>2, <2>4, WorkKeeps
<1>. QED
  BY <1>8, <1>9

LEMMA StopAndSaveKeeps ==
  ASSUME ArchiveLocal, NEW t \in Pages, StopAndSave(t)
  PROVE  ArchiveLocal' /\ (OneHolder /\ KeptAsPromised => KeptAsPromised')
<1>. DEFINE w == pages[t].shown
            c == [w.current EXCEPT !.active = FALSE]
            s == [w EXCEPT !.current = c]
            own == pages[t].own
<1>1. /\ MayWork(t) /\ Shown(t, s) /\ Persist(s.current, NoRecord) /\ w.current.active
      /\ file' = file /\ records' = records /\ results' = results
  BY DEF StopAndSave
<1>2. /\ HistoryOK(localHistory, records, results) /\ records \in Nat /\ results \in Nat
      /\ records \in 0 .. MaxRecords /\ results \in 0 .. MaxResults
  BY HistoryIs
<1>3. w \in WorkspaceSet(records, results) /\ WorkspaceOK(w, own)
  BY PageIs
<1>4. w.current \in Recs(records, results) /\ Proper(w.current) /\ Proper(w.detached)
  BY <1>3 DEF WorkspaceSet, WorkspaceOK
<1>5. w.current.id # 0
  BY <1>1, <1>4, ActiveIsARecord DEF Proper
<1>6. /\ c \in Recs(records, results) /\ c.id = w.current.id /\ c.bound = w.current.bound
      /\ c.panel = w.current.panel /\ c.evidence = w.current.evidence
  BY <1>4 DEF Recs
<1>. HIDE DEF c
<1>7. /\ s \in WorkspaceSet(records, results) /\ s.imported = w.imported /\ s.display = w.display
      /\ s.current = c /\ s.detached = w.detached
  <2>. HIDE DEF w
  <2>. QED
    BY <1>3, <1>6 DEF WorkspaceSet
<1>. HIDE DEF s
<1>8. ResultsOf(c) = ResultsOf(w.current) /\ Proper(c) /\ w.current # NoRecord
  BY <1>1, <1>5, <1>6, ActiveIsARecord DEF ResultsOf, Proper
<1>9. WorkspaceOK(s, own)
  BY <1>3, <1>6, <1>7, <1>8 DEF WorkspaceOK, BoundHere, EarnedHere
<1>10. Continues(s, w, records + 1)
  BY <1>6, <1>7, <1>8 DEF Continues
<1>11. HistoryOK(localHistory', records, results)
  <2>1. NoRecord \in Recs(records, results) /\ Proper(NoRecord)
    BY <1>2, NoRecordIs
  <2>. QED
    BY <1>1, <1>2, <1>6, <1>7, <1>8, <2>1, PersistIs
<1>12. ArchiveLocal'
  BY <1>1, <1>2, <1>7, <1>9, <1>11, ShownStep
<1>13. ASSUME OneHolder, KeptAsPromised PROVE KeptAsPromised'
  <2>1. ~w.imported /\ ~s.imported
    BY <1>1, <1>7, <1>13, WorkIsReal
  <2>2. PICK p : pages' = [pages EXCEPT ![t] = p] /\ Real(p) = s
    BY <1>1, <2>1, ShownReal
  <2>3. Real(pages[t]) = w
    BY <1>1, <2>1, ShownReal
  <2>4. Proper(s.current) /\ Proper(s.detached)
    BY <1>4, <1>7, <1>8
  <2>. QED
    BY <1>1, <1>7, <1>10, <1>13, <2>2, <2>3, <2>4, WorkMove
<1>. QED
  BY <1>12, <1>13

LEMMA RecordResultKeeps ==
  ASSUME ArchiveLocal, NEW t \in Pages, RecordResult(t)
  PROVE  ArchiveLocal' /\ (OneHolder /\ KeptAsPromised => KeptAsPromised')
<1>. DEFINE v == pages[t].shown
            w == ensureInvestigation(v)
            own == pages[t].own
            n == results + 1
            E == w.current.evidence \cup {[n |-> n, on |-> w.display, scope |-> "current-session"]}
            R == w.current.runs \cup {n}
            c == [w.current EXCEPT !.evidence = E, !.runs = R, !.panel = n]
            s == [w EXCEPT !.current = c]
            p == [pages[t] EXCEPT !.shown = s, !.own = own \cup {n}]
<1>1. /\ ~w.imported /\ w.display # "none" /\ results < MaxResults /\ results' = n
      /\ pages' = [pages EXCEPT ![t] = p]
      /\ CountRecords(s) /\ Persist(s.current, NoRecord) /\ file' = file
  BY ZenonT(60) DEF RecordResult
<1>2. /\ HistoryOK(localHistory, records, results) /\ records \in Nat /\ results \in Nat
      /\ results \in 0 .. MaxResults /\ MaxResults \in Nat
  BY HistoryIs, ArchiveAssumption
<1>3. /\ v \in WorkspaceSet(records, results) /\ WorkspaceOK(v, own)
      /\ pages[t] \in PageSet(records, results) /\ PageOK(pages[t]) /\ own \subseteq 1 .. results
  BY PageIs
<1>4. Working(w, v, own, results)
  BY <1>2, <1>3, EnsuredIs
<1>5. /\ n \in Nat /\ n \in 0 .. MaxResults /\ results <= n /\ n # 0 /\ n \in 1 .. n /\ n \in 0 .. n
      /\ 1 .. results \subseteq 1 .. n
  BY <1>1, <1>2
<1>. HIDE DEF v, w, own, n, s, p
<1>6. /\ w.imported = v.imported /\ WorkspaceOK(w, own) /\ Continues(w, v, records + 1)
      /\ w.current # NoRecord
  BY <1>4 DEF Working
<1>7. CountRecords(w)
  <2>1. w \in WorkspaceSet(records, results) \/ w \in WorkspaceSet(records + 1, results)
    BY <1>4 DEF Working
  <2>2. \E m : w \in WorkspaceSet(m, results)
    BY <2>1
  <2>3. PICK m : w.current \in Recs(m, results) /\ w \in WorkspaceSet(m, results)
    BY <2>2 DEF WorkspaceSet
  <2>4. c.id = w.current.id
    BY <2>3 DEF Recs
  <2>5. s.current = c
    <3>. HIDE DEF c
    <3>. QED
      BY <2>3 DEF WorkspaceSet, s
  <2>. HIDE DEF c
  <2>. QED
    BY <1>1, <2>4, <2>5 DEF CountRecords
<1>8. /\ records' \in 0 .. MaxRecords /\ records <= records' /\ records' \in Nat
      /\ w \in WorkspaceSet(records', results)
  BY <1>2, <1>4, <1>7, CountedIs
<1>9. w \in WorkspaceSet(records', n) /\ HistoryOK(localHistory, records', n)
      /\ pages[t] \in PageSet(records', n)
  BY <1>2, <1>3, <1>5, <1>8, WorkspacesGrow
<1>10. w.current \in Recs(records', n) /\ w.display \in Panels
  BY <1>1, <1>9 DEF WorkspaceSet, Displays
<1>11. E \in SUBSET Evidences(n) /\ R \in SUBSET (1 .. n)
  <2>1. [n |-> n, on |-> w.display, scope |-> "current-session"] \in Evidences(n)
    BY <1>5, <1>10 DEF Evidences, EvidenceScopes
  <2>2. w.current.evidence \in SUBSET Evidences(n) /\ w.current.runs \in SUBSET (1 .. n)
    BY <1>10 DEF Recs
  <2>. QED
    BY <1>5, <2>1, <2>2
<1>12. ResultsOf(w.current) \subseteq {e.n : e \in E}
  BY DEF ResultsOf
<1>13. \A e \in E : e \in w.current.evidence \/ (e.n = n /\ e.on = w.display /\ e.scope = "current-session")
  OBVIOUS
<1>. HIDE DEF E, R
<1>14. /\ c \in Recs(records', n) /\ c.id = w.current.id /\ c.bound = w.current.bound
       /\ c.panel = n /\ c.evidence = E
  BY <1>5, <1>10, <1>11 DEF Recs
<1>. HIDE DEF c
<1>15. /\ s \in WorkspaceSet(records', n) /\ s.imported = w.imported /\ s.display = w.display
       /\ s.current = c /\ s.detached = w.detached
  BY <1>9, <1>14 DEF WorkspaceSet, s
<1>16. /\ p \in PageSet(records', n) /\ p.shown = s /\ p.live = pages[t].live /\ p.own = own \cup {n}
  <2>1. own \cup {n} \in SUBSET (1 .. n)
    BY <1>3, <1>5
  <2>. QED
    BY <1>9, <1>15, <2>1 DEF PageSet, p
<1>17. Proper(c) /\ ResultsOf(w.current) \subseteq ResultsOf(c)
  <2>1. w.current.id # 0
    BY <1>6 DEF WorkspaceOK, Proper
  <2>. QED
    BY <1>12, <1>14, <2>1 DEF Proper, ResultsOf
<1>18. WorkspaceOK(s, own \cup {n})
  <2>1. Proper(s.current) /\ Proper(s.detached)
    BY <1>6, <1>15, <1>17 DEF WorkspaceOK
  <2>2. w.current.bound = w.display
    BY <1>1, <1>6 DEF WorkspaceOK, BoundHere
  <2>3. BoundHere(s)
    BY <1>14, <1>15, <2>2 DEF BoundHere
  <2>4. EarnedHere(w, own)
    BY <1>6 DEF WorkspaceOK
  <2>5. EarnedHere(s, own \cup {n})
    <3>1. ASSUME NEW e \in E
          PROVE  /\ e.scope # "built-in-profile"
                 /\ e.scope = "current-session" => e.n \in own \cup {n} /\ e.on = c.bound
      BY <1>13, <1>14, <2>2, <2>4 DEF EarnedHere
    <3>2. s.current.evidence = E /\ s.current.panel = n /\ s.current.bound = c.bound
      BY <1>14, <1>15
    <3>. QED
      BY <1>1, <1>15, <3>1, <3>2 DEF EarnedHere
  <2>. QED
    BY <2>1, <2>3, <2>5 DEF WorkspaceOK
<1>19. pages[t].live = NoWorkspace
  BY <1>1, <1>3, <1>6 DEF PageOK, v
<1>20. PageOK(p)
  <2>1. WorkspaceOK(NoWorkspace, own \cup {n}) /\ ~NoWorkspace.imported
    BY <1>2, NoWorkspaceIs
  <2>. QED
    BY <1>16, <1>18, <1>19, <2>1 DEF PageOK
<1>21. NoRecord \in Recs(records', n) /\ Proper(NoRecord)
  BY <1>5, <1>8, NoRecordIs
<1>22. HistoryOK(localHistory', records', n)
  BY <1>1, <1>5, <1>8, <1>9, <1>14, <1>15, <1>17, <1>21, PersistIs
<1>23. ArchiveLocal'
  <2>1. /\ results' \in 0 .. MaxResults /\ results <= results' /\ p \in PageSet(records', results')
        /\ HistoryOK(localHistory', records', results')
    BY <1>1, <1>5, <1>16, <1>22
  <2>. QED
    BY <1>1, <1>8, <1>20, <2>1, LocalStep
<1>24. ASSUME KeptAsPromised PROVE KeptAsPromised'
  <2>1. Real(p) = s /\ Real(pages[t]) = v
    BY <1>1, <1>6, <1>15, <1>16 DEF Real, v
  <2>2. Continues(s, v, records + 1)
    <3>1. CASE /\ w.current.id = v.current.id /\ ResultsOf(v.current) \subseteq ResultsOf(w.current)
               /\ w.detached = v.detached
      BY <1>14, <1>15, <1>17, <3>1 DEF Continues
    <3>2. CASE w.current.id = records + 1 /\ v.current = NoRecord /\ w.detached = v.detached
      BY <1>14, <1>15, <3>2 DEF Continues
    <3>3. CASE /\ w.current.id = records + 1 /\ v.current # NoRecord
               /\ w.detached.id = v.current.id /\ ResultsOf(w.detached) = ResultsOf(v.current)
      BY <1>14, <1>15, <3>3 DEF Continues
    <3>. QED
      BY <1>6, <3>1, <3>2, <3>3 DEF Continues
  <2>3. /\ Real(p) \in WorkspaceSet(records', n) /\ Proper(Real(p).current) /\ Proper(Real(p).detached)
        /\ Continues(Real(p), Real(pages[t]), records + 1) /\ Persist(Real(p).current, NoRecord)
    BY <1>1, <1>15, <1>18, <2>1, <2>2 DEF WorkspaceOK
  <2>. QED
    BY <1>1, <1>5, <1>8, <1>24, <2>3, WorkKeeps
<1>. QED
  BY <1>23, <1>24

LEMMA AdoptedIs ==
  ASSUME NEW m \in Nat, NEW n \in Nat, NEW r \in Recs(m, n), NEW w \in WorkspaceSet(m, n)
  PROVE  LET a == Adopted(r, w)
         IN  /\ a \in Recs(m, n) /\ a.id = r.id /\ a.panel = 0
             /\ \A e \in a.evidence : e.scope = "previous-local-session"
             /\ ResultsOf(a) = ResultsOf(r)
             /\ ~w.imported /\ w.display # "none" => a.bound = w.display
<1>. DEFINE d == demoteInvestigationEvidence(r, "previous-local-session")
            a == Adopted(r, w)
            B == IF w.display = "none" /\ ~w.imported THEN d.bound ELSE w.display
            R == IF bindingAllowsSessionContinuity(r.bound, w.display) THEN d.runs ELSE {}
<1>1. /\ d \in Recs(m, n) /\ d.id = r.id /\ d.panel = 0 /\ ResultsOf(d) = ResultsOf(r)
      /\ \A e \in d.evidence : e.scope = "previous-local-session"
  BY DemotedIs DEF EvidenceScopes
<1>2. a = [d EXCEPT !.active = TRUE, !.bound = B, !.runs = R]
  BY DEF Adopted
<1>3. B \in Displays /\ R \in SUBSET (1 .. n)
  BY <1>1 DEF WorkspaceSet, Recs
<1>4. ~w.imported /\ w.display # "none" => B = w.display
  OBVIOUS
<1>. HIDE DEF d, a, B, R
<1>5. /\ a \in Recs(m, n) /\ a.id = d.id /\ a.panel = d.panel /\ a.evidence = d.evidence /\ a.bound = B
  BY <1>1, <1>2, <1>3 DEF Recs
<1>6. ResultsOf(a) = ResultsOf(d)
  BY <1>5 DEF ResultsOf
<1>. QED
  BY <1>1, <1>4, <1>5, <1>6 DEF a

LEMMA ResumeStoredKeeps ==
  ASSUME ArchiveLocal, NEW t \in Pages, ResumeStored(t)
  PROVE  ArchiveLocal' /\ (OneHolder /\ KeptAsPromised => KeptAsPromised')
<1>. DEFINE w == pages[t].shown
            l == loadStore(localHistory)
            a == Adopted(l[1], w)
            s == [w EXCEPT !.current = a, !.fresh = TRUE]
            own == pages[t].own
<1>1. /\ l # <<>> /\ (OneHolder => l[1].id \notin HeldElsewhere(t)) /\ Shown(t, s)
      /\ KeepStorage /\ file' = file /\ records' = records /\ results' = results
  BY DEF ResumeStored
<1>2. /\ HistoryOK(localHistory, records, results) /\ records \in Nat /\ results \in Nat
      /\ records \in 0 .. MaxRecords /\ results \in 0 .. MaxResults
  BY HistoryIs
<1>3. /\ w \in WorkspaceSet(records, results) /\ WorkspaceOK(w, own)
  BY PageIs
<1>4. l \in Seq(RealRecs(records, results)) /\ DistinctIds(l)
  BY <1>2, LoadIs DEF HistoryOK
<1>. HIDE DEF l
<1>5. Len(l) \in Nat /\ 1 \in 1 .. Len(l) /\ l[1] \in Recs(records, results) /\ l[1].id # 0
  <2>1. Len(l) \in Nat /\ Len(l) # 0
    BY <1>1, <1>4, EmptySeq
  <2>2. 1 \in 1 .. Len(l)
    BY <2>1
  <2>. QED
    BY <1>4, <2>1, <2>2 DEF RealRecs
<1>6. /\ a \in Recs(records, results) /\ a.id = l[1].id /\ a.panel = 0
      /\ \A e \in a.evidence : e.scope = "previous-local-session"
      /\ ResultsOf(a) = ResultsOf(l[1])
      /\ ~w.imported /\ w.display # "none" => a.bound = w.display
  BY <1>2, <1>3, <1>5, AdoptedIs
<1>7. Proper(a)
  BY <1>5, <1>6 DEF Proper
<1>. HIDE DEF a
<1>8. /\ s \in WorkspaceSet(records, results) /\ s.imported = w.imported /\ s.display = w.display
      /\ s.current = a /\ s.detached = w.detached
  <2>. HIDE DEF w
  <2>. QED
    BY <1>3, <1>6 DEF WorkspaceSet
<1>. HIDE DEF s
<1>9. WorkspaceOK(s, own)
  <2>1. EarnedHere(s, own)
    BY <1>6, <1>8 DEF EarnedHere
  <2>2. BoundHere(s)
    BY <1>6, <1>8 DEF BoundHere
  <2>. QED
    BY <1>3, <1>7, <1>8, <2>1, <2>2 DEF WorkspaceOK
<1>10. HistoryOK(localHistory', records, results)
  BY <1>1, <1>2, QuietIs
<1>11. ArchiveLocal'
  BY <1>1, <1>2, <1>8, <1>9, <1>10, ShownStep
<1>12. ASSUME OneHolder, KeptAsPromised PROVE KeptAsPromised'
  <2>1. CASE w.imported
    <3>. DEFINE p == [pages[t] EXCEPT !.shown = s]
    <3>1. pages' = [pages EXCEPT ![t] = p]
      BY <1>1 DEF Shown
    <3>2. p.shown = s /\ p.live = pages[t].live
      BY PageIs DEF PageSet
    <3>. HIDE DEF p
    <3>3. Real(p) = Real(pages[t])
      BY <1>8, <2>1, <3>2 DEF Real
    <3>. QED
      BY <1>1, <1>12, <3>1, <3>3, RealStays
  <2>2. CASE ~w.imported
    <3>1. Real(pages[t]) = w
      BY <1>1, <1>8, <2>2, ShownReal
    <3>2. PICK p : pages' = [pages EXCEPT ![t] = p] /\ Real(p) = s
      BY <1>1, <1>8, <2>2, ShownReal
    <3>3. /\ Matches(l, kept) /\ Safe(w, kept)
          /\ \A u \in Pages \ {t} : Held(w) \cap Held(Real(pages[u])) = {}
      BY <1>12, <3>1 DEF KeptAsPromised, l
    <3>4. a.id \notin HeldElsewhere(t)
      BY <1>1, <1>6, <1>12
    <3>5. a.id # 0 /\ a.id # w.detached.id
      BY <1>5, <1>6, <3>4 DEF HeldElsewhere
    <3>6. \A u \in Pages \ {t} : a.id \notin Held(Real(pages[u]))
      BY <3>4 DEF HeldElsewhere, Real
    <3>7. \A u \in Pages \ {t} : Held(s) \cap Held(Real(pages[u])) = {}
      BY <1>8, <3>3, <3>6 DEF Held
    <3>8. Covers(a, kept)
      <4>. SUFFICES ASSUME NEW i \in 1 .. Len(kept), kept[i].id = a.id
                    PROVE  kept[i].results \subseteq ResultsOf(a)
        BY DEF Covers
      <4>1. i \in 1 .. Len(l) /\ l[i].id = l[1].id /\ kept[i].results \subseteq ResultsOf(l[i])
        BY <1>6, <3>3 DEF Matches
      <4>2. i = 1
        BY <1>4, <1>5, <4>1 DEF DistinctIds
      <4>. QED
        BY <1>6, <4>1, <4>2
    <3>9. Safe(s, kept)
      BY <1>8, <3>3, <3>5, <3>8 DEF Safe, HoldsApart
    <3>10. NoRecord \in Recs(records, results) /\ Proper(NoRecord) /\ NoRecord.id = 0 /\ NoRecord.evidence = {}
      BY <1>2, NoRecordIs
    <3>11. ResultsOf(NoRecord) = {}
      BY <3>10 DEF ResultsOf
    <3>12. \A i \in 1 .. Len(kept) : kept[i].id # 0
      BY <1>2, <1>12, KeptIds
    <3>13. Covers(NoRecord, kept)
      BY <3>10, <3>12 DEF Covers
    <3>14. \A u \in Pages : NoRecord.id \notin Held(Real(pages[u]))
      BY <3>10 DEF Held
    <3>15. /\ Safe(Real(p), kept) /\ records <= records /\ results <= results
           /\ NoRecord.id = NoRecord.id => ResultsOf(NoRecord) \subseteq ResultsOf(NoRecord)
           /\ \A q \in {Real(p).current, Real(p).detached}, f \in {NoRecord, NoRecord} :
                q.id = f.id => ResultsOf(f) \subseteq ResultsOf(q)
           /\ \A u \in Pages \ {t} : /\ Held(Real(p)) \cap Held(Real(pages[u])) = {}
                                     /\ NoRecord.id \notin Held(Real(pages[u]))
      BY <1>2, <3>2, <3>7, <3>9, <3>11, <3>14
    <3>16. Persist(NoRecord, NoRecord)
      BY <1>1, QuietIs
    <3>. QED
      BY <1>2, <1>12, <3>2, <3>10, <3>13, <3>15, <3>16, PageMoves
  <2>. QED
    BY <2>1, <2>2
<1>. QED
  BY <1>11, <1>12

LEMMA ImportFileKeeps ==
  ASSUME ArchiveLocal, NEW t \in Pages, ImportFile(t)
  PROVE  ArchiveLocal' /\ (KeptAsPromised => KeptAsPromised')
<1>1. /\ file.record # NoRecord /\ KeepStorage /\ file' = file /\ records' = records /\ results' = results
  BY DEF ImportFile
<1>. DEFINE w == pages[t].shown
            Imported(r) == [NoWorkspace EXCEPT !.imported = TRUE, !.fresh = TRUE,
                                               !.display = r.bound, !.current = r]
            behind == IF ~w.imported /\ w.display # "none" THEN w ELSE pages[t].live
            Record(c, M) ==
              demoteInvestigationEvidence(sanitizeInvestigation(c, M), "imported-external")
            P(r) == [pages[t] EXCEPT !.live = behind, !.shown = Imported(r)]
<1>2. \E c \in Claiming(file.record), M \in {{}, {results}} :
        pages' = [pages EXCEPT ![t] = P(Record(c, M))]
  <2>1. PICK c \in Claiming(file.record), M \in {{}, {results}} :
          pages' = [pages EXCEPT ![t].live = behind, ![t].shown = Imported(Record(c, M))]
    BY DEF ImportFile
  <2>2. pages \in [Pages -> PageSet(records, results)]
    BY DEF ArchiveLocal, ArchiveTypes
  <2>3. \A A, B : [pages EXCEPT ![t].live = A, ![t].shown = B]
                    = [pages EXCEPT ![t] = [pages[t] EXCEPT !.live = A, !.shown = B]]
    BY <2>2
  <2>. HIDE DEF behind, Imported, Record
  <2>. QED
    BY <2>1, <2>3
<1>3. PICK c \in Claiming(file.record), M \in {{}, {results}} :
        pages' = [pages EXCEPT ![t] = P(Record(c, M))]
  <2>. HIDE DEF P, Record
  <2>. QED
    BY <1>2
<1>. DEFINE r == Record(c, M)
            s == Imported(r)
            p == P(r)
<1>4. /\ HistoryOK(localHistory, records, results) /\ records \in Nat /\ results \in Nat
  BY HistoryIs
<1>5. file.record \in Recs(records, results) /\ Proper(file.record)
  BY DEF ArchiveLocal, ArchiveTypes
<1>6. c \in Recs(records, results) /\ c.id = file.record.id
  BY <1>4, <1>5, ClaimedIs
<1>7. /\ r \in Recs(records, results) /\ r.id = c.id /\ r.panel = 0
      /\ \A e \in r.evidence : e.scope = "imported-external"
  <2>. DEFINE q == sanitizeInvestigation(c, M)
  <2>1. \A N : /\ sanitizeInvestigation(c, N) \in Recs(records, results)
               /\ sanitizeInvestigation(c, N).id = c.id
    BY <1>4, <1>6, SanitizedIs
  <2>2. q \in Recs(records, results) /\ q.id = c.id
    BY <2>1
  <2>. HIDE DEF q
  <2>3. LET d == demoteInvestigationEvidence(q, "imported-external")
        IN  d \in Recs(records, results) /\ d.id = q.id /\ d.panel = 0
            /\ \A e \in d.evidence : e.scope = "imported-external"
    BY <1>4, <2>2, DemotedIs DEF EvidenceScopes
  <2>. QED
    BY <2>2, <2>3 DEF q
<1>8. Proper(r)
  BY <1>1, <1>5, <1>6, <1>7 DEF Proper
<1>9. /\ pages[t] \in PageSet(records, results) /\ PageOK(pages[t])
      /\ w \in WorkspaceSet(records, results) /\ WorkspaceOK(w, pages[t].own)
      /\ pages[t].live \in WorkspaceSet(records, results) /\ WorkspaceOK(pages[t].live, pages[t].own)
  BY PageIs
<1>10. /\ NoWorkspace \in WorkspaceSet(records, results) /\ NoWorkspace.detached = NoRecord
       /\ NoWorkspace.current = NoRecord /\ ~NoWorkspace.imported
  BY <1>4, NoWorkspaceIs
<1>11. NoRecord.id = 0 /\ Proper(NoRecord)
  BY <1>4, NoRecordIs
<1>. HIDE DEF Record, r
<1>12. r.bound \in Displays
  BY <1>7 DEF Recs
<1>13. /\ s \in WorkspaceSet(records, results) /\ s.imported = TRUE /\ s.current = r
       /\ s.detached = NoRecord
  BY <1>7, <1>10, <1>12 DEF WorkspaceSet
<1>14. /\ behind \in WorkspaceSet(records, results) /\ WorkspaceOK(behind, pages[t].own) /\ ~behind.imported
  BY <1>9 DEF PageOK
<1>15. p = [pages[t] EXCEPT !.live = behind, !.shown = s]
  OBVIOUS
<1>16. pages' = [pages EXCEPT ![t] = p]
  BY <1>3 DEF r
<1>17. behind = Real(pages[t]) \/ (behind = NoWorkspace /\ ~w.imported)
  BY <1>9 DEF Real, PageOK
<1>. HIDE DEF p, P, s, Imported, behind
<1>18. /\ p \in PageSet(records, results) /\ p.shown = s /\ p.live = behind /\ p.own = pages[t].own
  BY <1>9, <1>13, <1>14, <1>15 DEF PageSet
<1>19. WorkspaceOK(s, pages[t].own)
  BY <1>7, <1>8, <1>11, <1>13 DEF WorkspaceOK, BoundHere, EarnedHere
<1>20. PageOK(p)
  BY <1>13, <1>14, <1>18, <1>19 DEF PageOK
<1>21. HistoryOK(localHistory', records, results)
  BY <1>1, <1>4, QuietIs
<1>22. ArchiveLocal'
  BY <1>1, <1>16, <1>18, <1>20, <1>21, LocalMove
<1>23. ASSUME KeptAsPromised PROVE KeptAsPromised'
  <2>1. Real(p) = behind
    BY <1>13, <1>18 DEF Real
  <2>2. CASE behind = Real(pages[t])
    BY <1>1, <1>16, <1>23, <2>1, <2>2, RealStays
  <2>3. CASE behind = NoWorkspace
    <3>1. /\ HoldsApart(Real(p)) /\ Derived(Real(p).current, Real(pages[t]))
          /\ Derived(Real(p).detached, Real(pages[t]))
      BY <1>10, <1>11, <2>1, <2>3 DEF HoldsApart, Derived
    <3>. QED
      BY <1>1, <1>16, <1>23, <3>1, QuietMove
  <2>. QED
    BY <1>17, <2>2, <2>3
<1>. QED
  BY <1>22, <1>23

LEMMA ReturnKeeps ==
  ASSUME ArchiveLocal, NEW t \in Pages, BackToTheDisplay(t) \/ Reload(t)
  PROVE  ArchiveLocal' /\ (KeptAsPromised => KeptAsPromised')
<1>1. KeepStorage /\ file' = file /\ records' = records /\ results' = results
  BY DEF BackToTheDisplay, Reload
<1>2. /\ HistoryOK(localHistory, records, results) /\ records \in Nat /\ results \in Nat
  BY HistoryIs
<1>3. HistoryOK(localHistory', records, results)
  BY <1>1, <1>2, QuietIs
<1>4. /\ pages[t] \in PageSet(records, results) /\ PageOK(pages[t])
      /\ pages[t].live \in WorkspaceSet(records, results) /\ WorkspaceOK(pages[t].live, pages[t].own)
      /\ pages \in [Pages -> PageSet(records, results)]
  BY PageIs DEF ArchiveLocal, ArchiveTypes
<1>5. \A own : /\ NoWorkspace \in WorkspaceSet(records, results) /\ WorkspaceOK(NoWorkspace, own)
               /\ ~NoWorkspace.imported /\ NoWorkspace.current = NoRecord /\ NoWorkspace.detached = NoRecord
  BY <1>2, NoWorkspaceIs
<1>6. CASE BackToTheDisplay(t)
  <2>. DEFINE w == pages[t].live
              p == [pages[t] EXCEPT !.shown = w, !.live = NoWorkspace]
  <2>1. w # NoWorkspace /\ pages' = [pages EXCEPT ![t].shown = w, ![t].live = NoWorkspace]
    BY <1>6 DEF BackToTheDisplay
  <2>2. \A A, B : [pages EXCEPT ![t].shown = A, ![t].live = B]
                    = [pages EXCEPT ![t] = [pages[t] EXCEPT !.shown = A, !.live = B]]
    BY <1>4
  <2>3. pages' = [pages EXCEPT ![t] = p]
    BY <2>1, <2>2
  <2>4. p \in PageSet(records, results) /\ p.shown = w /\ p.live = NoWorkspace /\ p.own = pages[t].own
    BY <1>4, <1>5 DEF PageSet
  <2>. HIDE DEF p
  <2>5. pages[t].shown.imported /\ ~w.imported
    BY <1>4, <2>1 DEF PageOK
  <2>6. PageOK(p)
    BY <1>4, <1>5, <2>4 DEF PageOK
  <2>7. ArchiveLocal'
    BY <1>1, <1>3, <2>3, <2>4, <2>6, LocalMove
  <2>8. Real(p) = Real(pages[t])
    BY <2>4, <2>5 DEF Real
  <2>. QED
    BY <1>1, <2>3, <2>7, <2>8, RealStays
<1>7. CASE Reload(t)
  <2>1. pages' = [pages EXCEPT ![t] = NewPage]
    BY <1>7 DEF Reload
  <2>2. NewPage.shown = NoWorkspace /\ NewPage.live = NoWorkspace /\ NewPage.own = {}
    BY DEF NewPage
  <2>3. NewPage \in PageSet(records, results)
    BY <1>5 DEF PageSet, NewPage
  <2>4. PageOK(NewPage)
    BY <1>5, <2>2 DEF PageOK
  <2>5. ArchiveLocal'
    BY <1>1, <1>3, <2>1, <2>3, <2>4, LocalMove
  <2>6. ASSUME KeptAsPromised PROVE KeptAsPromised'
    <3>1. Real(NewPage) = NoWorkspace
      BY <2>2 DEF Real
    <3>2. NoRecord.id = 0
      BY DEF NoRecord
    <3>3. /\ HoldsApart(Real(NewPage)) /\ Derived(Real(NewPage).current, Real(pages[t]))
          /\ Derived(Real(NewPage).detached, Real(pages[t]))
      BY <1>5, <3>1, <3>2 DEF HoldsApart, Derived
    <3>. QED
      BY <1>1, <2>1, <2>6, <3>3, QuietMove
  <2>. QED
    BY <2>5, <2>6
<1>. QED
  BY <1>6, <1>7

\* Only the file, or only whether the history may be written
LEMMA ExportFileKeeps ==
  ASSUME ArchiveLocal, NEW t \in Pages, ExportFile(t)
  PROVE  ArchiveLocal' /\ (KeptAsPromised => KeptAsPromised')
<1>. DEFINE r == pages[t].shown.current
<1>1. /\ r # NoRecord /\ KeepStorage /\ pages' = pages /\ records' = records /\ results' = results
      /\ \E full \in BOOLEAN :
           file' = [record |-> IF full THEN r ELSE redactBundle(r), full |-> full]
  BY DEF ExportFile
<1>2. localHistory' = localHistory /\ kept' = kept
  BY <1>1, QuietIs
<1>3. r \in Recs(records, results) /\ Proper(r)
  BY PageIs DEF WorkspaceSet, WorkspaceOK
<1>. HIDE DEF r
<1>4. redactBundle(r) \in Recs(records, results) /\ redactBundle(r).id = r.id
  BY <1>3 DEF redactBundle, Recs, Displays
<1>5. r.id # 0 /\ Proper(redactBundle(r))
  BY <1>1, <1>3, <1>4 DEF Proper
<1>6. PICK full \in BOOLEAN : file' = [record |-> IF full THEN r ELSE redactBundle(r), full |-> full]
  BY <1>1
<1>7. /\ file' \in [record : Recs(records, results), full : BOOLEAN]
      /\ file'.record = IF full THEN r ELSE redactBundle(r)
  BY <1>3, <1>4, <1>6
<1>8. Proper(file'.record)
  BY <1>3, <1>5, <1>7
<1>9. ArchiveLocal'
  BY <1>1, <1>2, <1>7, <1>8 DEF ArchiveLocal, ArchiveTypes
<1>10. KeptAsPromised => KeptAsPromised'
  BY <1>1, <1>2 DEF KeptAsPromised
<1>. QED
  BY <1>9, <1>10

LEMMA StorageRefusesKeeps ==
  ASSUME ArchiveLocal, StorageRefuses
  PROVE  ArchiveLocal' /\ (KeptAsPromised => KeptAsPromised')
BY DEF ArchiveLocal, ArchiveTypes, KeptAsPromised, StorageRefuses

LEMMA ForgetHistoryKeeps ==
  ASSUME ArchiveLocal, ForgetHistory
  PROVE  ArchiveLocal' /\ (KeptAsPromised => KeptAsPromised')
<1>1. /\ localHistory' = <<>> /\ kept' = <<>> /\ pages' = pages /\ file' = file
      /\ records' = records /\ results' = results
  BY DEF ForgetHistory
<1>2. records \in Nat /\ results \in Nat
  BY HistoryIs
<1>3. \A X : <<>> \in Seq(X)
  OBVIOUS
<1>4. Len(<<>>) = 0
  OBVIOUS
<1>5. HistoryOK(<<>>, records, results)
  BY <1>3, <1>4, MaxStoredIs DEF HistoryOK, DistinctEntries
<1>6. ArchiveLocal'
  BY <1>1, <1>5 DEF ArchiveLocal, ArchiveTypes
<1>7. Matches(loadStore(<<>>), <<>>)
  <2>1. Len(loadStore(<<>>)) \in 0 .. Len(<<>>)
    BY <1>2, <1>3, LoadIs
  <2>2. Len(loadStore(<<>>)) = Len(<<>>) /\ \A i \in 1 .. Len(<<>>) : FALSE
    BY <1>4, <2>1
  <2>. QED
    BY <2>2 DEF Matches
<1>8. ASSUME KeptAsPromised PROVE KeptAsPromised'
  <2>1. \A r : Covers(r, <<>>)
    BY <1>4 DEF Covers
  <2>2. \A t \in Pages : Safe(Real(pages[t]), <<>>)
    BY <1>8, <2>1 DEF KeptAsPromised, Safe
  <2>. QED
    BY <1>1, <1>3, <1>7, <1>8, <2>2 DEF KeptAsPromised
<1>. QED
  BY <1>6, <1>8

\* Editing one record of the history changes that one,
Edited(h, i, c, M, U) == [h EXCEPT ![i] = [record |-> c, malformed |-> M, unreadable |-> U]]
EditOutcome(g, h, i, c, M, U, m, n) ==
  /\ HistoryOK(g, m, n) /\ Len(g) = Len(h)
  /\ g[i].record = c /\ g[i].malformed = M /\ (g[i].unreadable <=> U)
  /\ \A k \in 1 .. Len(h) : k # i => g[k] = h[k]
LEMMA EditedIs ==
  ASSUME NEW m \in Nat, NEW n \in Nat, NEW h, HistoryOK(h, m, n), NEW i \in 1 .. Len(h),
         NEW c \in Recs(m, n), c.id = h[i].record.id, NEW M \in SUBSET Nat, NEW U \in BOOLEAN
  PROVE  EditOutcome(Edited(h, i, c, M, U), h, i, c, M, U, m, n)
<1>. DEFINE g == Edited(h, i, c, M, U)
            e == [record |-> c, malformed |-> M, unreadable |-> U]
<1>1. h \in Seq(StoredEntries(m, n)) /\ Len(h) <= MaxStored /\ DistinctEntries(h)
  BY DEF HistoryOK
<1>2. h[i] \in StoredEntries(m, n)
  BY <1>1
<1>3. e \in StoredEntries(m, n) /\ e.record = c /\ e.malformed = M /\ e.unreadable = U
  BY <1>2 DEF StoredEntries, RealRecs
<1>. HIDE DEF e
<1>4. g = [h EXCEPT ![i] = e]
  BY DEF Edited, e
<1>. HIDE DEF g
<1>5. /\ g \in Seq(StoredEntries(m, n)) /\ Len(g) = Len(h)
      /\ \A k \in 1 .. Len(h) : g[k] = IF k = i THEN e ELSE h[k]
  BY <1>1, <1>3, <1>4, ExceptSeq
<1>6. \A k \in 1 .. Len(h) : g[k].record.id = h[k].record.id
  BY <1>3, <1>5
<1>7. DistinctEntries(g)
  BY <1>1, <1>5, <1>6 DEF DistinctEntries
<1>. QED
  BY <1>1, <1>3, <1>5, <1>7 DEF HistoryOK, EditOutcome, g

\* and what is promised of it: less, when an entry of it can no longer be read,
LEMMA EditedMatches ==
  ASSUME NEW m \in Nat, NEW n \in Nat, NEW h, HistoryOK(h, m, n), NEW i \in 1 .. Len(h),
         NEW c \in Recs(m, n), c.id = h[i].record.id, NEW M \in SUBSET Nat,
         NEW U \in BOOLEAN, ~U,
         ResultsOf(c) = ResultsOf(h[i].record), h[i].malformed = {},
         NEW k \in Seq(Promises), Matches(loadStore(h), k),
         NEW j \in 1 .. Len(k), InOrder(Readable(h))[j] = i, i \in Readable(h),
         NEW k2 \in Seq(Promises), Len(k2) = Len(k), k2[j].id = k[j].id,
         k2[j].results = k[j].results \ M, \A x \in 1 .. Len(k) : x # j => k2[x] = k[x]
  PROVE  Matches(loadStore(Edited(h, i, c, M, U)), k2)
<1>. DEFINE g == Edited(h, i, c, M, U)
            l == loadStore(h)
            l2 == loadStore(g)
            places == Readable(h)
            p == InOrder(places)
            a == Cardinality(places)
<1>1. /\ HistoryOK(g, m, n) /\ Len(g) = Len(h)
      /\ g[i].record = c /\ g[i].malformed = M /\ ~g[i].unreadable
      /\ \A x \in 1 .. Len(h) : x # i => g[x] = h[x]
  <2>1. EditOutcome(g, h, i, c, M, U, m, n)
    BY EditedIs
  <2>. HIDE DEF g
  <2>. QED
    BY <2>1 DEF EditOutcome
<1>2. h \in Seq(StoredEntries(m, n)) /\ g \in Seq(StoredEntries(m, n))
  BY <1>1 DEF HistoryOK
<1>3. /\ Len(l) = a /\ a \in 0 .. Len(h)
      /\ \A x \in 1 .. a : /\ p[x] \in places /\ p[x] \in 1 .. Len(h)
                           /\ l[x].id = h[p[x]].record.id
                           /\ ResultsOf(l[x]) = ResultsOf(h[p[x]].record) \ h[p[x]].malformed
  BY <1>2, LoadIs
<1>. HIDE DEF g
<1>4. Readable(g) = places
  BY <1>1 DEF Readable
<1>5. /\ Len(l2) = a
      /\ \A x \in 1 .. a : /\ l2[x].id = g[p[x]].record.id
                           /\ ResultsOf(l2[x]) = ResultsOf(g[p[x]].record) \ g[p[x]].malformed
  <2>1. LET q == InOrder(Readable(g))
            b == Cardinality(Readable(g))
        IN  /\ Len(l2) = b
            /\ \A x \in 1 .. b : /\ l2[x].id = g[q[x]].record.id
                                 /\ ResultsOf(l2[x]) = ResultsOf(g[q[x]].record) \ g[q[x]].malformed
    BY <1>2, LoadIs
  <2>. QED
    BY <1>4, <2>1
<1>6. \A x, y \in 1 .. a : p[x] = p[y] => x = y
  <2>1. places \in SUBSET (1 .. Len(h))
    BY DEF Readable
  <2>. HIDE DEF places
  <2>. QED
    BY <1>2, <2>1, EntriesAtIs
<1>7. Matches(l, k)
  OBVIOUS
<1>. HIDE DEF l, l2, places, p, a
<1>8. Len(k) = a /\ j \in 1 .. a /\ p[j] = i
  BY <1>3, <1>7 DEF Matches, p, places
<1>9. ASSUME NEW x \in 1 .. a PROVE l2[x].id = k2[x].id /\ k2[x].results \subseteq ResultsOf(l2[x])
  <2>1. l[x].id = k[x].id /\ k[x].results \subseteq ResultsOf(l[x])
    BY <1>7, <1>8 DEF Matches
  <2>2. CASE x = j
    <3>1. ResultsOf(l[j]) = ResultsOf(h[i].record) /\ l[j].id = h[i].record.id
      BY <1>3, <1>8
    <3>2. ResultsOf(l2[j]) = ResultsOf(c) \ M /\ l2[j].id = c.id
      BY <1>1, <1>5, <1>8
    <3>3. k2[j].results \subseteq ResultsOf(c) \ M
      BY <2>1, <2>2, <3>1
    <3>. QED
      BY <2>1, <2>2, <3>1, <3>2, <3>3
  <2>3. CASE x # j
    <3>1. p[x] # i /\ p[x] \in 1 .. Len(h)
      BY <1>3, <1>6, <1>8, <2>3
    <3>2. g[p[x]] = h[p[x]]
      BY <1>1, <3>1
    <3>3. l2[x].id = l[x].id /\ ResultsOf(l2[x]) = ResultsOf(l[x])
      BY <1>3, <1>5, <3>2
    <3>. QED
      BY <1>8, <2>1, <2>3, <3>3
  <2>. QED
    BY <2>2, <2>3
<1>. QED
  BY <1>5, <1>8, <1>9 DEF Matches, l2, g

\* or nothing, when the record cannot be read at all.
LEMMA LostMatches ==
  ASSUME NEW m \in Nat, NEW n \in Nat, NEW h, HistoryOK(h, m, n), NEW i \in 1 .. Len(h),
         NEW c \in Recs(m, n), c.id = h[i].record.id, NEW M \in SUBSET Nat,
         NEW U \in BOOLEAN, U,
         NEW k \in Seq(Promises), Matches(loadStore(h), k),
         NEW j \in 1 .. Len(k), InOrder(Readable(h))[j] = i
  PROVE  Matches(loadStore(Edited(h, i, c, M, U)), Others(k, k[j].id))
<1>. DEFINE g == Edited(h, i, c, M, U)
            l == loadStore(h)
            l2 == loadStore(g)
            places == Readable(h)
            p == InOrder(places)
            a == Cardinality(places)
            o == Others(k, k[j].id)
<1>1. /\ HistoryOK(g, m, n) /\ Len(g) = Len(h)
      /\ g[i].unreadable /\ \A x \in 1 .. Len(h) : x # i => g[x] = h[x]
  <2>1. EditOutcome(g, h, i, c, M, U, m, n)
    BY EditedIs
  <2>. QED
    BY <2>1 DEF EditOutcome
<1>2. h \in Seq(StoredEntries(m, n)) /\ g \in Seq(StoredEntries(m, n)) /\ DistinctEntries(h) /\ Len(h) \in Nat
  <2>1. h \in Seq(StoredEntries(m, n)) /\ g \in Seq(StoredEntries(m, n)) /\ DistinctEntries(h)
    BY <1>1 DEF HistoryOK
  <2>. QED
    BY <2>1, LenProperties
<1>3. /\ Len(l) = a /\ a \in 0 .. Len(h) /\ DistinctIds(l)
      /\ \A x \in 1 .. a : /\ p[x] \in places /\ p[x] \in 1 .. Len(h)
                           /\ l[x].id = h[p[x]].record.id
                           /\ ResultsOf(l[x]) = ResultsOf(h[p[x]].record) \ h[p[x]].malformed
  BY <1>2, LoadIs
<1>4. Matches(l, k)
  OBVIOUS
<1>5. places \in SUBSET (1 .. Len(h))
  BY DEF Readable
<1>. HIDE DEF g
<1>6. Readable(g) = places \ {i}
  BY <1>1 DEF Readable
<1>. HIDE DEF l, places
<1>7. Len(k) = a /\ j \in 1 .. a /\ p[j] = i /\ a \in Nat
  BY <1>3, <1>4 DEF Matches, places
<1>8. \A x, y \in 1 .. a : p[x] = p[y] => x = y
  BY <1>2, <1>5, EntriesAtIs
<1>9. /\ Cardinality(places \ {i}) = a - 1
      /\ InOrder(places \ {i}) = [x \in 1 .. a - 1 |-> p[Skip(x, j)]]
  <2>1. /\ Cardinality(places \ {p[j]}) = a - 1
        /\ InOrder(places \ {p[j]}) = [x \in 1 .. a - 1 |-> p[Skip(x, j)]]
    BY <1>2, <1>5, <1>7, InOrderWithout
  <2>. QED
    BY <1>7, <2>1
<1>. HIDE DEF p, a
<1>10. \A x \in 1 .. a - 1 : Skip(x, j) \in 1 .. a /\ Skip(x, j) # j
  BY <1>7 DEF Skip
<1>11. /\ Len(l2) = a - 1
       /\ \A x \in 1 .. a - 1 : /\ l2[x].id = g[p[Skip(x, j)]].record.id
                                /\ ResultsOf(l2[x]) = ResultsOf(g[p[Skip(x, j)]].record)
                                                        \ g[p[Skip(x, j)]].malformed
  <2>1. LET q == InOrder(Readable(g))
            b == Cardinality(Readable(g))
        IN  /\ Len(l2) = b
            /\ \A x \in 1 .. b : /\ l2[x].id = g[q[x]].record.id
                                 /\ ResultsOf(l2[x]) = ResultsOf(g[q[x]].record) \ g[q[x]].malformed
    BY <1>2, LoadIs
  <2>2. Len(l2) = a - 1
    BY <1>6, <1>9, <2>1
  <2>3. ASSUME NEW x \in 1 .. a - 1
        PROVE  InOrder(Readable(g))[x] = p[Skip(x, j)] /\ x \in 1 .. Cardinality(Readable(g))
    BY <1>6, <1>9
  <2>. QED
    BY <2>1, <2>2, <2>3
<1>. HIDE DEF l2
<1>12. ASSUME NEW x \in 1 .. a - 1
       PROVE  l2[x].id = l[Skip(x, j)].id /\ ResultsOf(l2[x]) = ResultsOf(l[Skip(x, j)])
  <2>1. p[Skip(x, j)] # i /\ p[Skip(x, j)] \in 1 .. Len(h)
    BY <1>3, <1>7, <1>8, <1>10
  <2>2. g[p[Skip(x, j)]] = h[p[Skip(x, j)]]
    BY <1>1, <2>1
  <2>. QED
    BY <1>3, <1>10, <1>11, <2>2
<1>13. Apart(k, k[j].id) = (1 .. a) \ {j}
  <2>1. \A x \in 1 .. a : k[x].id = k[j].id => x = j
    BY <1>3, <1>4, <1>7 DEF Matches, DistinctIds
  <2>. QED
    BY <1>7, <2>1 DEF Apart
<1>14. /\ Cardinality((1 .. a) \ {j}) = a - 1
       /\ InOrder((1 .. a) \ {j}) = [x \in 1 .. a - 1 |-> Skip(x, j)]
  <2>. DEFINE S == 1 .. a
              e == InOrder(S)
  <2>1. Cardinality(S) = a /\ e = [x \in 1 .. a |-> x]
    BY <1>7, AllInOrder
  <2>2. S \in SUBSET (1 .. a) /\ j \in 1 .. Cardinality(S)
    BY <1>7, <2>1
  <2>. HIDE DEF S
  <2>3. /\ Cardinality(S \ {e[j]}) = Cardinality(S) - 1
        /\ InOrder(S \ {e[j]}) = [x \in 1 .. Cardinality(S) - 1 |-> e[Skip(x, j)]]
    BY <1>7, <2>2, InOrderWithout
  <2>. HIDE DEF e
  <2>4. e[j] = j /\ \A x \in 1 .. a - 1 : e[Skip(x, j)] = Skip(x, j)
    BY <1>7, <1>10, <2>1
  <2>5. /\ Cardinality(S \ {j}) = a - 1
        /\ InOrder(S \ {j}) = [x \in 1 .. a - 1 |-> e[Skip(x, j)]]
    BY <2>1, <2>3, <2>4
  <2>. QED
    BY <2>4, <2>5 DEF S
<1>15. Len(o) = a - 1 /\ \A x \in 1 .. a - 1 : o[x] = k[Skip(x, j)]
  <2>1. /\ o = EntriesAt(k, Apart(k, k[j].id))
        /\ \A x \in 1 .. Len(o) : o[x] = k[InOrder(Apart(k, k[j].id))[x]]
    BY OthersIs
  <2>2. Apart(k, k[j].id) \in SUBSET (1 .. Len(k))
    BY DEF Apart
  <2>3. Len(EntriesAt(k, Apart(k, k[j].id))) = Cardinality(Apart(k, k[j].id))
    BY <2>2, EntriesAtIs
  <2>. HIDE DEF o
  <2>4. Len(o) = a - 1
    BY <1>13, <1>14, <2>1, <2>3
  <2>5. \A x \in 1 .. a - 1 : InOrder(Apart(k, k[j].id))[x] = Skip(x, j)
    BY <1>13, <1>14
  <2>. QED
    BY <2>1, <2>4, <2>5
<1>. HIDE DEF o
<1>16. ASSUME NEW x \in 1 .. a - 1
       PROVE  l2[x].id = o[x].id /\ o[x].results \subseteq ResultsOf(l2[x])
  <2>1. /\ l[Skip(x, j)].id = k[Skip(x, j)].id
        /\ k[Skip(x, j)].results \subseteq ResultsOf(l[Skip(x, j)])
    BY <1>4, <1>7, <1>10 DEF Matches
  <2>. QED
    BY <1>12, <1>15, <2>1
<1>. QED
  BY <1>11, <1>15, <1>16 DEF Matches, l2, g, o
\* The promise of a record that can be read is found by its number,
PlaceOf(k, id) == CHOOSE j \in DOMAIN k : k[j].id = id
LEMMA PlaceIs ==
  ASSUME NEW m \in Nat, NEW n \in Nat, NEW h, HistoryOK(h, m, n), NEW i \in Readable(h),
         NEW k \in Seq(Promises), Matches(loadStore(h), k)
  PROVE  LET j == PlaceOf(k, h[i].record.id)
         IN  j \in 1 .. Len(k) /\ k[j].id = h[i].record.id /\ InOrder(Readable(h))[j] = i
<1>. DEFINE l == loadStore(h)
            places == Readable(h)
            p == InOrder(places)
            a == Cardinality(places)
            j == PlaceOf(k, h[i].record.id)
<1>1. h \in Seq(StoredEntries(m, n)) /\ DistinctEntries(h) /\ i \in 1 .. Len(h)
  BY DEF HistoryOK, Readable
<1>2. /\ Len(l) = a
      /\ \A x \in 1 .. a : p[x] \in places /\ p[x] \in 1 .. Len(h) /\ l[x].id = h[p[x]].record.id
  BY <1>1, LoadIs
<1>3. places \in SUBSET (1 .. Len(h)) /\ i \in places
  BY DEF Readable
<1>4. Len(k) = a /\ DOMAIN k = 1 .. a /\ \A x \in 1 .. a : l[x].id = k[x].id
  <2>1. Len(l) = Len(k) /\ \A x \in 1 .. Len(k) : l[x].id = k[x].id
    BY DEF Matches
  <2>2. DOMAIN k = 1 .. Len(k)
    OBVIOUS
  <2>. HIDE DEF l, a
  <2>. QED
    BY <1>2, <2>1, <2>2
<1>. HIDE DEF places, p, a, l
<1>5. PICK x \in 1 .. a : p[x] = i
  BY <1>1, <1>3, EntriesAtIs DEF p, a
<1>6. k[x].id = h[i].record.id
  BY <1>2, <1>4, <1>5
<1>7. j \in 1 .. a /\ k[j].id = h[i].record.id
  BY <1>4, <1>5, <1>6 DEF PlaceOf
<1>8. h[p[j]].record.id = h[i].record.id /\ p[j] \in 1 .. Len(h)
  BY <1>2, <1>4, <1>7
<1>9. p[j] = i
  BY <1>1, <1>8 DEF DistinctEntries
<1>. QED
  BY <1>4, <1>7, <1>9 DEF p, places, j

\* and to promise less of the history endangers no tab.
Lessens(k2, k) ==
  \A x \in 1 .. Len(k2) : \E y \in 1 .. Len(k) :
    k2[x].id = k[y].id /\ k2[x].results \subseteq k[y].results
LEMMA LessIsSafe ==
  ASSUME KeptAsPromised, NEW k2 \in Seq(Promises), Lessens(k2, kept), kept' = k2, pages' = pages,
         Matches(loadStore(localHistory'), k2)
  PROVE  KeptAsPromised'
<1>1. ASSUME NEW r, Covers(r, kept) PROVE Covers(r, k2)
  BY <1>1 DEF Covers, Lessens
<1>2. \A t \in Pages : Safe(Real(pages[t]), k2)
  BY <1>1 DEF KeptAsPromised, Safe
<1>. QED
  BY <1>2 DEF KeptAsPromised

LEMMA EditStorageKeeps ==
  ASSUME ArchiveLocal, EditStorage
  PROVE  ArchiveLocal' /\ (KeptAsPromised => KeptAsPromised')
<1>. DEFINE h == localHistory
            m == records
            n == results
<1>1. /\ pages' = pages /\ file' = file /\ records' = records /\ results' = results
  BY DEF EditStorage
<1>2. DOMAIN h = 1 .. Len(h) /\ HistoryOK(h, m, n) /\ m \in Nat /\ n \in Nat /\ h \in Seq(StoredEntries(m, n))
  BY HistoryIs DEF HistoryOK
<1>19. PICK i \in 1 .. Len(h), M \in {{}, {n}}, U \in BOOLEAN : \E c \in Claiming(h[i].record) :
        /\ h[i].malformed = {} /\ ~h[i].unreadable
        /\ localHistory' = Edited(h, i, c, M, U)
        /\ LET p == PlaceOf(kept, h[i].record.id)
           IN  kept' = IF U THEN Others(kept, kept[p].id)
                       ELSE [kept EXCEPT ![p].results = @ \ M, ![p].runs = @ \ M]
  BY <1>2 DEF EditStorage, Edited, PlaceOf
<1>3. PICK c \in Claiming(h[i].record) :
        /\ h[i].malformed = {} /\ ~h[i].unreadable
        /\ localHistory' = Edited(h, i, c, M, U)
        /\ LET p == PlaceOf(kept, h[i].record.id)
           IN  kept' = IF U THEN Others(kept, kept[p].id)
                       ELSE [kept EXCEPT ![p].results = @ \ M, ![p].runs = @ \ M]
  BY <1>19
<1>4. M \in SUBSET Nat
  BY <1>2, <1>3
<1>5. h[i] \in StoredEntries(m, n)
  BY <1>2
<1>6. h[i].record \in Recs(m, n)
  BY <1>5 DEF StoredEntries, RealRecs
<1>7. c \in Recs(m, n) /\ c.id = h[i].record.id /\ ResultsOf(c) = ResultsOf(h[i].record)
  BY <1>2, <1>6, ClaimedIs
<1>8. HistoryOK(Edited(h, i, c, M, U), m, n)
  <2>1. EditOutcome(Edited(h, i, c, M, U), h, i, c, M, U, m, n)
    BY <1>2, <1>4, <1>7, EditedIs
  <2>. QED
    BY <2>1 DEF EditOutcome
<1>9. ArchiveLocal'
  BY <1>1, <1>3, <1>8 DEF ArchiveLocal, ArchiveTypes
<1>10. ASSUME KeptAsPromised PROVE KeptAsPromised'
  <2>. DEFINE j == PlaceOf(kept, h[i].record.id)
  <2>1. kept \in Seq(Promises) /\ Matches(loadStore(h), kept)
    BY <1>10 DEF KeptAsPromised
  <2>2. i \in Readable(h)
    BY <1>3 DEF Readable
  <2>3. j \in 1 .. Len(kept) /\ kept[j].id = h[i].record.id /\ InOrder(Readable(h))[j] = i
    BY <1>2, <2>1, <2>2, PlaceIs
  <2>4. kept' = IF U THEN Others(kept, kept[j].id)
                ELSE [kept EXCEPT ![j].results = @ \ M, ![j].runs = @ \ M]
    BY <1>3
  <2>. HIDE DEF j
  <2>5. CASE U
    <3>. DEFINE k2 == Others(kept, kept[j].id)
    <3>1. Matches(loadStore(Edited(h, i, c, M, U)), k2)
      BY <1>2, <1>4, <1>7, <2>1, <2>3, <2>5, LostMatches
    <3>2. LET q == InOrder(Apart(kept, kept[j].id))
          IN  /\ k2 \in Seq(Promises)
              /\ \A x \in 1 .. Len(k2) : q[x] \in 1 .. Len(kept) /\ k2[x] = kept[q[x]]
      BY <2>1, OthersIs
    <3>3. kept' = k2
      BY <2>4, <2>5
    <3>. HIDE DEF k2
    <3>4. Lessens(k2, kept)
      BY <3>2 DEF Lessens
    <3>. QED
      BY <1>1, <1>3, <1>10, <3>1, <3>2, <3>3, <3>4, LessIsSafe
  <2>6. CASE ~U
    <3>. DEFINE q == [kept[j] EXCEPT !.results = @ \ M, !.runs = @ \ M]
                k2 == [kept EXCEPT ![j] = q]
    <3>1. kept[j] \in Promises
      BY <2>1, <2>3
    <3>2. q \in Promises /\ q.id = kept[j].id /\ q.results = kept[j].results \ M
      BY <3>1 DEF Promises
    <3>3. kept' = k2
      <4>1. kept' = [kept EXCEPT ![j].results = kept[j].results \ M, ![j].runs = kept[j].runs \ M]
        BY <2>4, <2>6, <3>1, <2>1 DEF Promises
      <4>2. \A A, B : [kept EXCEPT ![j].results = A, ![j].runs = B]
                        = [kept EXCEPT ![j] = [kept[j] EXCEPT !.results = A, !.runs = B]]
        BY <2>1, <2>3, <3>1 DEF Promises
      <4>. QED
        BY <4>1, <4>2
    <3>. HIDE DEF q
    <3>4. /\ k2 \in Seq(Promises) /\ Len(k2) = Len(kept)
          /\ \A x \in 1 .. Len(kept) : k2[x] = IF x = j THEN q ELSE kept[x]
      BY <2>1, <2>3, <3>2, ExceptSeq
    <3>. HIDE DEF k2
    <3>5. /\ k2[j].id = kept[j].id /\ k2[j].results = kept[j].results \ M
          /\ \A x \in 1 .. Len(kept) : x # j => k2[x] = kept[x]
      BY <2>3, <3>2, <3>4
    <3>6. Matches(loadStore(Edited(h, i, c, M, U)), k2)
      BY <1>2, <1>3, <1>4, <1>7, <2>1, <2>2, <2>3, <2>6, <3>4, <3>5, EditedMatches
    <3>7. Lessens(k2, kept)
      BY <2>3, <3>4, <3>5 DEF Lessens
    <3>. QED
      BY <1>1, <1>3, <1>10, <3>3, <3>4, <3>6, <3>7, LessIsSafe
  <2>. QED
    BY <2>5, <2>6
<1>. QED
  BY <1>9, <1>10

------------------------------------------------------------------------------
(* The archive.                                                            *)

\* At the start nothing is stored and nothing is promised.
LEMMA ArchiveInitInv == ArchiveInit => ArchiveInv
<1>. SUFFICES ASSUME ArchiveInit
              PROVE  ArchiveInv
  OBVIOUS
<1>1. /\ pages = [t \in Pages |-> NewPage] /\ localHistory = <<>> /\ kept = <<>>
      /\ file = [record |-> NoRecord, full |-> FALSE] /\ records = 0 /\ results = 0
  BY DEF ArchiveInit
<1>2. 0 \in 0 .. MaxRecords /\ 0 \in 0 .. MaxResults /\ 0 \in Nat
  BY ArchiveAssumption
<1>3. \A own : /\ NoWorkspace \in WorkspaceSet(0, 0) /\ WorkspaceOK(NoWorkspace, own)
               /\ ~NoWorkspace.imported /\ Held(NoWorkspace) = {}
               /\ NoWorkspace.current = NoRecord /\ NoWorkspace.detached = NoRecord
  BY <1>2, NoWorkspaceIs
<1>4. /\ NewPage.shown = NoWorkspace /\ NewPage.live = NoWorkspace /\ NewPage.own = {}
      /\ NewPage \in PageSet(0, 0)
  BY <1>3 DEF NewPage, PageSet
<1>5. PageOK(NewPage) /\ Real(NewPage) = NoWorkspace
  BY <1>3, <1>4 DEF PageOK, Real
<1>6. (\A X : <<>> \in Seq(X)) /\ Len(<<>>) = 0
  OBVIOUS
<1>7. HistoryOK(<<>>, 0, 0)
  BY <1>6, MaxStoredIs DEF HistoryOK, DistinctEntries
<1>8. NoRecord \in Recs(0, 0) /\ Proper(NoRecord) /\ NoRecord.id = 0
  BY <1>2, NoRecordIs
<1>9. ArchiveLocal
  <2>1. file \in [record : Recs(0, 0), full : BOOLEAN] /\ file.record = NoRecord
    BY <1>1, <1>8
  <2>2. pages \in [Pages -> PageSet(0, 0)] /\ \A t \in Pages : pages[t] = NewPage
    BY <1>1, <1>4
  <2>. QED
    BY <1>1, <1>2, <1>5, <1>7, <1>8, <2>1, <2>2 DEF ArchiveLocal, ArchiveTypes
<1>10. KeptAsPromised
  <2>1. Matches(loadStore(<<>>), <<>>)
    <3>1. Len(loadStore(<<>>)) \in 0 .. Len(<<>>)
      BY <1>2, <1>6, LoadIs
    <3>2. Len(loadStore(<<>>)) = Len(<<>>) /\ \A i \in 1 .. Len(<<>>) : FALSE
      BY <1>6, <3>1
    <3>. QED
      BY <3>2 DEF Matches
  <2>2. Safe(NoWorkspace, <<>>)
    BY <1>3, <1>6, <1>8 DEF Safe, Covers, HoldsApart
  <2>3. \A t \in Pages : Real(pages[t]) = NoWorkspace
    BY <1>1, <1>5
  <2>. QED
    BY <1>1, <1>3, <1>6, <2>1, <2>2, <2>3 DEF KeptAsPromised
<1>. QED
  BY <1>9, <1>10 DEF ArchiveInv

\* Every step of the archive keeps the invariant.
LEMMA ArchiveNextInv == ArchiveInv /\ [ArchiveNext]_archiveVars => ArchiveInv'
<1>. SUFFICES ASSUME ArchiveInv, [ArchiveNext]_archiveVars
              PROVE  ArchiveInv'
  OBVIOUS
<1>. DEFINE Keeps == ArchiveLocal' /\ (OneHolder /\ KeptAsPromised => KeptAsPromised')
<1>1. ArchiveLocal
  BY DEF ArchiveInv
<1>2. ASSUME NEW t \in Pages, NEW d \in Panels, ConnectPanel(t, d) PROVE Keeps
  BY <1>1, <1>2, ConnectPanelKeeps
<1>3. ASSUME NEW t \in Pages, ConnectPanelFails(t) PROVE Keeps
  BY <1>1, <1>3, ConnectPanelFailsKeeps
<1>4. ASSUME NEW t \in Pages, LoseThePanel(t) PROVE Keeps
  BY <1>1, <1>4, LoseThePanelKeeps
<1>5. ASSUME NEW t \in Pages, BackToTheDisplay(t) \/ Reload(t) PROVE Keeps
  BY <1>1, <1>5, ReturnKeeps
<1>6. ASSUME NEW t \in Pages, BeginInvestigation(t) PROVE Keeps
  BY <1>1, <1>6, BeginInvestigationKeeps
<1>7. ASSUME NEW t \in Pages, Troubleshoot(t) PROVE Keeps
  BY <1>1, <1>7, TroubleshootKeeps
<1>8. ASSUME NEW t \in Pages, StopAndSave(t) PROVE Keeps
  BY <1>1, <1>8, StopAndSaveKeeps
<1>9. ASSUME NEW t \in Pages, RecordResult(t) PROVE Keeps
  BY <1>1, <1>9, RecordResultKeeps
<1>10. ASSUME NEW t \in Pages, ResumeStored(t) PROVE Keeps
  BY <1>1, <1>10, ResumeStoredKeeps
<1>11. ASSUME NEW t \in Pages, ExportFile(t) PROVE Keeps
  BY <1>1, <1>11, ExportFileKeeps
<1>12. ASSUME NEW t \in Pages, ImportFile(t) PROVE Keeps
  BY <1>1, <1>12, ImportFileKeeps
<1>13. ASSUME ForgetHistory PROVE Keeps
  BY <1>1, <1>13, ForgetHistoryKeeps
<1>14. ASSUME StorageRefuses PROVE Keeps
  BY <1>1, <1>14, StorageRefusesKeeps
<1>15. ASSUME EditStorage PROVE Keeps
  BY <1>1, <1>15, EditStorageKeeps
<1>16. ASSUME UNCHANGED archiveVars PROVE Keeps
  BY <1>1, <1>16 DEF archiveVars, ArchiveLocal, ArchiveTypes, KeptAsPromised
<1>. HIDE DEF Keeps
<1>17. Keeps
  BY <1>2, <1>3, <1>4, <1>5, <1>6, <1>7, <1>8, <1>9, <1>10, <1>11, <1>12, <1>13, <1>14, <1>15,
     <1>16 DEF ArchiveNext
<1>. QED
  BY <1>17 DEF Keeps, ArchiveInv

\* A list of which each entry has another number has as many numbers as entries.
LEMMA DistinctNumbers ==
  ASSUME NEW n \in Nat, NEW f, \A i, j \in 1 .. n : f[i] = f[j] => i = j
  PROVE  Cardinality({f[i] : i \in 1 .. n}) = n
<1>. DEFINE S == {f[i] : i \in 1 .. n}
            g == [i \in 1 .. n |-> f[i]]
<1>1. g \in Bijection(1 .. n, S)
  BY DEF Bijection, Injection, Surjection, IsInjective
<1>2. ExistsBijection(1 .. n, S)
  BY <1>1 DEF ExistsBijection
<1>. HIDE DEF S
<1>3. Cardinality(S) = n
  BY <1>2, FS_CountingElements
<1>. QED
  BY <1>3 DEF S

\* What the invariant says of the checked properties
LEMMA ArchiveInvGives ==
  ASSUME ArchiveInv
  PROVE  ArchiveTypeOK /\ OutsideRecordsAuthorizeNothing /\ (OneHolder => SavedResultsStay)
<1>. DEFINE h == localHistory
<1>1. ArchiveLocal /\ records \in Nat /\ results \in Nat
  BY HistoryIs DEF ArchiveInv
<1>2. /\ h \in Seq(StoredEntries(records, results)) /\ Len(h) <= MaxStored /\ DistinctEntries(h)
      /\ DOMAIN h = 1 .. Len(h) /\ Len(h) \in Nat
  BY <1>1 DEF ArchiveLocal, ArchiveTypes, HistoryOK
<1>3. ASSUME NEW r \in Recs(records, results) PROVE IsRecord(r)
  BY <1>1 DEF IsRecord, Recs, Evidences, Displays
<1>4. ArchiveTypeOK
  <2>1. ASSUME NEW t \in Pages, NEW w \in {pages[t].shown, pages[t].live}
        PROVE  /\ w.display \in Panels \cup {"none"} /\ w.imported \in BOOLEAN /\ w.fresh \in BOOLEAN
               /\ IsRecord(w.current) /\ IsRecord(w.detached)
    <3>1. w \in WorkspaceSet(records, results)
      BY <1>1, <2>1, PageIs
    <3>. QED
      BY <1>3, <3>1 DEF WorkspaceSet, Displays
  <2>2. \A i \in DOMAIN h : IsRecord(h[i].record)
    <3>1. ASSUME NEW i \in 1 .. Len(h) PROVE IsRecord(h[i].record)
      <4>1. h[i] \in StoredEntries(records, results)
        BY <1>2
      <4>2. h[i].record \in Recs(records, results)
        BY <4>1 DEF StoredEntries, RealRecs
      <4>. QED
        BY <1>3, <4>2
    <3>. QED
      BY <1>2, <3>1
  <2>3. Cardinality({h[i].record.id : i \in DOMAIN h}) = Len(h)
    <3>. DEFINE f == [i \in 1 .. Len(h) |-> h[i].record.id]
    <3>1. \A i, j \in 1 .. Len(h) : f[i] = f[j] => i = j
      BY <1>2 DEF DistinctEntries
    <3>2. {f[i] : i \in 1 .. Len(h)} = {h[i].record.id : i \in DOMAIN h}
      BY <1>2
    <3>. HIDE DEF f
    <3>3. Cardinality({f[i] : i \in 1 .. Len(h)}) = Len(h)
      BY <1>2, <3>1, DistinctNumbers
    <3>. QED
      BY <3>2, <3>3
  <2>4. file.record \in Recs(records, results) /\ file.full \in BOOLEAN
    BY <1>1 DEF ArchiveLocal, ArchiveTypes
  <2>5. records \in 0 .. MaxRecords /\ results \in 0 .. MaxResults
    BY <1>1, HistoryIs
  <2>. QED
    BY <1>2, <1>3, <2>1, <2>2, <2>3, <2>4, <2>5 DEF ArchiveTypeOK
<1>5. OutsideRecordsAuthorizeNothing
  BY <1>1 DEF OutsideRecordsAuthorizeNothing, ArchiveLocal, PageOK, WorkspaceOK, EarnedHere
<1>6. ASSUME OneHolder PROVE SavedResultsStay
  <2>1. kept \in Seq(Promises) /\ Matches(loadStore(h), kept)
    BY <1>6 DEF ArchiveInv, KeptAsPromised
  <2>2. DOMAIN kept = 1 .. Len(kept)
    BY <2>1
  <2>. QED
    BY <2>1, <2>2 DEF SavedResultsStay, Matches
<1>. QED
  BY <1>4, <1>5, <1>6

LEMMA ArchiveInvariance == ArchiveSpec => []ArchiveInv
BY ArchiveInitInv, ArchiveNextInv, PTL DEF ArchiveSpec

\* No file and no stored record brings authority or a belief about the panel with it, in however
\* many tabs, places and copies it is used (demoteInvestigationEvidence, adoptInvestigation,
\* importBundle): here records may be worked on in several places at once.
THEOREM OutsideRecordsNeverAuthorize == ArchiveSpec => []OutsideRecordsAuthorizeNothing
<1>1. ArchiveInv => OutsideRecordsAuthorizeNothing
  BY ArchiveInvGives
<1>. QED
  BY <1>1, ArchiveInvariance, PTL
================================================================================
