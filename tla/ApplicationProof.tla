---------------------------- MODULE ApplicationProof ----------------------------
(***************************************************************************)
(* Proofs about the subscriptions, the shell, the image editor and the     *)
(* wake lock, for any bounds, senders, files and calls: each machine has   *)
(* an inductive invariant of its own, as the archive has in ArchiveProof,  *)
(* and the application, of which one machine moves at a time, has their    *)
(* conjunction.                                                            *)
(***************************************************************************)
EXTENDS MCApplication, ArchiveProof, SequenceTheorems, FiniteSetTheorems, TLAPS

------------------------------------------------------------------------------
(* Subscriptions.                                                          *)

UnderWay(c) == call[c].pc \in {"starting", "executing"}

\* A connection is the latest one, and what waits or listens belongs to it.
ListeningInv ==
  /\ current \in {0, links}
  /\ \A c \in Calls : UnderWay(c) => call[c].link \in 1 .. links
  /\ \A c \in Calls : call[c].pc = "starting" =>
       /\ c # subscription
       /\ call[c].link = current /\ ~closing => c \in listeners
  /\ subscription # NoCall /\ current # 0 /\ ~closing => subscription \in listeners
  /\ current = 0 /\ ~closing => subscription = NoCall
  /\ \A c \in waiters : /\ call[c].pc = "executing" /\ call[c].link = links
                        /\ current # 0 \/ closing
\* The list of notifications is that of the latest connection, and past the place where a
\* call began it holds only what arrived later, although it is trimmed at its front.
PacketsInv ==
  /\ \A k \in DOMAIN notes : notes[k].link = links /\ notes[k].number <= arrived
  /\ \A c \in Calls : UnderWay(c) =>
       /\ call[c].since <= arrived
       /\ \A k \in DOMAIN notes : k > call[c].start => notes[k].number > call[c].since
  /\ \A c \in Calls : call[c].response # NoResponse =>
       call[c].response.link = call[c].link /\ call[c].response.number > call[c].since
\* The index a send took is the place of its transaction as long as no other call records one.
IndexInv ==
  \A c \in Senders : UnderWay(c) /\ call[c].alone => call[c].index = Len(transactions)

SubscriptionsInv ==
  /\ SubscriptionsTypeOK /\ ListeningInv /\ PacketsInv /\ IndexInv
  /\ TransactionsHoldTheirOwnPackets /\ CompilationsNameTheirTransaction

------------------------------------------------------------------------------
(* Lists with a limit.                                                     *)

Cut(s, n) == IF Len(s) > n THEN Len(s) - n ELSE 0

\* The end of a list: its entries, shifted to the front by what was cut off.
LEMMA LastOfFacts ==
  ASSUME NEW S, NEW s \in Seq(S), NEW n \in Nat
  PROVE  /\ LastOf(s, n) \in Seq(S) /\ Len(LastOf(s, n)) <= n
         /\ Cut(s, n) \in Nat
         /\ Len(LastOf(s, n)) = Len(s) - Cut(s, n)
         /\ DOMAIN LastOf(s, n) = 1 .. Len(s) - Cut(s, n)
         /\ \A k \in DOMAIN LastOf(s, n) : /\ k + Cut(s, n) \in DOMAIN s
                                           /\ LastOf(s, n)[k] = s[k + Cut(s, n)]
<1>. DEFINE m == IF Len(s) > n THEN Len(s) - n + 1 ELSE 1
<1>1. m \in Int /\ m >= 1 /\ m <= Len(s) + 1 /\ m = Cut(s, n) + 1 /\ Cut(s, n) \in Nat
  BY DEF Cut
<1>2. LastOf(s, n) = SubSeq(s, m, Len(s))
  BY DEF LastOf
<1>3. Len(s) - m + 1 <= n
  OBVIOUS
<1>. HIDE DEF m
<1>4. \A i \in m .. Len(s) : s[i] \in S
  BY <1>1
<1>5. /\ SubSeq(s, m, Len(s)) \in Seq(S)
      /\ Len(SubSeq(s, m, Len(s))) = IF m <= Len(s) THEN Len(s) - m + 1 ELSE 0
      /\ \A i \in 1 .. Len(s) - m + 1 : SubSeq(s, m, Len(s))[i] = s[m + i - 1]
  BY <1>1, <1>4, SubSeqProperties
<1>. QED
  BY <1>1, <1>2, <1>3, <1>5

LEMMA AppendFacts ==
  ASSUME NEW S, NEW s \in Seq(S), NEW e \in S
  PROVE  /\ Append(s, e) \in Seq(S) /\ Len(Append(s, e)) = Len(s) + 1
         /\ DOMAIN Append(s, e) = 1 .. Len(s) + 1
         /\ Append(s, e)[Len(s) + 1] = e
         /\ \A k \in DOMAIN s : Append(s, e)[k] = s[k]
OBVIOUS

\* A transaction is recorded at the end of the list, unless the limit is zero.
LEMMA RecordFacts ==
  ASSUME NEW t \in Transaction, transactions \in Seq(Transaction), Len(transactions) <= Transactions
  PROVE  LET list == LastOf(Append(transactions, t), Transactions)
         IN  /\ list \in Seq(Transaction) /\ Len(list) <= Transactions
             /\ Len(list) = IF Len(transactions) < Transactions
                            THEN Len(transactions) + 1 ELSE Len(transactions)
             /\ Len(transactions) < Transactions => list[Len(transactions) + 1] = t
             /\ \A k \in DOMAIN list : list[k] = t \/ \E j \in DOMAIN transactions :
                                                         list[k] = transactions[j]
<1>. DEFINE all == Append(transactions, t)
            list == LastOf(all, Transactions)
<1>1. Transactions \in Nat /\ Len(transactions) \in Nat
  BY SubscriptionsAssumption
<1>2. /\ all \in Seq(Transaction) /\ Len(all) = Len(transactions) + 1
      /\ DOMAIN all = 1 .. Len(transactions) + 1
      /\ all[Len(transactions) + 1] = t
      /\ \A k \in DOMAIN transactions : all[k] = transactions[k]
      /\ DOMAIN transactions = 1 .. Len(transactions)
  BY AppendFacts
<1>. HIDE DEF all
<1>3. /\ list \in Seq(Transaction) /\ Len(list) <= Transactions
      /\ Cut(all, Transactions) \in Nat
      /\ Len(list) = Len(all) - Cut(all, Transactions)
      /\ DOMAIN list = 1 .. Len(all) - Cut(all, Transactions)
      /\ \A k \in DOMAIN list : /\ k + Cut(all, Transactions) \in DOMAIN all
                                /\ list[k] = all[k + Cut(all, Transactions)]
  BY <1>1, <1>2, LastOfFacts
<1>. HIDE DEF list
<1>4. Cut(all, Transactions) = IF Len(transactions) < Transactions THEN 0 ELSE 1
  BY <1>1, <1>2 DEF Cut
<1>5. \A k \in DOMAIN list : list[k] = t \/ \E j \in DOMAIN transactions :
                                                list[k] = transactions[j]
  <2>. SUFFICES ASSUME NEW k \in DOMAIN list,
                       k + Cut(all, Transactions) # Len(transactions) + 1
                PROVE  \E j \in DOMAIN transactions : list[k] = transactions[j]
    BY <1>2, <1>3
  <2>. DEFINE j == k + Cut(all, Transactions)
  <2>1. j \in DOMAIN transactions
    BY <1>1, <1>2, <1>3
  <2>. QED
    BY <1>2, <1>3, <2>1
<1>6. Len(list) = IF Len(transactions) < Transactions
                  THEN Len(transactions) + 1 ELSE Len(transactions)
  BY <1>1, <1>2, <1>3, <1>4
<1>7. Len(transactions) < Transactions => list[Len(transactions) + 1] = t
  BY <1>1, <1>2, <1>3, <1>4
<1>. QED
  BY <1>3, <1>5, <1>6, <1>7 DEF list, all

------------------------------------------------------------------------------
(* Calls.                                                                  *)

\* Only whether a call is still alone changes when another one records a transaction.
LEMMA SharedFacts ==
  ASSUME call \in [Calls -> CallStates], NEW c
  PROVE  /\ Shared(c) \in [Calls -> CallStates]
         /\ \A d \in Calls :
              /\ Shared(c)[d].pc = call[d].pc /\ Shared(c)[d].link = call[d].link
              /\ Shared(c)[d].start = call[d].start /\ Shared(c)[d].since = call[d].since
              /\ Shared(c)[d].index = call[d].index /\ Shared(c)[d].response = call[d].response
              /\ d # c /\ UnderWay(d) => Shared(c)[d].alone = FALSE
<1>1. ASSUME NEW d \in Calls
      PROVE  /\ Shared(c)[d] \in CallStates
             /\ Shared(c)[d].pc = call[d].pc /\ Shared(c)[d].link = call[d].link
             /\ Shared(c)[d].start = call[d].start /\ Shared(c)[d].since = call[d].since
             /\ Shared(c)[d].index = call[d].index /\ Shared(c)[d].response = call[d].response
             /\ d # c /\ UnderWay(d) => Shared(c)[d].alone = FALSE
  <2>. DEFINE shared == [call[d] EXCEPT !.alone = FALSE]
  <2>1. call[d] \in CallStates
    OBVIOUS
  <2>2. /\ shared \in CallStates /\ shared.alone = FALSE
        /\ shared.pc = call[d].pc /\ shared.link = call[d].link
        /\ shared.start = call[d].start /\ shared.since = call[d].since
        /\ shared.index = call[d].index /\ shared.response = call[d].response
    BY <2>1 DEF CallStates
  <2>3. Shared(c)[d] = IF d # c /\ UnderWay(d) THEN shared ELSE call[d]
    BY DEF Shared, UnderWay
  <2>. HIDE DEF shared
  <2>. QED
    BY <2>1, <2>2, <2>3
<1>. QED
  BY <1>1 DEF Shared

LEMMA OverType == Over \in CallStates /\ Idle \in CallStates /\ Over.pc = "over" /\ Idle.pc = "idle"
                    /\ Over.response = NoResponse /\ Idle.response = NoResponse
<1>1. MaxLink \in Nat /\ MaxNotes \in Nat /\ TraceEvents \in Nat /\ Transactions \in Nat
  BY SubscriptionsAssumption
<1>2. Idle \in CallStates
  BY <1>1 DEF Idle, CallStates, NoResponse
<1>. QED
  BY <1>2 DEF Over, Idle, CallStates

LEMMA NoCallIsNoCall == NoCall \notin Calls /\ Restore \in Calls /\ Restore \notin Senders
BY SubscriptionsAssumption DEF Calls, NoCall

\* What TransactionsHoldTheirOwnPackets says of one transaction.
Owns(t) ==
  t.ok => \A n \in ToSet(t.rx) \cup ({t.response} \ {NoResponse}) :
            n.link = t.link /\ n.number > t.since

\* A call that records its transaction is over, and no other call under way is alone.
LEMMA RecordStep ==
  ASSUME SubscriptionsInv, NEW c \in Calls \cup {NoCall}, NEW t \in Transaction, Owns(t),
         transactions' = LastOf(Append(transactions, t), Transactions),
         \/ c \in Calls /\ call' = [Shared(c) EXCEPT ![c] = Over]
         \/ c = NoCall /\ call' = Shared(c)
  PROVE  /\ transactions' \in Seq(Transaction) /\ Len(transactions') <= Transactions
         /\ call' \in [Calls -> CallStates]
         /\ TransactionsHoldTheirOwnPackets'
         /\ IndexInv'
         /\ \A d \in Calls \ {c} :
              /\ call'[d].pc = call[d].pc /\ call'[d].link = call[d].link
              /\ call'[d].start = call[d].start /\ call'[d].since = call[d].since
              /\ call'[d].response = call[d].response
         /\ c \in Calls => call'[c].pc = "over" /\ call'[c].response = NoResponse
<1>1. /\ transactions \in Seq(Transaction) /\ Len(transactions) <= Transactions
      /\ call \in [Calls -> CallStates]
      /\ \A k \in DOMAIN transactions : Owns(transactions[k])
  BY DEF SubscriptionsInv, SubscriptionsTypeOK, TransactionsHoldTheirOwnPackets, Owns
<1>2. /\ transactions' \in Seq(Transaction) /\ Len(transactions') <= Transactions
      /\ \A k \in DOMAIN transactions' : transactions'[k] = t \/ \E j \in DOMAIN transactions :
                                           transactions'[k] = transactions[j]
  BY <1>1, RecordFacts
<1>3. TransactionsHoldTheirOwnPackets'
  <2>1. \A k \in DOMAIN transactions' : Owns(transactions'[k])
    BY <1>1, <1>2
  <2>. QED
    BY <2>1 DEF TransactionsHoldTheirOwnPackets, Owns
<1>4. /\ Shared(c) \in [Calls -> CallStates]
      /\ \A d \in Calls :
           /\ Shared(c)[d].pc = call[d].pc /\ Shared(c)[d].link = call[d].link
           /\ Shared(c)[d].start = call[d].start /\ Shared(c)[d].since = call[d].since
           /\ Shared(c)[d].index = call[d].index /\ Shared(c)[d].response = call[d].response
           /\ d # c /\ UnderWay(d) => Shared(c)[d].alone = FALSE
  BY <1>1, SharedFacts
<1>5. call' \in [Calls -> CallStates] /\ (c \in Calls => call'[c] = Over)
  BY <1>4, OverType, NoCallIsNoCall
<1>6. \A d \in Calls \ {c} : call'[d] = Shared(c)[d]
  BY <1>4, <1>5, NoCallIsNoCall
<1>7. IndexInv'
  <2>. SUFFICES ASSUME NEW d \in Calls, UnderWay(d)', call'[d].alone
                PROVE  FALSE
    BY DEF IndexInv, Calls
  <2>1. d # c
    BY <1>5, OverType DEF UnderWay
  <2>2. UnderWay(d)
    BY <1>4, <1>6, <2>1 DEF UnderWay
  <2>. QED
    BY <1>4, <1>6, <2>1, <2>2
<1>. QED
  BY <1>2, <1>3, <1>4, <1>5, <1>6, <1>7, OverType

------------------------------------------------------------------------------
(* Steps.                                                                  *)

LEMMA InitInv == SubscriptionsInit => SubscriptionsInv
<1>. SUFFICES ASSUME SubscriptionsInit PROVE SubscriptionsInv
  OBVIOUS
<1>1. /\ current = 0 /\ links = 0 /\ closing = FALSE /\ desired = FALSE
      /\ subscription = NoCall /\ listeners = {} /\ waiters = {} /\ notes = <<>>
      /\ arrived = 0 /\ transactions = <<>> /\ call = [c \in Calls |-> Idle]
      /\ compiled = [by |-> NoCall, linked |-> NoCall, alone |-> TRUE]
  BY DEF SubscriptionsInit
<1>2. SubscriptionsTypeOK
  <2>1. MaxLink \in Nat /\ MaxNotes \in Nat /\ TraceEvents \in Nat /\ Transactions \in Nat
    BY SubscriptionsAssumption
  <2>2. call \in [Calls -> CallStates]
    BY <1>1, OverType
  <2>3. compiled \in [by : Calls \cup {NoCall}, linked : Calls \cup {NoCall}, alone : BOOLEAN]
    BY <1>1
  <2>4. /\ notes \in Seq(Notes) /\ Len(notes) <= TraceEvents
        /\ transactions \in Seq(Transaction) /\ Len(transactions) <= Transactions
    BY <1>1, <2>1
  <2>5. current \in 0 .. MaxLink /\ links \in 0 .. MaxLink /\ arrived \in 0 .. MaxNotes
    BY <1>1, <2>1
  <2>6. closing \in BOOLEAN /\ desired \in BOOLEAN
    BY <1>1
  <2>7. /\ subscription \in Calls \cup {NoCall}
        /\ listeners \subseteq Calls /\ waiters \subseteq Senders
    BY <1>1
  <2>. QED
    BY <2>2, <2>3, <2>4, <2>5, <2>6, <2>7 DEF SubscriptionsTypeOK
<1>3. ListeningInv /\ PacketsInv /\ IndexInv
  BY <1>1, OverType DEF ListeningInv, PacketsInv, IndexInv, UnderWay, Calls
<1>4. TransactionsHoldTheirOwnPackets /\ CompilationsNameTheirTransaction
  BY <1>1 DEF TransactionsHoldTheirOwnPackets, CompilationsNameTheirTransaction
<1>. QED
  BY <1>2, <1>3, <1>4 DEF SubscriptionsInv

\* The end of a connection, in its four forms.
LEMMA EndsInv ==
  ASSUME SubscriptionsInv, Lose \/ LoseWhileClosing \/ CloseBegins \/ CloseEnds
  PROVE  SubscriptionsInv'
<1>1. /\ UNCHANGED <<links, arrived, transactions, call, compiled>>
      /\ notes' \in {notes, <<>>} /\ waiters' \in {waiters, {}} /\ listeners' \subseteq listeners
      /\ subscription' \in {subscription, NoCall}
      /\ current' \in {current, 0} /\ closing' \in BOOLEAN /\ desired' \in BOOLEAN
  BY DEF SubscriptionsInv, SubscriptionsTypeOK, Lose, LoseWhileClosing, CloseBegins,
         CloseEnds, KeepEvidence, WaitersReset
<1>2. SubscriptionsTypeOK'
  <2>1. MaxLink \in Nat /\ MaxNotes \in Nat /\ TraceEvents \in Nat /\ Transactions \in Nat
    BY SubscriptionsAssumption
  <2>2. notes' \in Seq(Notes) /\ Len(notes') <= TraceEvents
    <3>1. notes \in Seq(Notes) /\ Len(notes) <= TraceEvents
      BY DEF SubscriptionsInv, SubscriptionsTypeOK
    <3>2. <<>> \in Seq(Notes) /\ Len(<<>>) <= TraceEvents
      BY <2>1
    <3>. QED
      BY <1>1, <3>1, <3>2
  <2>. QED
    BY <1>1, <2>1, <2>2 DEF SubscriptionsInv, SubscriptionsTypeOK
<1>3. ListeningInv'
  <2>. USE <1>1, NoCallIsNoCall DEF SubscriptionsInv, ListeningInv, UnderWay
  <2>1. CASE Lose
    BY <2>1 DEF Lose, WaitersReset
  <2>2. CASE LoseWhileClosing
    BY <2>2 DEF LoseWhileClosing
  <2>3. CASE CloseBegins
    BY <2>3 DEF CloseBegins
  <2>4. CASE CloseEnds
    BY <2>4 DEF CloseEnds, WaitersReset
  <2>. QED
    BY <2>1, <2>2, <2>3, <2>4
<1>4. PacketsInv'
  BY <1>1 DEF SubscriptionsInv, PacketsInv, UnderWay
<1>5. IndexInv' /\ TransactionsHoldTheirOwnPackets' /\ CompilationsNameTheirTransaction'
  BY <1>1 DEF SubscriptionsInv, IndexInv, Calls, UnderWay, TransactionsHoldTheirOwnPackets,
              CompilationsNameTheirTransaction
<1>. QED
  BY <1>2, <1>3, <1>4, <1>5 DEF SubscriptionsInv

LEMMA Bounds == MaxLink \in Nat /\ MaxNotes \in Nat /\ TraceEvents \in Nat /\ Transactions \in Nat
BY SubscriptionsAssumption

\* What a call has received is in the list past the place where it began.
LEMMA ReceivedFacts ==
  ASSUME SubscriptionsInv, NEW c \in Calls
  PROVE  /\ Received(c) \in Seq(Notes)
         /\ \A n \in ToSet(Received(c)) :
              \E k \in DOMAIN notes : k > call[c].start /\ n = notes[k]
<1>1. /\ notes \in Seq(Notes) /\ call[c].start \in Nat
  BY Bounds DEF SubscriptionsInv, SubscriptionsTypeOK, CallStates
<1>. DEFINE m == call[c].start + 1
<1>2. /\ SubSeq(notes, m, Len(notes)) \in Seq(Notes)
      /\ Len(SubSeq(notes, m, Len(notes))) = IF m <= Len(notes) THEN Len(notes) - m + 1 ELSE 0
      /\ \A i \in 1 .. Len(notes) - m + 1 : SubSeq(notes, m, Len(notes))[i] = notes[m + i - 1]
  <2>1. \A i \in m .. Len(notes) : notes[i] \in Notes
    BY <1>1
  <2>2. m \in Int /\ Len(notes) \in Int
    BY <1>1
  <2>. HIDE DEF m
  <2>. QED
    BY <2>1, <2>2, SubSeqProperties
<1>3. ASSUME NEW i \in DOMAIN Received(c)
      PROVE  \E k \in DOMAIN notes : k > call[c].start /\ Received(c)[i] = notes[k]
  <2>1. i \in 1 .. Len(notes) - m + 1
    BY <1>1, <1>2 DEF Received
  <2>2. m + i - 1 \in DOMAIN notes /\ m + i - 1 > call[c].start
    BY <1>1, <2>1
  <2>. QED
    BY <1>2, <2>1, <2>2 DEF Received
<1>. QED
  BY <1>2, <1>3 DEF Received, ToSet

Mine(c, ok) ==
  [by |-> c, ok |-> ok, since |-> call[c].since, link |-> call[c].link, rx |-> Received(c),
   response |-> call[c].response]

\* The transaction of a call holds what is its own, when its connection is the latest one.
LEMMA MineFacts ==
  ASSUME SubscriptionsInv, NEW c \in Calls, UnderWay(c), NEW ok \in BOOLEAN,
         ok => call[c].link = links
  PROVE  Mine(c, ok) \in Transaction /\ Owns(Mine(c, ok)) /\ Mine(c, ok).by = c
<1>1. /\ call[c] \in CallStates
      /\ \A k \in DOMAIN notes : notes[k].link = links
      /\ \A k \in DOMAIN notes : k > call[c].start => notes[k].number > call[c].since
      /\ call[c].response # NoResponse =>
           call[c].response.link = call[c].link /\ call[c].response.number > call[c].since
  BY DEF SubscriptionsInv, SubscriptionsTypeOK, PacketsInv
<1>2. Mine(c, ok) \in Transaction
  <2>1. /\ call[c].since \in 0 .. MaxNotes /\ call[c].link \in 0 .. MaxLink
        /\ call[c].response \in Notes \cup {NoResponse}
    BY <1>1 DEF CallStates, NoResponse
  <2>. QED
    BY <2>1, ReceivedFacts DEF Mine, Transaction
<1>3. ASSUME ok, NEW n \in ToSet(Received(c)) \cup ({call[c].response} \ {NoResponse})
      PROVE  n.link = call[c].link /\ n.number > call[c].since
  <2>1. CASE n \in ToSet(Received(c))
    BY <1>1, <1>3, <2>1, ReceivedFacts
  <2>2. CASE n = call[c].response /\ n # NoResponse
    BY <1>1, <2>2
  <2>. QED
    BY <1>3, <2>1, <2>2
<1>. QED
  BY <1>2, <1>3 DEF Owns, Mine

LEMMA RecordedIsMine ==
  ASSUME NEW c, NEW ok
  PROVE  Recorded(c, ok) = LastOf(Append(transactions, Mine(c, ok)), Transactions)
BY DEF Recorded, Mine

\* A failed call adds a transaction and nothing else.
LEMMA FailsInv ==
  ASSUME SubscriptionsInv, NEW c \in Calls, NEW t \in Transaction, Owns(t), c \notin waiters',
         transactions' = LastOf(Append(transactions, t), Transactions),
         call' = [Shared(c) EXCEPT ![c] = Over],
         UNCHANGED <<current, links, closing, notes, arrived>>,
         subscription' \in {subscription, c},
         subscription' = c => /\ current # 0 \/ closing
                              /\ current # 0 /\ ~closing => c \in listeners',
         waiters' \subseteq waiters, desired' \in BOOLEAN,
         listeners' \subseteq Calls,
         \A d \in Calls \ {c} : d \in listeners => d \in listeners',
         CompilationsNameTheirTransaction',
         compiled' \in [by : Calls \cup {NoCall}, linked : Calls \cup {NoCall}, alone : BOOLEAN]
  PROVE  SubscriptionsInv'
<1>1. /\ transactions' \in Seq(Transaction) /\ Len(transactions') <= Transactions
      /\ call' \in [Calls -> CallStates]
      /\ TransactionsHoldTheirOwnPackets'
      /\ IndexInv'
      /\ \A d \in Calls \ {c} :
           /\ call'[d].pc = call[d].pc /\ call'[d].link = call[d].link
           /\ call'[d].start = call[d].start /\ call'[d].since = call[d].since
           /\ call'[d].response = call[d].response
      /\ call'[c].pc = "over" /\ call'[c].response = NoResponse
  BY RecordStep
<1>2. SubscriptionsTypeOK'
  BY <1>1 DEF SubscriptionsInv, SubscriptionsTypeOK
<1>3. ListeningInv'
  <2>1. ASSUME NEW d \in Calls
        PROVE  /\ UnderWay(d)' => call'[d].link \in 1 .. links
               /\ call'[d].pc = "starting" =>
                    /\ d # subscription'
                    /\ call'[d].link = current /\ ~closing => d \in listeners'
               /\ d \in waiters' => /\ call'[d].pc = "executing"
                                    /\ call'[d].link = links
                                    /\ current # 0 \/ closing
    BY <1>1 DEF SubscriptionsInv, ListeningInv, UnderWay
  <2>2. waiters' \subseteq Calls /\ subscription \in Calls \cup {NoCall}
    BY DEF SubscriptionsInv, SubscriptionsTypeOK, Calls
  <2>3. subscription' # NoCall /\ current # 0 /\ ~closing => subscription' \in listeners'
    BY <2>2 DEF SubscriptionsInv, ListeningInv
  <2>4. current = 0 /\ ~closing => subscription' = NoCall
    BY DEF SubscriptionsInv, ListeningInv
  <2>. QED
    BY <2>1, <2>2, <2>3, <2>4 DEF SubscriptionsInv, ListeningInv
<1>4. PacketsInv'
  BY <1>1 DEF SubscriptionsInv, PacketsInv, UnderWay
<1>. QED
  BY <1>1, <1>2, <1>3, <1>4 DEF SubscriptionsInv

LEMMA SendFailsInv ==
  ASSUME SubscriptionsInv, NEW c \in Calls, SendFails(c) PROVE SubscriptionsInv'
<1>1. /\ c \in Senders /\ call[c].pc = "executing"
      /\ call' = [Shared(c) EXCEPT ![c] = Over] /\ waiters' = waiters \ {c}
      /\ transactions' = Recorded(c, FALSE)
      /\ UNCHANGED <<notes, arrived, compiled, current, links, closing, desired,
                     subscription, listeners>>
  BY DEF SendFails, KeepLink, KeepSubscriptions
<1>2. Mine(c, FALSE) \in Transaction /\ Owns(Mine(c, FALSE))
  BY <1>1, MineFacts DEF UnderWay
<1>3. transactions' = LastOf(Append(transactions, Mine(c, FALSE)), Transactions)
  BY <1>1, RecordedIsMine
<1>4. /\ desired' \in BOOLEAN /\ listeners' \subseteq Calls
      /\ compiled' \in [by : Calls \cup {NoCall}, linked : Calls \cup {NoCall}, alone : BOOLEAN]
  BY <1>1 DEF SubscriptionsInv, SubscriptionsTypeOK
<1>5. /\ CompilationsNameTheirTransaction'
  BY <1>1 DEF SubscriptionsInv, CompilationsNameTheirTransaction
<1>6. subscription' = c => /\ current # 0 \/ closing
                           /\ current # 0 /\ ~closing => c \in listeners'
  BY <1>1, NoCallIsNoCall DEF SubscriptionsInv, ListeningInv
<1>. QED
  BY <1>1, <1>2, <1>3, <1>4, <1>5, <1>6, FailsInv

\* The compilation of a send that was alone is linked to its own transaction, or to none.
LEMMA LinkFacts ==
  ASSUME SubscriptionsInv, NEW c \in Senders, UnderWay(c),
         transactions' = LastOf(Append(transactions, Mine(c, TRUE)), Transactions),
         Mine(c, TRUE) \in Transaction
  PROVE  /\ LinkedTo(c, transactions') \in Calls \cup {NoCall}
         /\ call[c].alone => LinkedTo(c, transactions') \in {c, NoCall}
<1>1. /\ transactions \in Seq(Transaction) /\ Len(transactions) <= Transactions
      /\ call[c].index \in Nat
      /\ call[c].alone => call[c].index = Len(transactions)
  <2>1. call[c] \in CallStates
    BY DEF SubscriptionsInv, SubscriptionsTypeOK, Calls
  <2>2. call[c].index \in Nat
    BY <2>1, Bounds DEF CallStates
  <2>. QED
    BY <2>2 DEF SubscriptionsInv, SubscriptionsTypeOK, IndexInv
<1>. DEFINE list == LastOf(Append(transactions, Mine(c, TRUE)), Transactions)
<1>2. /\ list \in Seq(Transaction) /\ Len(list) <= Transactions
      /\ Len(list) = IF Len(transactions) < Transactions
                     THEN Len(transactions) + 1 ELSE Len(transactions)
      /\ Len(transactions) < Transactions => list[Len(transactions) + 1] = Mine(c, TRUE)
  BY <1>1, RecordFacts
<1>3. LinkedTo(c, transactions') =
        IF call[c].index < Len(list) THEN list[call[c].index + 1].by ELSE NoCall
  BY DEF LinkedTo
<1>. HIDE DEF list
<1>4. \A k \in 1 .. Len(list) : list[k].by \in Calls \cup {NoCall}
  <2>1. \A k \in 1 .. Len(list) : list[k] \in Transaction
    BY <1>2
  <2>. QED
    BY <2>1 DEF Transaction
<1>5. Mine(c, TRUE).by = c
  BY DEF Mine
<1>6. LinkedTo(c, transactions') \in Calls \cup {NoCall}
  <2>1. CASE call[c].index < Len(list)
    <3>1. call[c].index + 1 \in 1 .. Len(list)
      BY <1>1, <1>2, <2>1
    <3>. QED
      BY <1>3, <1>4, <2>1, <3>1
  <2>2. CASE ~(call[c].index < Len(list))
    BY <1>3, <2>2
  <2>. QED
    BY <2>1, <2>2
<1>7. ASSUME call[c].alone PROVE LinkedTo(c, transactions') \in {c, NoCall}
  <2>1. CASE Len(transactions) < Transactions
    <3>1. list[call[c].index + 1].by = c
      BY <1>1, <1>2, <1>5, <1>7, <2>1
    <3>. QED
      BY <1>3, <3>1
  <2>2. CASE ~(Len(transactions) < Transactions)
    <3>1. ~(call[c].index < Len(list))
      BY <1>1, <1>2, <1>7, <2>2
    <3>. QED
      BY <1>3, <3>1
  <2>. QED
    BY <2>1, <2>2
<1>. QED
  BY <1>6, <1>7

LEMMA SendReturnsInv ==
  ASSUME SubscriptionsInv, NEW c \in Calls, SendReturns(c) PROVE SubscriptionsInv'
<1>1. /\ c \in Senders /\ call[c].pc = "executing"
      /\ call' = [Shared(c) EXCEPT ![c] = Over] /\ waiters' = waiters \ {c}
      /\ transactions' = Recorded(c, TRUE)
      /\ compiled' = [by |-> c, linked |-> LinkedTo(c, transactions'), alone |-> call[c].alone]
      /\ UNCHANGED <<notes, arrived, current, links, closing, desired, subscription, listeners>>
      /\ current = call[c].link \/ (current = 0 /\ links = call[c].link /\ c \notin waiters)
  BY DEF SendReturns, KeepLink, KeepSubscriptions
<1>2. UnderWay(c) /\ call[c].link = links
  BY <1>1 DEF UnderWay, SubscriptionsInv, ListeningInv
<1>3. Mine(c, TRUE) \in Transaction /\ Owns(Mine(c, TRUE))
  BY <1>2, MineFacts
<1>4. transactions' = LastOf(Append(transactions, Mine(c, TRUE)), Transactions)
  BY <1>1, RecordedIsMine
<1>5. desired' \in BOOLEAN /\ listeners' \subseteq Calls /\ call[c].alone \in BOOLEAN
  BY <1>1 DEF SubscriptionsInv, SubscriptionsTypeOK, CallStates
<1>6. /\ CompilationsNameTheirTransaction'
      /\ compiled' \in [by : Calls \cup {NoCall}, linked : Calls \cup {NoCall}, alone : BOOLEAN]
  BY <1>1, <1>2, <1>3, <1>4, <1>5, LinkFacts DEF CompilationsNameTheirTransaction
<1>7. subscription' = c => /\ current # 0 \/ closing
                           /\ current # 0 /\ ~closing => c \in listeners'
  BY <1>1, NoCallIsNoCall DEF SubscriptionsInv, ListeningInv
<1>. QED
  BY <1>1, <1>3, <1>4, <1>5, <1>6, <1>7, FailsInv

LEMMA ReadInv == ASSUME SubscriptionsInv, Read PROVE SubscriptionsInv'
<1>. DEFINE t == [by |-> NoCall, ok |-> TRUE, since |-> arrived, link |-> current, rx |-> <<>>,
                  response |-> NoResponse]
<1>1. /\ transactions' = LastOf(Append(transactions, t), Transactions)
      /\ call' = Shared(NoCall)
      /\ UNCHANGED <<notes, arrived, compiled, waiters, current, links, closing, desired,
                     subscription, listeners>>
  BY DEF Read, KeepLink, KeepSubscriptions
<1>2. t \in Transaction
  <2>1. arrived \in 0 .. MaxNotes /\ current \in 0 .. MaxLink /\ <<>> \in Seq(Notes)
    BY DEF SubscriptionsInv, SubscriptionsTypeOK
  <2>. QED
    BY <2>1 DEF Transaction
<1>3. Owns(t)
  BY DEF Owns, ToSet
<1>. HIDE DEF t
<1>4. /\ transactions' \in Seq(Transaction) /\ Len(transactions') <= Transactions
      /\ call' \in [Calls -> CallStates]
      /\ TransactionsHoldTheirOwnPackets'
      /\ IndexInv'
      /\ \A d \in Calls :
           /\ call'[d].pc = call[d].pc /\ call'[d].link = call[d].link
           /\ call'[d].start = call[d].start /\ call'[d].since = call[d].since
           /\ call'[d].response = call[d].response
  BY <1>1, <1>2, <1>3, RecordStep, NoCallIsNoCall
<1>5. SubscriptionsTypeOK'
  BY <1>1, <1>4 DEF SubscriptionsInv, SubscriptionsTypeOK
<1>6. ListeningInv'
  <2>1. waiters \subseteq Calls
    BY DEF SubscriptionsInv, SubscriptionsTypeOK, Calls
  <2>. QED
    BY <1>1, <1>4, <2>1 DEF SubscriptionsInv, ListeningInv, UnderWay
<1>7. PacketsInv'
  BY <1>1, <1>4 DEF SubscriptionsInv, PacketsInv, UnderWay
<1>8. CompilationsNameTheirTransaction'
  BY <1>1 DEF SubscriptionsInv, CompilationsNameTheirTransaction
<1>. QED
  BY <1>4, <1>5, <1>6, <1>7, <1>8 DEF SubscriptionsInv

LEMMA EstablishInv == ASSUME SubscriptionsInv, Establish PROVE SubscriptionsInv'
<1>. DEFINE begun == [Idle EXCEPT !.pc = "starting", !.link = links + 1]
<1>1. /\ current = 0 /\ closing = FALSE /\ links < MaxLink /\ call[Restore].pc # "starting"
      /\ current' = links + 1 /\ links' = links + 1 /\ notes' = <<>>
      /\ \/ listeners' = listeners \cup {Restore} /\ call' = [call EXCEPT ![Restore] = begun]
         \/ listeners' = listeners /\ call' = call
      /\ UNCHANGED <<closing, desired, subscription, waiters, arrived, transactions, compiled>>
  BY DEF Establish, SubscriptionsInv, SubscriptionsTypeOK
<1>2. links \in Nat /\ MaxLink \in Nat /\ call \in [Calls -> CallStates]
  BY Bounds DEF SubscriptionsInv, SubscriptionsTypeOK
<1>3. /\ begun \in CallStates /\ begun.pc = "starting" /\ begun.link = links + 1
      /\ begun.since = 0 /\ begun.index = 0 /\ begun.alone = TRUE /\ begun.response = NoResponse
  <2>1. links + 1 \in 0 .. MaxLink
    BY <1>1, <1>2
  <2>. QED
    BY <2>1, OverType DEF Idle, CallStates
<1>. HIDE DEF begun
<1>4. /\ call' \in [Calls -> CallStates]
      /\ \A c \in Calls : \/ call'[c] = call[c]
                          \/ c = Restore /\ call'[c] = begun /\ c \in listeners'
  BY <1>1, <1>2, <1>3, NoCallIsNoCall
<1>5. subscription = NoCall /\ waiters = {}
  BY <1>1 DEF SubscriptionsInv, ListeningInv
<1>6. SubscriptionsTypeOK'
  <2>1. <<>> \in Seq(Notes) /\ Len(<<>>) <= TraceEvents
    BY Bounds
  <2>2. links + 1 \in 0 .. MaxLink /\ listeners' \subseteq Calls
    BY <1>1, <1>2, NoCallIsNoCall DEF SubscriptionsInv, SubscriptionsTypeOK
  <2>. QED
    BY <1>1, <1>4, <2>1, <2>2 DEF SubscriptionsInv, SubscriptionsTypeOK
<1>7. ListeningInv'
  <2>1. ASSUME NEW c \in Calls
        PROVE  /\ UnderWay(c)' => call'[c].link \in 1 .. links + 1
               /\ call'[c].pc = "starting" =>
                    /\ c # NoCall
                    /\ call'[c].link = links + 1 => c \in listeners'
    <3>1. CASE call'[c] = call[c]
      BY <1>2, <3>1, NoCallIsNoCall DEF SubscriptionsInv, ListeningInv, UnderWay
    <3>2. CASE call'[c] = begun /\ c \in listeners'
      BY <1>2, <1>3, <3>2, NoCallIsNoCall
    <3>. QED
      BY <1>4, <3>1, <3>2
  <2>. QED
    BY <1>1, <1>2, <1>5, <2>1 DEF ListeningInv
<1>8. PacketsInv'
  <2>1. ASSUME NEW c \in Calls
        PROVE  /\ UnderWay(c)' => call'[c].since <= arrived
               /\ call'[c].response # NoResponse =>
                    call'[c].response.link = call'[c].link
                      /\ call'[c].response.number > call'[c].since
    <3>1. CASE call'[c] = call[c]
      BY <3>1 DEF SubscriptionsInv, PacketsInv, UnderWay
    <3>2. CASE call'[c] = begun
      <4>1. arrived \in Nat
        BY Bounds DEF SubscriptionsInv, SubscriptionsTypeOK
      <4>. QED
        BY <1>3, <3>2, <4>1
    <3>. QED
      BY <1>4, <3>1, <3>2
  <2>. QED
    BY <1>1, <2>1 DEF PacketsInv
<1>9. IndexInv'
  BY <1>1, <1>2, <1>4, NoCallIsNoCall DEF SubscriptionsInv, IndexInv, UnderWay, Calls
<1>10. TransactionsHoldTheirOwnPackets' /\ CompilationsNameTheirTransaction'
  BY <1>1 DEF SubscriptionsInv, TransactionsHoldTheirOwnPackets, CompilationsNameTheirTransaction
<1>. QED
  BY <1>6, <1>7, <1>8, <1>9, <1>10 DEF SubscriptionsInv

\* One call goes on, and nothing is recorded.
LEMMA MoveInv ==
  ASSUME SubscriptionsInv, NEW c \in Calls, NEW new \in CallStates,
         call' = [call EXCEPT ![c] = new],
         UNCHANGED <<current, links, closing, notes, arrived, transactions, compiled>>,
         desired' \in BOOLEAN, listeners' \subseteq Calls,
         \A d \in Calls \ {c} : d \in listeners => d \in listeners',
         subscription' \in {subscription, c},
         subscription' # subscription => current # 0 \/ closing,
         subscription' = c /\ current # 0 /\ ~closing => c \in listeners',
         waiters' \in {waiters, waiters \cup {c}}, waiters' \subseteq Senders,
         c \in waiters' => /\ new.pc = "executing" /\ new.link = links
                           /\ current # 0 \/ closing,
         new.pc \in {"starting", "executing"} =>
           /\ new.link \in 1 .. links /\ new.since <= arrived
           /\ \A k \in DOMAIN notes : k > new.start => notes[k].number > new.since
           /\ c \in Senders /\ new.alone => new.index = Len(transactions),
         new.pc = "starting" => /\ c # subscription'
                                /\ new.link = current /\ ~closing => c \in listeners',
         new.response # NoResponse =>
           new.response.link = new.link /\ new.response.number > new.since
  PROVE  SubscriptionsInv'
<1>1. /\ call \in [Calls -> CallStates] /\ call' \in [Calls -> CallStates] /\ call'[c] = new
      /\ \A d \in Calls \ {c} : call'[d] = call[d]
  BY DEF SubscriptionsInv, SubscriptionsTypeOK
<1>2. SubscriptionsTypeOK'
  BY <1>1 DEF SubscriptionsInv, SubscriptionsTypeOK
<1>3. ListeningInv'
  <2>1. ASSUME NEW d \in Calls
        PROVE  /\ UnderWay(d)' => call'[d].link \in 1 .. links
               /\ call'[d].pc = "starting" =>
                    /\ d # subscription'
                    /\ call'[d].link = current /\ ~closing => d \in listeners'
               /\ d \in waiters' => /\ call'[d].pc = "executing"
                                    /\ call'[d].link = links
                                    /\ current # 0 \/ closing
    BY <1>1 DEF SubscriptionsInv, ListeningInv, UnderWay
  <2>2. waiters' \subseteq Calls /\ subscription \in Calls \cup {NoCall}
    BY DEF SubscriptionsInv, SubscriptionsTypeOK, Calls
  <2>3. subscription' # NoCall /\ current # 0 /\ ~closing => subscription' \in listeners'
    BY <2>2 DEF SubscriptionsInv, ListeningInv
  <2>4. current = 0 /\ ~closing => subscription' = NoCall
    BY DEF SubscriptionsInv, ListeningInv
  <2>. QED
    BY <2>1, <2>2, <2>3, <2>4 DEF SubscriptionsInv, ListeningInv
<1>4. PacketsInv'
  BY <1>1 DEF SubscriptionsInv, PacketsInv, UnderWay
<1>5. IndexInv'
  BY <1>1 DEF SubscriptionsInv, IndexInv, UnderWay, Calls
<1>6. TransactionsHoldTheirOwnPackets' /\ CompilationsNameTheirTransaction'
  BY DEF SubscriptionsInv, TransactionsHoldTheirOwnPackets, CompilationsNameTheirTransaction
<1>. QED
  BY <1>2, <1>3, <1>4, <1>5, <1>6 DEF SubscriptionsInv

LEMMA BegunFacts ==
  ASSUME SubscriptionsInv, NEW new \in {Begun, [Begun EXCEPT !.pc = "executing"]}
  PROVE  /\ new \in CallStates /\ new.pc \in {"starting", "executing"} /\ new.link = current
         /\ new.start = Len(notes) /\ new.since = arrived
         /\ new.index = Len(transactions) /\ new.response = NoResponse
         /\ new = Begun => new.pc = "starting"
         /\ new = [Begun EXCEPT !.pc = "executing"] => new.pc = "executing"
<1>1. /\ current \in 0 .. MaxLink /\ Len(notes) \in 0 .. TraceEvents
      /\ arrived \in 0 .. MaxNotes /\ Len(transactions) \in 0 .. Transactions
  BY Bounds DEF SubscriptionsInv, SubscriptionsTypeOK
<1>2. Begun \in CallStates
  BY <1>1 DEF Begun, CallStates, NoResponse
<1>3. CASE new = Begun
  BY <1>2, <1>3 DEF Begun
<1>4. CASE new = [Begun EXCEPT !.pc = "executing"]
  <2>1. new \in CallStates
    BY <1>2, <1>4 DEF CallStates
  <2>. QED
    BY <1>4, <2>1 DEF Begun
<1>. QED
  BY <1>3, <1>4

LEMMA BeginSendInv ==
  ASSUME SubscriptionsInv, NEW c \in Calls, BeginSend(c) PROVE SubscriptionsInv'
<1>1. /\ c \in Senders /\ call[c].pc = "idle" /\ current # 0 /\ desired' = TRUE
      /\ UNCHANGED <<subscription, notes, arrived, compiled, current, links, closing>>
  BY DEF BeginSend, KeepLink
<1>2. /\ current = links /\ links \in 1 .. links /\ c \notin waiters /\ current \in 0 .. MaxLink
      /\ listeners \subseteq Calls /\ waiters \subseteq Senders /\ arrived \in 0 .. MaxNotes
      /\ DOMAIN notes = 1 .. Len(notes) /\ Len(notes) \in Nat
  BY <1>1, Bounds DEF SubscriptionsInv, SubscriptionsTypeOK, ListeningInv
<1>3. subscription = c /\ ~closing => c \in listeners
  BY <1>1, NoCallIsNoCall DEF SubscriptionsInv, ListeningInv
<1>4. ASSUME NEW new \in {Begun, [Begun EXCEPT !.pc = "executing"]},
             call' = [call EXCEPT ![c] = new], UNCHANGED transactions,
             listeners' \in {listeners, listeners \cup {c}},
             new.pc = "starting" => /\ subscription = NoCall /\ listeners' = listeners \cup {c}
                                    /\ waiters' = waiters,
             new.pc = "executing" => waiters' = waiters \cup {c}
      PROVE  SubscriptionsInv'
  <2>1. /\ new \in CallStates /\ new.pc \in {"starting", "executing"} /\ new.link = current
        /\ new.start = Len(notes) /\ new.since = arrived
        /\ new.index = Len(transactions) /\ new.response = NoResponse
    BY BegunFacts
  <2>2. call' = [call EXCEPT ![c] = new]
    BY <1>4
  <2>3. ~\E k \in DOMAIN notes : k > new.start
    BY <1>2, <2>1
  <2>4. new.since <= arrived
    BY <1>2, <2>1
  <2>5. /\ waiters' \in {waiters, waiters \cup {c}} /\ waiters' \subseteq Senders
        /\ listeners' \subseteq Calls
        /\ c \in waiters' => new.pc = "executing"
        /\ new.pc = "starting" => c # subscription' /\ c \in listeners'
        /\ subscription' = c /\ ~closing => c \in listeners'
    <3>1. CASE new.pc = "starting"
      BY <1>1, <1>2, <1>3, <1>4, <2>1, <3>1, NoCallIsNoCall
    <3>2. CASE new.pc = "executing"
      BY <1>1, <1>2, <1>3, <1>4, <2>1, <3>2, NoCallIsNoCall
    <3>. QED
      BY <2>1, <3>1, <3>2
  <2>6. /\ \A d \in Calls \ {c} : d \in listeners => d \in listeners'
        /\ new.link = links /\ links \in 1 .. links
    BY <1>2, <1>4, <2>1
  <2>7. UNCHANGED <<current, links, closing, notes, arrived, transactions, compiled>>
    BY <1>1, <1>4
  <2>8. /\ desired' \in BOOLEAN /\ subscription' = subscription /\ current # 0
    BY <1>1
  <2>9. new.pc \in {"starting", "executing"} =>
          /\ new.link \in 1 .. links /\ new.since <= arrived
          /\ \A k \in DOMAIN notes : k > new.start => notes[k].number > new.since
          /\ c \in Senders /\ new.alone => new.index = Len(transactions)
    BY <2>1, <2>3, <2>4, <2>6
  <2>10. /\ new.pc = "starting" => /\ c # subscription'
                                   /\ new.link = current /\ ~closing => c \in listeners'
         /\ c \in waiters' => /\ new.pc = "executing" /\ new.link = links
                              /\ current # 0 \/ closing
         /\ new.response # NoResponse =>
              new.response.link = new.link /\ new.response.number > new.since
         /\ subscription' # subscription => current # 0 \/ closing
         /\ subscription' = c /\ current # 0 /\ ~closing => c \in listeners'
         /\ subscription' \in {subscription, c}
    BY <2>1, <2>5, <2>6, <2>8
  <2>. QED
    BY <2>1, <2>2, <2>5, <2>6, <2>7, <2>8, <2>9, <2>10, MoveInv
<1>5. CASE ~Known
  <2>1. /\ call' = [call EXCEPT ![c] = Begun] /\ listeners' = listeners \cup {c}
        /\ waiters' = waiters /\ transactions' = transactions
    BY <1>5 DEF BeginSend
  <2>. QED
    BY <1>4, <1>5, <2>1, BegunFacts DEF Known
<1>6. CASE Known /\ \A d \in Senders : call[d].pc # "executing"
  <2>1. /\ call' = [call EXCEPT ![c] = [Begun EXCEPT !.pc = "executing"]]
        /\ listeners' = listeners /\ waiters' = waiters \cup {c} /\ transactions' = transactions
    BY <1>6 DEF BeginSend
  <2>. QED
    BY <1>4, <2>1, BegunFacts
<1>7. CASE Known /\ ~\A d \in Senders : call[d].pc # "executing"
  <2>. DEFINE t == [by |-> c, ok |-> FALSE, since |-> arrived, link |-> current, rx |-> <<>>,
                    response |-> NoResponse]
  <2>1. /\ call' = [Shared(c) EXCEPT ![c] = Over] /\ listeners' = listeners /\ waiters' = waiters
        /\ transactions' = LastOf(Append(transactions, t), Transactions)
    BY <1>7 DEF BeginSend
  <2>2. t \in Transaction
    BY <1>2 DEF Transaction
  <2>3. Owns(t)
    BY DEF Owns
  <2>. HIDE DEF t
  <2>4. /\ compiled' \in [by : Calls \cup {NoCall}, linked : Calls \cup {NoCall}, alone : BOOLEAN]
        /\ CompilationsNameTheirTransaction'
    BY <1>1 DEF SubscriptionsInv, SubscriptionsTypeOK, CompilationsNameTheirTransaction
  <2>. QED
    BY <1>1, <1>2, <1>3, <2>1, <2>2, <2>3, <2>4, FailsInv
<1>. QED
  BY <1>5, <1>6, <1>7

LEMMA StartSucceedsInv ==
  ASSUME SubscriptionsInv, NEW c \in Calls, StartSucceeds(c) PROVE SubscriptionsInv'
<1>1. /\ call[c].pc = "starting"
      /\ subscription' = Subscribed(c).subscription /\ listeners' = Subscribed(c).listeners
      /\ UNCHANGED <<desired, notes, arrived, compiled, current, links, closing>>
      /\ IF c = Restore
         THEN /\ call' = [call EXCEPT ![c] = Idle]
              /\ waiters' = waiters /\ transactions' = transactions
         ELSE Run(c)
  BY DEF StartSucceeds, KeepLink
<1>2. /\ call \in [Calls -> CallStates] /\ call[c] \in CallStates
      /\ desired \in BOOLEAN /\ listeners \subseteq Calls /\ waiters \subseteq Senders
      /\ CompilationsNameTheirTransaction'
      /\ compiled' \in [by : Calls \cup {NoCall}, linked : Calls \cup {NoCall}, alone : BOOLEAN]
  BY <1>1 DEF SubscriptionsInv, SubscriptionsTypeOK, CompilationsNameTheirTransaction
<1>3. /\ call[c].link \in 1 .. links /\ c # subscription /\ c \notin waiters
      /\ call[c].link = current /\ ~closing => c \in listeners
  BY <1>1 DEF SubscriptionsInv, ListeningInv, UnderWay
<1>4. /\ subscription' \in {subscription, c} /\ listeners' \subseteq Calls
      /\ \A d \in Calls \ {c} : d \in listeners => d \in listeners'
      /\ subscription' = c => /\ current # 0
                              /\ ~closing => c \in listeners'
  <2>1. CASE current = call[c].link
    <3>1. subscription' = c /\ listeners' = listeners
      BY <1>1, <2>1 DEF Subscribed
    <3>2. current # 0
      BY <1>3, <2>1
    <3>. QED
      BY <1>2, <1>3, <2>1, <3>1, <3>2
  <2>2. CASE current # call[c].link
    BY <1>1, <1>2, <1>3, <2>2 DEF Subscribed
  <2>. QED
    BY <2>1, <2>2
<1>5. CASE c = Restore
  <2>1. call' = [call EXCEPT ![c] = Idle] /\ waiters' = waiters /\ transactions' = transactions
    BY <1>1, <1>5
  <2>. QED
    BY <1>1, <1>2, <1>3, <1>4, <2>1, OverType, MoveInv
<1>6. CASE c # Restore /\ MayRun(c)
  <2>. DEFINE new == [call[c] EXCEPT !.pc = "executing"]
  <2>1. /\ call' = [call EXCEPT ![c] = new] /\ waiters' = waiters \cup {c}
        /\ transactions' = transactions
    BY <1>1, <1>6 DEF Run
  <2>2. current = call[c].link /\ c \in Senders
    BY <1>6 DEF MayRun, Calls
  <2>3. /\ new \in CallStates /\ new.pc = "executing" /\ new.link = call[c].link
        /\ new.start = call[c].start /\ new.since = call[c].since
        /\ new.index = call[c].index /\ new.alone = call[c].alone
        /\ new.response = call[c].response
    BY <1>2 DEF CallStates
  <2>. HIDE DEF new
  <2>4. current = links /\ current # 0
    BY <1>3, <2>2 DEF SubscriptionsInv, ListeningInv
  <2>5. /\ new.since <= arrived
        /\ \A k \in DOMAIN notes : k > new.start => notes[k].number > new.since
        /\ c \in Senders /\ new.alone => new.index = Len(transactions)
        /\ new.response # NoResponse =>
             new.response.link = new.link /\ new.response.number > new.since
    BY <1>1, <2>2, <2>3 DEF SubscriptionsInv, PacketsInv, IndexInv, UnderWay
  <2>6. new.link \in 1 .. links /\ new.link = links
    BY <1>3, <2>2, <2>3, <2>4
  <2>7. waiters' \in {waiters, waiters \cup {c}} /\ waiters' \subseteq Senders
    BY <1>2, <2>1, <2>2
  <2>. QED
    BY <1>1, <1>2, <1>4, <2>1, <2>3, <2>4, <2>5, <2>6, <2>7, MoveInv
<1>7. CASE c # Restore /\ ~MayRun(c)
  <2>1. /\ call' = [Shared(c) EXCEPT ![c] = Over] /\ waiters' = waiters
        /\ transactions' = Recorded(c, FALSE)
    BY <1>1, <1>7 DEF Run
  <2>2. Mine(c, FALSE) \in Transaction /\ Owns(Mine(c, FALSE))
    BY <1>1, MineFacts DEF UnderWay
  <2>3. transactions' = LastOf(Append(transactions, Mine(c, FALSE)), Transactions)
    BY <2>1, RecordedIsMine
  <2>. QED
    BY <1>1, <1>2, <1>3, <1>4, <2>1, <2>2, <2>3, FailsInv
<1>. QED
  BY <1>5, <1>6, <1>7

LEMMA StartFailsInv ==
  ASSUME SubscriptionsInv, NEW c \in Calls, StartFails(c) PROVE SubscriptionsInv'
<1>. DEFINE new == IF c = Restore THEN Idle ELSE Over
<1>1. /\ call[c].pc = "starting" /\ call' = [call EXCEPT ![c] = new]
      /\ UNCHANGED <<waiters, current, links, closing, desired, subscription, listeners, notes,
                     arrived, transactions, compiled>>
  BY DEF StartFails, KeepLink, KeepSubscriptions, KeepEvidence
<1>2. new \in CallStates /\ new.pc \in {"idle", "over"} /\ new.response = NoResponse
  BY OverType
<1>. HIDE DEF new
<1>3. /\ c # subscription /\ c \notin waiters /\ desired \in BOOLEAN
      /\ listeners \subseteq Calls /\ waiters \subseteq Senders
  BY <1>1 DEF SubscriptionsInv, SubscriptionsTypeOK, ListeningInv
<1>. QED
  BY <1>1, <1>2, <1>3, MoveInv

------------------------------------------------------------------------------
(* A notification.                                                         *)

\* The list behind a notification: what it held, and one entry for each listener.
LEMMA ArrivalFacts ==
  ASSUME SubscriptionsInv, NEW note \in Notes, NEW n \in Nat,
         notes' = LastOf(notes \o [k \in 1 .. n |-> note], TraceEvents)
  PROVE  /\ notes' \in Seq(Notes) /\ Len(notes') <= TraceEvents
         /\ \A k \in DOMAIN notes' : \/ notes'[k] = note
                                     \/ \E j \in DOMAIN notes : j >= k /\ notes'[k] = notes[j]
<1>. DEFINE copies == [k \in 1 .. n |-> note]
            all == notes \o copies
            cut == Cut(all, TraceEvents)
<1>1. notes \in Seq(Notes) /\ Len(notes) \in Nat /\ TraceEvents \in Nat
  BY Bounds DEF SubscriptionsInv, SubscriptionsTypeOK
<1>2. copies \in Seq(Notes) /\ Len(copies) = n /\ \A k \in 1 .. n : copies[k] = note
  OBVIOUS
<1>. HIDE DEF copies
<1>3. /\ all \in Seq(Notes) /\ DOMAIN all = 1 .. Len(notes) + n
      /\ \A k \in DOMAIN all : \/ k \in DOMAIN notes /\ all[k] = notes[k]
                               \/ all[k] = note
  <2>1. /\ all \in Seq(Notes) /\ Len(all) = Len(notes) + n
        /\ \A k \in 1 .. Len(notes) + n :
             all[k] = IF k <= Len(notes) THEN notes[k] ELSE copies[k - Len(notes)]
    BY <1>1, <1>2, ConcatProperties
  <2>2. ASSUME NEW k \in 1 .. Len(notes) + n, ~(k <= Len(notes))
        PROVE  all[k] = note
    <3>1. k - Len(notes) \in 1 .. n
      BY <1>1, <2>2
    <3>. QED
      BY <1>2, <2>1, <2>2, <3>1
  <2>. QED
    BY <1>1, <2>1, <2>2
<1>4. notes' = LastOf(all, TraceEvents)
  BY DEF copies
<1>. HIDE DEF all
<1>5. /\ notes' \in Seq(Notes) /\ Len(notes') <= TraceEvents
      /\ cut \in Nat
      /\ \A k \in DOMAIN notes' : k + cut \in DOMAIN all /\ notes'[k] = all[k + cut]
  <2>1. /\ LastOf(all, TraceEvents) \in Seq(Notes) /\ Len(LastOf(all, TraceEvents)) <= TraceEvents
        /\ cut \in Nat
        /\ \A k \in DOMAIN LastOf(all, TraceEvents) :
             /\ k + cut \in DOMAIN all
             /\ LastOf(all, TraceEvents)[k] = all[k + cut]
    BY <1>1, <1>3, LastOfFacts, Zenon
  <2>. QED
    BY <1>4, <2>1
<1>. HIDE DEF cut
<1>6. ASSUME NEW k \in DOMAIN notes'
      PROVE  \/ notes'[k] = note
             \/ \E j \in DOMAIN notes : j >= k /\ notes'[k] = notes[j]
  <2>1. k \in Nat /\ k + cut >= k
    BY <1>5
  <2>. QED
    BY <1>3, <1>5, <2>1
<1>. QED
  BY <1>5, <1>6

LEMMA NotifyInv ==
  ASSUME SubscriptionsInv, NEW answers \in BOOLEAN, Notify(answers) PROVE SubscriptionsInv'
<1>. DEFINE note == [link |-> current, number |-> arrived + 1]
            answered == [c \in Calls |-> IF c \in waiters
                                         THEN [call[c] EXCEPT !.response = note] ELSE call[c]]
<1>1. /\ current # 0 /\ arrived < MaxNotes
      /\ notes' = LastOf(notes \o [k \in 1 .. Cardinality(listeners) |-> note], TraceEvents)
      /\ arrived' = arrived + 1
      /\ \/ waiters' = {} /\ call' = answered
         \/ waiters' = waiters /\ call' = call
      /\ UNCHANGED <<transactions, compiled, current, links, closing, desired, subscription,
                     listeners>>
  BY DEF Notify, KeepLink, KeepSubscriptions
<1>2. /\ current = links /\ current \in 1 .. MaxLink
      /\ arrived \in Nat /\ arrived + 1 \in 1 .. MaxNotes
      /\ call \in [Calls -> CallStates] /\ waiters \subseteq Senders /\ waiters \subseteq Calls
      /\ listeners \subseteq Calls
  BY <1>1, Bounds DEF SubscriptionsInv, SubscriptionsTypeOK, ListeningInv, Calls
<1>3. note \in Notes /\ note.link = links /\ note.number = arrived + 1 /\ note # NoResponse
  BY <1>2 DEF Notes, NoResponse
<1>. HIDE DEF note
<1>4. Cardinality(listeners) \in Nat
  <2>1. IsFiniteSet(Calls)
    BY SubscriptionsAssumption, FS_AddElement DEF Calls
  <2>. QED
    BY <1>2, <2>1, FS_Subset, FS_CardinalityType
<1>5. /\ notes' \in Seq(Notes) /\ Len(notes') <= TraceEvents
      /\ \A k \in DOMAIN notes' : \/ notes'[k] = note
                                  \/ \E j \in DOMAIN notes : j >= k /\ notes'[k] = notes[j]
  BY <1>1, <1>3, <1>4, ArrivalFacts
<1>6. ASSUME NEW c \in Calls
      PROVE  /\ call'[c] \in CallStates
             /\ call'[c].pc = call[c].pc /\ call'[c].link = call[c].link
             /\ call'[c].start = call[c].start /\ call'[c].since = call[c].since
             /\ call'[c].index = call[c].index /\ call'[c].alone = call[c].alone
             /\ call'[c].response \in {note, call[c].response}
             /\ call'[c].response # call[c].response => c \in waiters
  <2>. DEFINE new == [call[c] EXCEPT !.response = note]
  <2>1. call[c] \in CallStates
    BY <1>2
  <2>2. /\ new \in CallStates /\ new.pc = call[c].pc /\ new.link = call[c].link
        /\ new.start = call[c].start /\ new.since = call[c].since
        /\ new.index = call[c].index /\ new.alone = call[c].alone /\ new.response = note
    BY <1>3, <2>1 DEF CallStates
  <2>3. call'[c] = call[c] \/ (call'[c] = new /\ c \in waiters)
    BY <1>1
  <2>. HIDE DEF new
  <2>. QED
    BY <2>1, <2>2, <2>3
<1>7. call' \in [Calls -> CallStates]
  <2>1. DOMAIN call' = Calls /\ call' = [c \in Calls |-> call'[c]]
    BY <1>1, <1>2
  <2>. QED
    BY <1>6, <2>1
<1>. HIDE DEF answered
<1>8. SubscriptionsTypeOK'
  <2>1. waiters' \subseteq Senders /\ arrived' \in 0 .. MaxNotes
    BY <1>1, <1>2
  <2>. QED
    BY <1>1, <1>5, <1>7, <2>1 DEF SubscriptionsInv, SubscriptionsTypeOK
<1>9. ListeningInv'
  <2>1. waiters' \subseteq waiters
    BY <1>1
  <2>. QED
    BY <1>1, <1>2, <1>6, <2>1 DEF SubscriptionsInv, ListeningInv, UnderWay
<1>10. PacketsInv'
  <2>1. ASSUME NEW k \in DOMAIN notes'
        PROVE  notes'[k].link = links /\ notes'[k].number <= arrived + 1
    <3>1. CASE notes'[k] = note
      BY <1>2, <1>3, <3>1
    <3>2. CASE \E j \in DOMAIN notes : notes'[k] = notes[j]
      <4>1. PICK j \in DOMAIN notes : notes'[k] = notes[j]
        BY <3>2
      <4>2. notes[j].link = links /\ notes[j].number <= arrived
        BY DEF SubscriptionsInv, PacketsInv
      <4>3. notes[j].number \in Nat
        <5>1. notes[j] \in Notes
          BY DEF SubscriptionsInv, SubscriptionsTypeOK
        <5>. QED
          BY <5>1 DEF Notes
      <4>. QED
        BY <1>2, <4>1, <4>2, <4>3
    <3>. QED
      BY <1>5, <3>1, <3>2
  <2>2. ASSUME NEW c \in Calls, UnderWay(c)'
        PROVE  /\ call'[c].since <= arrived + 1
               /\ \A k \in DOMAIN notes' : k > call'[c].start => notes'[k].number > call'[c].since
    <3>1. /\ call[c].since <= arrived /\ call[c].since \in Nat /\ call[c].start \in Nat
          /\ \A k \in DOMAIN notes : k > call[c].start => notes[k].number > call[c].since
      BY <1>2, <1>6, <2>2, Bounds DEF SubscriptionsInv, PacketsInv, UnderWay, CallStates
    <3>2. ASSUME NEW k \in DOMAIN notes', k > call[c].start
          PROVE  notes'[k].number > call[c].since
      <4>1. CASE notes'[k] = note
        BY <1>2, <1>3, <3>1, <4>1
      <4>2. CASE \E j \in DOMAIN notes : j >= k /\ notes'[k] = notes[j]
        <5>1. PICK j \in DOMAIN notes : j >= k /\ notes'[k] = notes[j]
          BY <4>2
        <5>2. k \in Nat /\ j \in Nat
          BY <1>5, <5>1 DEF SubscriptionsInv, SubscriptionsTypeOK
        <5>3. j > call[c].start
          BY <3>1, <3>2, <5>1, <5>2
        <5>. QED
          BY <3>1, <5>1, <5>3
      <4>. QED
        BY <1>5, <4>1, <4>2
    <3>. QED
      BY <1>2, <1>6, <3>1, <3>2
  <2>3. ASSUME NEW c \in Calls, call'[c].response # NoResponse
        PROVE  call'[c].response.link = call'[c].link /\ call'[c].response.number > call'[c].since
    <3>1. CASE call'[c].response = call[c].response
      BY <1>6, <2>3, <3>1 DEF SubscriptionsInv, PacketsInv
    <3>2. CASE call'[c].response # call[c].response
      <4>1. c \in waiters /\ call'[c].response = note
        BY <1>6, <3>2
      <4>2. call[c].pc = "executing" /\ call[c].link = links
        BY <4>1 DEF SubscriptionsInv, ListeningInv
      <4>3. call[c].since <= arrived /\ call[c].since \in Nat
        BY <1>2, <4>2, Bounds DEF SubscriptionsInv, PacketsInv, UnderWay, CallStates
      <4>. QED
        BY <1>2, <1>3, <1>6, <4>1, <4>2, <4>3
    <3>. QED
      BY <3>1, <3>2
  <2>. QED
    BY <1>1, <2>1, <2>2, <2>3 DEF PacketsInv
<1>11. IndexInv'
  BY <1>1, <1>6 DEF SubscriptionsInv, IndexInv, UnderWay, Calls
<1>12. TransactionsHoldTheirOwnPackets' /\ CompilationsNameTheirTransaction'
  BY <1>1 DEF SubscriptionsInv, TransactionsHoldTheirOwnPackets, CompilationsNameTheirTransaction
<1>. QED
  BY <1>8, <1>9, <1>10, <1>11, <1>12 DEF SubscriptionsInv

------------------------------------------------------------------------------
(* The specification.                                                      *)

LEMMA StepInv == SubscriptionsInv /\ [SubscriptionsNext]_subscriptionVars => SubscriptionsInv'
<1>. SUFFICES ASSUME SubscriptionsInv, [SubscriptionsNext]_subscriptionVars
              PROVE  SubscriptionsInv'
  OBVIOUS
<1>1. CASE Establish
  BY <1>1, EstablishInv
<1>2. CASE Lose \/ LoseWhileClosing \/ CloseBegins \/ CloseEnds
  BY <1>2, EndsInv
<1>3. CASE Read
  BY <1>3, ReadInv
<1>4. ASSUME NEW answers \in BOOLEAN, Notify(answers) PROVE SubscriptionsInv'
  BY <1>4, NotifyInv
<1>5. ASSUME NEW c \in Calls, BeginSend(c) PROVE SubscriptionsInv'
  BY <1>5, BeginSendInv
<1>6. ASSUME NEW c \in Calls, StartSucceeds(c) PROVE SubscriptionsInv'
  BY <1>6, StartSucceedsInv
<1>7. ASSUME NEW c \in Calls, StartFails(c) PROVE SubscriptionsInv'
  BY <1>7, StartFailsInv
<1>8. ASSUME NEW c \in Calls, SendReturns(c) PROVE SubscriptionsInv'
  BY <1>8, SendReturnsInv
<1>9. ASSUME NEW c \in Calls, SendFails(c) PROVE SubscriptionsInv'
  BY <1>9, SendFailsInv
<1>10. CASE UNCHANGED subscriptionVars
  BY <1>10 DEF subscriptionVars, SubscriptionsInv, SubscriptionsTypeOK, ListeningInv, PacketsInv,
               IndexInv, UnderWay, TransactionsHoldTheirOwnPackets, CompilationsNameTheirTransaction
<1>. QED
  BY <1>1, <1>2, <1>3, <1>4, <1>5, <1>6, <1>7, <1>8, <1>9, <1>10 DEF SubscriptionsNext

LEMMA Invariant == SubscriptionsSpec => []SubscriptionsInv
BY InitInv, StepInv, PTL DEF SubscriptionsSpec

\* The variables keep their types, and both lists their limits, whatever the senders and limits.
THEOREM SubscriptionsTyped == SubscriptionsSpec => []SubscriptionsTypeOK
<1>1. SubscriptionsInv => SubscriptionsTypeOK
  BY DEF SubscriptionsInv
<1>. QED
  BY <1>1, Invariant, PTL

\* A subscription believed in has its listener while the connection lasts, and no waiter outlives
\* its connection: the bookkeeping of enableNotifications, of the loss handler and of disconnect
\* agree, however many sends race for the subscription.
THEOREM ListenersAgree == SubscriptionsSpec => []ListenersFollowTheConnection
<1>1. SubscriptionsInv => ListenersFollowTheConnection
  BY DEF SubscriptionsInv, ListeningInv, ListenersFollowTheConnection, SubscriptionsAreLive,
         WaitersEndWithTheirConnection
<1>. QED
  BY <1>1, Invariant, PTL

\* A transaction that succeeded holds packets of its own connection that arrived after it began,
\* and a compilation whose send was alone names no other send's transaction, for every limit at
\* which the lists are trimmed.
THEOREM RecordsAreTheirOwn == SubscriptionsSpec => []RecordsBelongToTheirSend
<1>1. SubscriptionsInv => RecordsBelongToTheirSend
  BY DEF SubscriptionsInv, RecordsBelongToTheirSend
<1>. QED
  BY <1>1, Invariant, PTL

------------------------------------------------------------------------------
(* The shell.                                                              *)

Entries == {"route", "overlay"}

\* The overlay in the history, when it is the last entry, and when there is none
Plain(h) == \A k \in 1 .. Len(h) : h[k] = "route"
Marked(h) ==
  /\ Len(h) > 0 /\ h[Len(h)] = "overlay"
  /\ \A k \in 1 .. Len(h) : k # Len(h) => h[k] = "route"

\* The overlay is the dialog that is open; the history has its entry, or, when the browser has
\* yet to go back, still has it.
OverlaysMatch ==
  /\ overlay = "report" <=> report
  /\ overlay = "send" <=> pending
  /\ overlay = "guided" <=> guided # "closed"
  /\ overlay \in {"report", "send"} => backs = 0
HistoryMatches ==
  /\ overlay # "none" => backs = 0
  /\ IF overlay # "none" \/ backs = 1 THEN Marked(history) ELSE Plain(history)
OverlayPart ==
  /\ overlay \in Overlays \cup {"none"} /\ history \in Seq(Entries) /\ backs \in 0 .. 1
  /\ OverlaysMatch /\ (~continued => HistoryMatches)
DialogPart ==
  /\ report \in BOOLEAN /\ pending \in BOOLEAN /\ continued \in BOOLEAN /\ guided \in Dialogs

\* The offline workspaces that were opened are numbered from 2.
Used == {w \in Workspaces : w # 1 /\ (w \in retired \/ w = controller)}
WorkspacePart ==
  /\ controller \in Workspaces /\ live \in {0, 1} /\ retired \subseteq Workspaces
  /\ \E n \in 0 .. MaxOffline : Used = 2 .. n + 1
  /\ controller \notin retired
  /\ live = 1 => controller # 1 /\ 1 \notin retired

\* Only the workspace of the application sends, and a transfer is alone.
SendersLive ==
  /\ guided # "closed" \/ pending => controller = 1
  /\ \A k \in 1 .. Len(active) :
       /\ active[k].kind \in {"send", "transfer"} => controller = 1 /\ active[k].workspace = 1
       /\ active[k].kind = "transfer" => guided = "transferring"
  /\ guided = "transferring" => Len(active) = 1 /\ active[1].kind = "transfer"
RunsPart ==
  /\ runs \in 0 .. MaxRuns /\ active \in Seq(Operations) /\ error \in 0 .. MaxRuns
  /\ SendersLive

ShellInv == connected \in BOOLEAN /\ DialogPart /\ OverlayPart /\ WorkspacePart /\ RunsPart

\* The shell starts with the workspace of the application and one route.
LEMMA ShellInitInv == ShellInit => ShellInv
<1>. SUFFICES ASSUME ShellInit
              PROVE  ShellInv
  OBVIOUS
<1>1. MaxOffline \in Nat /\ MaxRuns \in Nat
  BY ShellAssumption
<1>2. WorkspacePart
  <2>1. 1 \in Workspaces
    BY <1>1 DEF Workspaces
  <2>2. Used = {}
    BY DEF ShellInit, Used
  <2>3. 2 .. 0 + 1 = {} /\ 0 \in 0 .. MaxOffline
    BY <1>1
  <2>. QED
    BY <2>1, <2>2, <2>3 DEF ShellInit, WorkspacePart
<1>3. RunsPart
  BY <1>1 DEF ShellInit, RunsPart, SendersLive
<1>4. OverlayPart
  BY DEF ShellInit, OverlayPart, OverlaysMatch, HistoryMatches, Plain, Entries
<1>. QED
  BY <1>2, <1>3, <1>4 DEF ShellInit, ShellInv, DialogPart, Dialogs

\* A sequence without its last element
LEMMA FrontIs ==
  ASSUME NEW S, NEW h \in Seq(S), Len(h) > 0
  PROVE  /\ Front(h) \in Seq(S) /\ Len(Front(h)) = Len(h) - 1
         /\ \A k \in 1 .. Len(Front(h)) : Front(h)[k] = h[k]
<1>. DEFINE n == Len(h)
<1>1. n \in Nat /\ n - 1 \in Nat /\ n - 1 <= n
  OBVIOUS
<1>2. SubSeq(h, 1, n - 1) \in Seq(S) /\ Len(SubSeq(h, 1, n - 1)) = n - 1
  <2>1. \A i \in 1 .. n - 1 : h[i] \in S
    BY <1>1
  <2>2. /\ SubSeq(h, 1, n - 1) \in Seq(S)
        /\ Len(SubSeq(h, 1, n - 1)) = IF 1 <= n - 1 THEN n - 1 - 1 + 1 ELSE 0
    BY <1>1, <2>1, SubSeqProperties
  <2>. HIDE DEF n
  <2>. QED
    BY <1>1, <2>2
<1>3. \A k \in 1 .. n - 1 : SubSeq(h, 1, n - 1)[k] = h[k]
  BY <1>1
<1>. QED
  BY <1>2, <1>3 DEF Front

\* A Back from a history whose only overlay is the last entry leaves routes.
LEMMA FrontIsPlain ==
  ASSUME NEW h \in Seq(Entries), Len(h) > 0, Plain(h) \/ Marked(h)
  PROVE  Plain(Front(h))
<1>. DEFINE n == Len(h)
            f == Front(h)
<1>1. n \in Nat /\ f \in Seq(Entries) /\ Len(f) = n - 1 /\ \A k \in 1 .. Len(f) : f[k] = h[k]
  BY FrontIs
<1>. HIDE DEF f
<1>2. \A k \in 1 .. Len(f) : k \in 1 .. Len(h) /\ k # Len(h)
  BY <1>1
<1>3. \A k \in 1 .. Len(f) : h[k] = "route"
  BY <1>2 DEF Plain, Marked
<1>4. Plain(f)
  BY <1>1, <1>3 DEF Plain
<1>. QED
  BY <1>4 DEF f

\* A route keeps a history of routes one; an overlay becomes its only overlay.
LEMMA AppendIs ==
  ASSUME NEW h \in Seq(Entries), NEW e \in Entries, Plain(h)
  PROVE  IF e = "route" THEN Plain(Append(h, e)) ELSE Marked(Append(h, e))
BY DEF Plain, Marked, Entries

\* An element of a sequence from which one was taken was there before.
LEMMA RemoveAtIs ==
  ASSUME NEW S, NEW s \in Seq(S), NEW k \in 1 .. Len(s)
  PROVE  /\ RemoveAt(s, k) \in Seq(S) /\ Len(RemoveAt(s, k)) = Len(s) - 1
         /\ \A i \in 1 .. Len(RemoveAt(s, k)) : \E j \in 1 .. Len(s) : RemoveAt(s, k)[i] = s[j]
<1>. DEFINE a == SubSeq(s, 1, k - 1)
            b == SubSeq(s, k + 1, Len(s))
            n == Len(s)
<1>1. n \in Nat /\ k \in Nat /\ 1 <= k /\ k <= n
  OBVIOUS
<1>2. a \in Seq(S) /\ Len(a) = k - 1 /\ \A i \in 1 .. Len(a) : a[i] = s[i]
  BY <1>1
<1>3. b \in Seq(S) /\ Len(b) = n - k /\ \A i \in 1 .. Len(b) : b[i] = s[k + i]
  BY <1>1
<1>. HIDE DEF a, b
<1>4. a \o b \in Seq(S) /\ Len(a \o b) = n - 1
  <2>1. a \o b \in Seq(S) /\ Len(a \o b) = Len(a) + Len(b)
    BY <1>2, <1>3, ConcatProperties
  <2>. HIDE DEF n
  <2>. QED
    BY <1>1, <1>2, <1>3, <2>1
<1>5. \A i \in 1 .. Len(a \o b) : \E j \in 1 .. n : (a \o b)[i] = s[j]
  <2>. SUFFICES ASSUME NEW i \in 1 .. Len(a \o b)
                PROVE  \E j \in 1 .. n : (a \o b)[i] = s[j]
    OBVIOUS
  <2>1. i \in Nat /\ 1 <= i /\ i <= n - 1
    BY <1>1, <1>4
  <2>2. CASE i <= k - 1
    <3>1. i \in 1 .. Len(a) /\ i \in 1 .. n
      BY <1>1, <1>2, <2>1, <2>2
    <3>2. (a \o b)[i] = a[i]
      BY <1>2, <1>3, <3>1
    <3>. QED
      BY <1>2, <3>1, <3>2
  <2>3. CASE i > k - 1
    <3>1. i - Len(a) \in 1 .. Len(b) /\ k + (i - Len(a)) \in 1 .. n
      BY <1>1, <1>2, <1>3, <2>1, <2>3
    <3>2. (a \o b)[i] = b[i - Len(a)]
      BY <1>1, <1>2, <1>3, <2>1, <2>3, <3>1
    <3>. QED
      BY <1>3, <3>1, <3>2
  <2>. QED
    BY <1>1, <2>1, <2>2, <2>3
<1>6. RemoveAt(s, k) = a \o b
  BY DEF RemoveAt, a, b
<1>. QED
  BY <1>4, <1>5, <1>6

\* The workspaces stay.
LEMMA WorkspacesStay ==
  ASSUME ShellInv, UNCHANGED <<controller, live, retired>>
  PROVE  WorkspacePart'
BY DEF ShellInv, WorkspacePart, Used, Workspaces

\* No operation begins or ends.
LEMMA RunsStay ==
  ASSUME ShellInv, KeepRuns, controller' = controller,
         guided' # guided => guided # "transferring" /\ guided' # "transferring",
         guided' # "closed" \/ pending' => controller = 1
  PROVE  RunsPart'
BY DEF ShellInv, RunsPart, SendersLive, KeepRuns

\* An operation begins.
LEMMA BeginRunKeeps ==
  ASSUME ShellInv, NEW kind \in Kinds, BeginRun(kind), controller' = controller,
         guided # "transferring", UNCHANGED pending,
         kind # "task" => controller = 1,
         IF kind = "transfer" THEN guided' = "transferring" /\ ~Busy ELSE UNCHANGED guided
  PROVE  RunsPart'
<1>. DEFINE op == [run |-> runs + 1, kind |-> kind, workspace |-> controller]
<1>1. /\ runs < MaxRuns /\ runs' = runs + 1 /\ active' = Append(active, op) /\ error' = 0
      /\ runs \in 0 .. MaxRuns /\ active \in Seq(Operations) /\ controller \in Workspaces
      /\ MaxRuns \in Nat
  BY ShellAssumption DEF BeginRun, Started, ShellInv, RunsPart, WorkspacePart
<1>2. op \in Operations /\ op.kind = kind /\ op.workspace = controller
  BY <1>1 DEF Operations
<1>. HIDE DEF op
<1>3. /\ active' \in Seq(Operations) /\ Len(active') = Len(active) + 1
      /\ \A k \in 1 .. Len(active) : active'[k] = active[k]
      /\ active'[Len(active')] = op
  BY <1>1, <1>2
<1>4. runs' \in 0 .. MaxRuns /\ error' \in 0 .. MaxRuns
  BY <1>1
<1>5. \A k \in 1 .. Len(active') : k \in 1 .. Len(active) \/ k = Len(active')
  BY <1>1, <1>3
<1>6. \A k \in 1 .. Len(active) : active[k].kind # "transfer"
  BY DEF ShellInv, RunsPart, SendersLive
<1>7. kind = "transfer" => Len(active') = 1 /\ active'[1].kind = "transfer"
  BY <1>1, <1>2, <1>3 DEF Busy
<1>8. guided' = "transferring" => kind = "transfer"
  OBVIOUS
<1>9. guided' # "closed" \/ pending' => controller' = 1
  BY DEF ShellInv, RunsPart, SendersLive
<1>10. \A k \in 1 .. Len(active') :
         /\ active'[k].kind \in {"send", "transfer"} =>
              controller' = 1 /\ active'[k].workspace = 1
         /\ active'[k].kind = "transfer" => guided' = "transferring"
  <2>. SUFFICES ASSUME NEW k \in 1 .. Len(active')
                PROVE  /\ active'[k].kind \in {"send", "transfer"} =>
                            controller' = 1 /\ active'[k].workspace = 1
                       /\ active'[k].kind = "transfer" => guided' = "transferring"
    OBVIOUS
  <2>1. CASE k \in 1 .. Len(active)
    BY <1>3, <1>6, <2>1 DEF ShellInv, RunsPart, SendersLive
  <2>2. CASE k = Len(active')
    BY <1>2, <1>3, <2>2 DEF Kinds
  <2>. QED
    BY <1>5, <2>1, <2>2
<1>. QED
  BY <1>3, <1>4, <1>7, <1>8, <1>9, <1>10 DEF RunsPart, SendersLive

\* An operation ends.
LEMMA EndRunKeeps ==
  ASSUME ShellInv, NEW k \in 1 .. Len(active), NEW ok \in BOOLEAN, EndRun(k, ok),
         controller' = controller, guided' # "transferring",
         guided' # "closed" => guided # "closed",
         guided = "transferring" => active[k].kind = "transfer",
         pending' => pending
  PROVE  RunsPart'
<1>1. /\ active \in Seq(Operations) /\ runs \in 0 .. MaxRuns /\ error \in 0 .. MaxRuns
      /\ MaxRuns \in Nat /\ SendersLive
  BY ShellAssumption DEF ShellInv, RunsPart
<1>2. active[k].run \in 1 .. MaxRuns
  <2>1. active[k] \in Operations
    BY <1>1
  <2>. QED
    BY <2>1 DEF Operations
<1>3. error' \in 0 .. MaxRuns
  BY <1>1, <1>2 DEF EndRun, FailureShown
<1>4. /\ active' \in Seq(Operations) /\ Len(active') = Len(active) - 1
      /\ \A i \in 1 .. Len(active') : \E j \in 1 .. Len(active) : active'[i] = active[j]
  BY <1>1, RemoveAtIs DEF EndRun
<1>5. guided = "transferring" => Len(active') = 0
  BY <1>1, <1>4 DEF SendersLive
<1>6. \A i \in 1 .. Len(active') :
        /\ active'[i].kind \in {"send", "transfer"} =>
             controller' = 1 /\ active'[i].workspace = 1
        /\ active'[i].kind = "transfer" => guided' = "transferring"
  <2>. SUFFICES ASSUME NEW i \in 1 .. Len(active')
                PROVE  /\ active'[i].kind \in {"send", "transfer"} =>
                            controller' = 1 /\ active'[i].workspace = 1
                       /\ active'[i].kind = "transfer" => guided' = "transferring"
    OBVIOUS
  <2>1. PICK j \in 1 .. Len(active) : active'[i] = active[j]
    BY <1>4
  <2>2. guided # "transferring"
    <3>1. Len(active') # 0
      BY <1>4
    <3>. QED
      BY <1>5, <3>1
  <2>. QED
    BY <1>1, <2>1, <2>2 DEF SendersLive
<1>. QED
  BY <1>1, <1>3, <1>4, <1>6 DEF RunsPart, SendersLive, EndRun

\* A step that opens and closes nothing
LEMMA OverlayStays ==
  ASSUME ShellInv, KeepOverlay, UNCHANGED <<continued, report, pending>>,
         guided' = "closed" <=> guided = "closed"
  PROVE  OverlayPart'
BY DEF ShellInv, OverlayPart, OverlaysMatch, HistoryMatches, KeepOverlay

\* The route of another page or workspace
LEMMA RouteKeeps ==
  ASSUME ShellInv, overlay = "none", backs = 0, history' = Append(history, "route"),
         UNCHANGED <<overlay, backs, continued, report, pending, guided>>
  PROVE  OverlayPart'
<1>1. "route" \in Entries /\ history \in Seq(Entries)
  BY DEF ShellInv, OverlayPart, Entries
<1>2. history' \in Seq(Entries) /\ (Plain(history) => Plain(history'))
  BY <1>1, AppendIs
<1>. QED
  BY <1>2 DEF ShellInv, OverlayPart, OverlaysMatch, HistoryMatches

\* A dialog opens with its overlay (_openOverlay).
LEMMA OpenedKeeps ==
  ASSUME ShellInv, NEW kind \in Overlays, overlay = "none", backs = 0, OpenOverlay(kind),
         kind = "report" <=> report', kind = "send" <=> pending',
         kind = "guided" <=> guided' # "closed", UNCHANGED continued
  PROVE  OverlayPart'
<1>1. "overlay" \in Entries /\ history \in Seq(Entries)
  BY DEF ShellInv, OverlayPart, Entries
<1>2. overlay' = kind /\ history' = Append(history, "overlay") /\ backs' = 0
  BY DEF OpenOverlay, Opened, SetOverlay
<1>3. history' \in Seq(Entries) /\ (Plain(history) => Marked(history'))
  BY <1>1, <1>2, AppendIs
<1>4. overlay' \in Overlays \cup {"none"} /\ overlay' # "none"
  BY <1>2 DEF Overlays
<1>5. HistoryMatches => HistoryMatches'
  BY <1>2, <1>3, <1>4 DEF HistoryMatches
<1>6. OverlaysMatch'
  BY <1>2 DEF OverlaysMatch
<1>. QED
  BY <1>2, <1>3, <1>4, <1>5, <1>6 DEF ShellInv, OverlayPart

\* A dialog closes with its overlay, whose entry stays until the browser goes back (_closeOverlay).
LEMMA ClosedKeeps ==
  ASSUME ShellInv, overlay # "none", backs = 0, CloseOverlay(overlay),
         ~report', ~pending', guided' = "closed", UNCHANGED continued
  PROVE  OverlayPart'
<1>1. overlay' = "none" /\ history' = history /\ backs' = 1
  BY DEF CloseOverlay, Closed, SetOverlay
<1>. QED
  BY <1>1 DEF ShellInv, OverlayPart, OverlaysMatch, HistoryMatches

\* What a Back does to the overlay, the dialogs and the history
LEMMA PopKeeps ==
  ASSUME ShellInv, Len(history) > 1, HandlePop(Front(history)),
         backs' = 0, backs = 1 \/ backs = 0, UNCHANGED continued
  PROVE  /\ OverlayPart' /\ DialogPart'
         /\ guided' # guided => guided # "transferring" /\ guided' = "closed"
         /\ pending' => pending
<1>. DEFINE before == Front(history)
<1>1. /\ history \in Seq(Entries) /\ Len(history) > 0 /\ OverlaysMatch /\ DialogPart
      /\ "overlay" \in Entries
  BY DEF ShellInv, OverlayPart, Entries
<1>2. /\ before \in Seq(Entries)
      /\ Plain(history) \/ Marked(history) => Plain(before)
  BY <1>1, FrontIs, FrontIsPlain
<1>3. ~continued => Plain(before)
  BY <1>2 DEF ShellInv, OverlayPart, HistoryMatches
<1>4. /\ Append(before, "overlay") \in Seq(Entries)
      /\ Plain(before) => Marked(Append(before, "overlay"))
  BY <1>1, <1>2, AppendIs
<1>5. HandlePop(before)
  OBVIOUS
<1>. HIDE DEF before
<1>6. CASE overlay = "report"
  <2>1. report' = FALSE /\ overlay' = "none" /\ history' = before /\ UNCHANGED <<pending, guided>>
    BY <1>5, <1>6 DEF HandlePop
  <2>2. OverlaysMatch'
    BY <1>1, <1>6, <2>1 DEF OverlaysMatch
  <2>3. HistoryMatches' \/ continued'
    BY <1>3, <2>1 DEF HistoryMatches
  <2>4. overlay' \in Overlays \cup {"none"} /\ backs' \in 0 .. 1
    BY <2>1
  <2>5. DialogPart'
    BY <1>1, <2>1 DEF DialogPart
  <2>. QED
    BY <1>2, <2>1, <2>2, <2>3, <2>4, <2>5 DEF OverlayPart
<1>7. CASE overlay = "send"
  <2>1. pending' = FALSE /\ overlay' = "none" /\ history' = before /\ UNCHANGED <<report, guided>>
    BY <1>5, <1>7 DEF HandlePop
  <2>2. OverlaysMatch'
    BY <1>1, <1>7, <2>1 DEF OverlaysMatch
  <2>3. HistoryMatches' \/ continued'
    BY <1>3, <2>1 DEF HistoryMatches
  <2>4. overlay' \in Overlays \cup {"none"} /\ backs' \in 0 .. 1
    BY <2>1
  <2>5. DialogPart'
    BY <1>1, <2>1 DEF DialogPart
  <2>. QED
    BY <1>2, <2>1, <2>2, <2>3, <2>4, <2>5 DEF OverlayPart
<1>8. CASE overlay = "guided" /\ guided = "transferring"
  <2>1. /\ history' = Append(before, "overlay")
        /\ UNCHANGED <<overlay, report, pending, guided>>
    BY <1>5, <1>8 DEF HandlePop
  <2>2. history' \in Seq(Entries) /\ (~continued => Marked(history'))
    BY <1>3, <1>4, <2>1
  <2>3. HistoryMatches' \/ continued'
    BY <1>8, <2>1, <2>2 DEF HistoryMatches
  <2>4. OverlaysMatch'
    BY <1>1, <1>8, <2>1 DEF OverlaysMatch
  <2>5. overlay' \in Overlays \cup {"none"} /\ backs' \in 0 .. 1
    BY <1>8, <2>1 DEF Overlays
  <2>. QED
    BY <1>1, <2>1, <2>2, <2>3, <2>4, <2>5 DEF OverlayPart, DialogPart
<1>9. CASE overlay = "guided" /\ guided # "transferring"
  <2>1. /\ guided' = "closed" /\ overlay' = "none" /\ history' = before
        /\ UNCHANGED <<report, pending>>
    BY <1>5, <1>9 DEF HandlePop
  <2>. QED
    BY <1>1, <1>2, <1>3, <1>9, <2>1
    DEF OverlayPart, DialogPart, OverlaysMatch, HistoryMatches, Dialogs
<1>10. CASE overlay = "none"
  <2>1. history' = before /\ UNCHANGED <<overlay, report, pending, guided>>
    BY <1>5, <1>10 DEF HandlePop
  <2>. QED
    BY <1>1, <1>2, <1>3, <1>10, <2>1
    DEF OverlayPart, DialogPart, OverlaysMatch, HistoryMatches
<1>. QED
  BY <1>6, <1>7, <1>8, <1>9, <1>10 DEF ShellInv, OverlayPart, Overlays

\* No dialog is open where the page responds.
LEMMA NothingOpen ==
  ASSUME ShellInv, PageResponds
  PROVE  /\ overlay = "none" /\ backs = 0 /\ guided = "closed" /\ ~report /\ ~pending
         /\ \A k \in 1 .. Len(active) : active[k].kind # "transfer"
BY DEF ShellInv, OverlayPart, OverlaysMatch, DialogPart, RunsPart, SendersLive, PageResponds,
       DialogOpen, Overlays

\* An offline workspace gets a number that no other had (importBundle, retire).
LEMMA ImportBundleKeeps ==
  ASSUME ShellInv, ImportBundle
  PROVE  WorkspacePart' /\ RunsPart'
<1>. DEFINE staying == IF controller = 1 /\ connected THEN 1 ELSE live
<1>1. PICK n \in 0 .. MaxOffline : Used = 2 .. n + 1
  BY DEF ShellInv, WorkspacePart
<1>2. n \in Nat /\ n <= MaxOffline /\ MaxOffline \in Nat /\ Workspaces = 1 .. MaxOffline + 1
  BY ShellAssumption DEF Workspaces
<1>3. Cardinality(Used) = n
  <2>1. Cardinality(2 .. n + 1) = IF 2 > n + 1 THEN 0 ELSE (n + 1) - 2 + 1
    BY <1>2, FS_Interval
  <2>. QED
    BY <1>1, <1>2, <2>1
<1>4. Offline = n + 1
  BY <1>2, <1>3 DEF Offline, Used
<1>5. /\ live' = staying /\ controller' = n + 2 /\ n + 1 < MaxOffline + 1 /\ active = <<>>
      /\ retired' = Retired(controller, staying) /\ guided = "closed" /\ ~pending
      /\ UNCHANGED <<runs, active, error, report, pending, guided>>
  BY <1>2, <1>4 DEF ImportBundle, ImportRefused, Busy, DialogOpen, KeepRuns, KeepDialogs
<1>6. /\ controller \in 1 .. MaxOffline + 1 /\ controller \notin retired /\ live \in {0, 1}
      /\ retired \subseteq 1 .. MaxOffline + 1
      /\ live = 1 => controller # 1 /\ 1 \notin retired
  BY <1>2 DEF ShellInv, WorkspacePart
<1>7. \A w \in 1 .. MaxOffline + 1 : w # 1 => (w \in retired \/ w = controller <=> w <= n + 1)
  <2>. SUFFICES ASSUME NEW w \in 1 .. MaxOffline + 1, w # 1
                PROVE  w \in retired \/ w = controller <=> w <= n + 1
    OBVIOUS
  <2>1. w \in Used <=> w \in retired \/ w = controller
    BY <1>2 DEF Used
  <2>2. w \in 2 .. n + 1 <=> w <= n + 1
    BY <1>2
  <2>. QED
    BY <1>1, <2>1, <2>2
<1>8. staying \in {0, 1} /\ (staying = 1 => 1 \notin retired) /\ (controller # 1 => staying # controller)
      /\ (staying # 1 => staying # controller)
  BY <1>6
<1>. HIDE DEF staying
<1>9. /\ retired' \subseteq retired \cup {controller}
      /\ controller # 1 => retired' = retired \cup {controller}
      /\ retired \subseteq retired'
      /\ staying = 1 => 1 \notin retired'
  BY <1>5, <1>6, <1>8 DEF Retired
<1>10. n + 2 \in 1 .. MaxOffline + 1 /\ n + 1 \in 0 .. MaxOffline /\ n + 2 # 1
  BY <1>2, <1>5
<1>11. n + 2 \notin retired'
  <2>1. ~(n + 2 <= n + 1)
    BY <1>2
  <2>. QED
    BY <1>7, <1>9, <1>10, <2>1
<1>12. Used' = 2 .. (n + 1) + 1
  <2>1. ASSUME NEW w \in 1 .. MaxOffline + 1, w # 1
        PROVE  (w \in retired' \/ w = n + 2) <=> w <= n + 2
    <3>1. w \in retired' \/ w = n + 2 <=> w \in retired \/ w = controller \/ w = n + 2
      BY <1>9, <2>1
    <3>2. w <= n + 1 \/ w = n + 2 <=> w <= n + 2
      BY <1>2
    <3>. QED
      BY <1>7, <2>1, <3>1, <3>2
  <2>2. \A w : w \in Used' <=>
               w \in 1 .. MaxOffline + 1 /\ w # 1 /\ (w \in retired' \/ w = n + 2)
    BY <1>2, <1>5 DEF Used, Workspaces
  <2>3. \A w : w \in 2 .. (n + 1) + 1 <=> w \in 1 .. MaxOffline + 1 /\ w # 1 /\ w <= n + 2
    BY <1>2, <1>10
  <2>. QED
    BY <2>1, <2>2, <2>3
<1>13. WorkspacePart'
  <2>1. controller' \in Workspaces' /\ retired' \subseteq Workspaces' /\ live' \in {0, 1}
    BY <1>2, <1>5, <1>6, <1>8, <1>9, <1>10 DEF Workspaces
  <2>2. live' = 1 => controller' # 1 /\ 1 \notin retired'
    BY <1>5, <1>9, <1>10
  <2>. QED
    BY <1>5, <1>10, <1>11, <1>12, <2>1, <2>2 DEF WorkspacePart
<1>14. RunsPart'
  BY <1>5 DEF ShellInv, RunsPart, SendersLive
<1>. QED
  BY <1>13, <1>14

\* The live workspace was spared, so that it can be returned to (returnToLiveWorkspace).
LEMMA ReturnToLiveKeeps ==
  ASSUME ShellInv, ReturnToLive
  PROVE  WorkspacePart' /\ RunsPart'
<1>1. /\ live = 1 /\ controller' = 1 /\ live' = 0 /\ controller # 1 /\ 1 \notin retired
      /\ retired' = retired \cup {controller} /\ controller \in Workspaces
      /\ retired \subseteq Workspaces /\ Workspaces' = Workspaces
      /\ UNCHANGED <<runs, active, error, pending, guided>>
  BY DEF ReturnToLive, ShellInv, WorkspacePart, KeepRuns, KeepDialogs, Workspaces
<1>2. Used' = Used
  BY <1>1 DEF Used
<1>3. 1 \in Workspaces
  BY ShellAssumption DEF Workspaces
<1>4. WorkspacePart'
  BY <1>1, <1>2, <1>3 DEF WorkspacePart, ShellInv
<1>5. RunsPart'
  BY <1>1 DEF ShellInv, RunsPart, SendersLive
<1>. QED
  BY <1>4, <1>5

\* Steps of the dialogs and of the history
LEMMA HistoryStepsKeep ==
  ASSUME ShellInv, UNCHANGED continued,
         Navigate \/ Traverse \/ UserBack \/ OpenReport \/ CloseReport \/ CancelSend
           \/ StartGuided \/ SubmitGuided \/ CloseGuided
  PROVE  ShellInv'
<1>1. /\ connected' = connected /\ UNCHANGED <<controller, live, retired>> /\ KeepRuns
      /\ connected \in BOOLEAN /\ DialogPart
  BY DEF Navigate, Traverse, UserBack, OpenReport, CloseReport, CancelSend, StartGuided,
         SubmitGuided, CloseGuided, KeepWorkspace, ShellInv
<1>2. WorkspacePart'
  BY <1>1, WorkspacesStay
<1>3. ASSUME guided' # guided => guided # "transferring" /\ guided' # "transferring",
             guided' # "closed" \/ pending' => controller = 1
      PROVE  RunsPart'
  BY <1>1, <1>3, RunsStay
<1>4. guided # "closed" \/ pending => controller = 1
  BY DEF ShellInv, RunsPart, SendersLive
<1>5. OverlaysMatch /\ (overlay # "none" => overlay \in Overlays)
  BY DEF ShellInv, OverlayPart
<1>6. CASE Navigate
  <2>1. OverlayPart'
    BY <1>6, NothingOpen, RouteKeeps DEF Navigate, KeepDialogs
  <2>2. UNCHANGED <<report, pending, guided>>
    BY <1>6 DEF Navigate, KeepDialogs
  <2>. QED
    BY <1>1, <1>2, <1>3, <1>4, <2>1, <2>2 DEF ShellInv, DialogPart
<1>7. CASE Traverse \/ UserBack
  <2>1. /\ Len(history) > 1 /\ HandlePop(Front(history)) /\ backs' = 0
        /\ backs = 1 \/ backs = 0
    BY <1>7 DEF Traverse, UserBack, ShellInv, OverlayPart
  <2>2. /\ OverlayPart' /\ DialogPart'
        /\ guided' # guided => guided # "transferring" /\ guided' = "closed"
        /\ pending' => pending
    BY <2>1, PopKeeps
  <2>. QED
    BY <1>1, <1>2, <1>3, <1>4, <2>2 DEF ShellInv
<1>8. CASE OpenReport
  <2>1. /\ overlay = "none" /\ backs = 0 /\ guided = "closed" /\ ~pending
        /\ report' /\ UNCHANGED <<pending, guided>> /\ OpenOverlay("report")
    BY <1>8, NothingOpen DEF OpenReport
  <2>2. OverlayPart'
    BY <2>1, OpenedKeeps DEF Overlays
  <2>3. DialogPart'
    BY <1>1, <1>8 DEF OpenReport, DialogPart
  <2>. QED
    BY <1>1, <1>2, <1>3, <1>4, <2>1, <2>2, <2>3 DEF ShellInv
<1>9. CASE CloseReport
  <2>1. /\ overlay = "report" /\ backs = 0 /\ ~report' /\ guided' = "closed" /\ ~pending'
        /\ guided' = guided /\ CloseOverlay(overlay) /\ pending' = pending
    BY <1>1, <1>5, <1>9 DEF CloseReport, OverlaysMatch, DialogPart
  <2>2. OverlayPart'
    BY <2>1, ClosedKeeps
  <2>3. DialogPart'
    BY <1>1, <1>9 DEF CloseReport, DialogPart
  <2>. QED
    BY <1>1, <1>2, <1>3, <1>4, <2>1, <2>2, <2>3 DEF ShellInv
<1>10. CASE CancelSend
  <2>1. /\ overlay = "send" /\ backs = 0 /\ ~report' /\ guided' = "closed" /\ ~pending'
        /\ guided' = guided /\ CloseOverlay(overlay)
    BY <1>1, <1>5, <1>10 DEF CancelSend, OverlaysMatch, DialogPart
  <2>2. OverlayPart'
    BY <2>1, ClosedKeeps
  <2>3. DialogPart'
    BY <1>1, <1>10 DEF CancelSend, DialogPart
  <2>. QED
    BY <1>1, <1>2, <1>3, <1>4, <2>1, <2>2, <2>3 DEF ShellInv
<1>11. CASE StartGuided
  <2>1. /\ overlay = "none" /\ backs = 0 /\ guided = "closed" /\ ~pending' /\ ~report'
        /\ guided' = "about" /\ OpenOverlay("guided") /\ controller = 1
    BY <1>11, NothingOpen DEF StartGuided
  <2>2. OverlayPart'
    BY <2>1, OpenedKeeps DEF Overlays
  <2>3. DialogPart'
    BY <1>1, <1>11 DEF StartGuided, DialogPart, Dialogs
  <2>. QED
    BY <1>1, <1>2, <1>3, <1>4, <2>1, <2>2, <2>3 DEF ShellInv
<1>12. CASE SubmitGuided
  <2>1. /\ guided = "observing" /\ guided' = "over" /\ UNCHANGED <<report, pending>>
        /\ KeepOverlay
    BY <1>12 DEF SubmitGuided
  <2>2. OverlayPart'
    BY <2>1, OverlayStays
  <2>3. DialogPart'
    BY <1>1, <2>1 DEF DialogPart, Dialogs
  <2>. QED
    BY <1>1, <1>2, <1>3, <1>4, <2>1, <2>2, <2>3 DEF ShellInv
<1>13. CASE CloseGuided
  <2>1. /\ overlay = "guided" /\ backs = 0 /\ ~report' /\ guided' = "closed" /\ ~pending'
        /\ guided # "transferring" /\ CloseOverlay(overlay)
    BY <1>1, <1>5, <1>13 DEF CloseGuided, OverlaysMatch, DialogPart
  <2>2. OverlayPart'
    BY <2>1, ClosedKeeps
  <2>3. DialogPart'
    BY <1>1, <1>13 DEF CloseGuided, DialogPart, Dialogs
  <2>. QED
    BY <1>1, <1>2, <1>3, <1>4, <2>1, <2>2, <2>3 DEF ShellInv
<1>. QED
  BY <1>6, <1>7, <1>8, <1>9, <1>10, <1>11, <1>12, <1>13

\* The next test opens in place: the overlay has an entry more than the dialogs.
LEMMA ContinueGuidedKeeps ==
  ASSUME ShellInv, ContinueGuided
  PROVE  ShellInv'
<1>1. /\ guided = "over" /\ backs = 0 /\ guided' = "about" /\ continued' = TRUE
      /\ overlay' = "guided" /\ history' = Append(history, "overlay") /\ backs' = 1
      /\ UNCHANGED <<report, pending, controller, live, retired, connected>> /\ KeepRuns
  BY DEF ContinueGuided, SetOverlay, Opened, KeepWorkspace
<1>2. history' \in Seq(Entries) /\ OverlaysMatch /\ overlay = "guided"
  BY <1>1 DEF ShellInv, OverlayPart, OverlaysMatch, Entries
<1>3. OverlaysMatch'
  BY <1>1, <1>2 DEF OverlaysMatch
<1>4. OverlayPart'
  BY <1>1, <1>2, <1>3 DEF OverlayPart, Overlays
<1>5. DialogPart'
  BY <1>1 DEF ShellInv, DialogPart, Dialogs
<1>6. WorkspacePart'
  BY <1>1, WorkspacesStay
<1>7. guided # "closed" => controller = 1
  BY DEF ShellInv, RunsPart, SendersLive
<1>8. RunsPart'
  BY <1>1, <1>7, RunsStay
<1>. QED
  BY <1>1, <1>4, <1>5, <1>6, <1>8 DEF ShellInv

\* Steps of the operations
LEMMA OperationsKeep ==
  ASSUME ShellInv, UNCHANGED continued,
         StartTask \/ EndTask \/ LoseConnection \/ ConfirmSend \/ EndSend
           \/ BeginTransfer \/ EndTransfer
  PROVE  ShellInv'
<1>1. UNCHANGED <<controller, live, retired>> /\ connected' \in BOOLEAN /\ DialogPart
  BY DEF StartTask, EndTask, LoseConnection, ConfirmSend, EndSend, BeginTransfer, EndTransfer,
         KeepWorkspace, ShellInv
<1>2. WorkspacePart'
  BY <1>1, WorkspacesStay
<1>3. /\ guided # "closed" \/ pending => controller = 1
      /\ active \in Seq(Operations) /\ DOMAIN active = 1 .. Len(active)
      /\ OverlaysMatch
      /\ guided = "transferring" => Len(active) = 1 /\ active[1].kind = "transfer"
      /\ \A k \in 1 .. Len(active) : active[k].kind = "transfer" => guided = "transferring"
  BY DEF ShellInv, RunsPart, SendersLive, OverlayPart
<1>4. ASSUME KeepOverlay, KeepDialogs
      PROVE  OverlayPart' /\ DialogPart'
  <2>1. UNCHANGED <<report, pending, guided>>
    BY <1>4 DEF KeepDialogs
  <2>. QED
    BY <1>1, <1>4, <2>1, OverlayStays DEF DialogPart
<1>5. CASE StartTask
  <2>1. guided # "transferring" /\ KeepOverlay /\ KeepDialogs /\ BeginRun("task")
    BY <1>5, NothingOpen DEF StartTask
  <2>2. RunsPart'
    BY <1>1, <2>1, BeginRunKeeps DEF Kinds, KeepDialogs
  <2>. QED
    BY <1>1, <1>2, <1>4, <2>1, <2>2 DEF ShellInv
<1>6. CASE EndTask
  <2>1. PICK k \in 1 .. Len(active), ok \in BOOLEAN : active[k].kind = "task" /\ EndRun(k, ok)
    BY <1>3, <1>6 DEF EndTask
  <2>2. KeepOverlay /\ KeepDialogs
    BY <1>6 DEF EndTask
  <2>3. UNCHANGED <<pending, guided>>
    BY <2>2 DEF KeepDialogs
  <2>4. guided # "transferring"
    BY <1>3, <2>1
  <2>5. RunsPart'
    BY <1>1, <2>1, <2>3, <2>4, EndRunKeeps
  <2>. QED
    BY <1>1, <1>2, <1>4, <2>2, <2>5 DEF ShellInv
<1>7. CASE LoseConnection
  <2>1. KeepRuns /\ KeepOverlay /\ KeepDialogs
    BY <1>7 DEF LoseConnection
  <2>2. RunsPart'
    BY <1>1, <1>3, <2>1, RunsStay DEF KeepDialogs
  <2>. QED
    BY <1>1, <1>2, <1>4, <2>1, <2>2 DEF ShellInv
<1>8. CASE ConfirmSend
  <2>1. pending /\ BeginRun("send") /\ KeepOverlay /\ KeepDialogs
    BY <1>8 DEF ConfirmSend
  <2>2. guided = "closed" /\ controller = 1
    BY <1>1, <1>3, <2>1 DEF OverlaysMatch, DialogPart
  <2>3. RunsPart'
    BY <1>1, <2>1, <2>2, BeginRunKeeps DEF Kinds, KeepDialogs
  <2>. QED
    BY <1>1, <1>2, <1>4, <2>1, <2>3 DEF ShellInv
<1>9. CASE EndSend
  <2>1. PICK k \in 1 .. Len(active), ok \in BOOLEAN :
          /\ active[k].kind = "send" /\ EndRun(k, ok)
          /\ IF ok THEN pending' = FALSE /\ CloseOverlay("send")
             ELSE UNCHANGED pending /\ KeepOverlay
    BY <1>3, <1>9 DEF EndSend
  <2>2. UNCHANGED <<report, guided>>
    BY <1>9 DEF EndSend
  <2>3. guided # "transferring"
    BY <1>3, <2>1
  <2>4. pending' => pending
    BY <2>1
  <2>5. RunsPart'
    BY <1>1, <2>1, <2>2, <2>3, <2>4, EndRunKeeps
  <2>6. OverlayPart' /\ DialogPart'
    <3>1. CASE ~ok
      <4>1. UNCHANGED pending /\ KeepOverlay
        BY <2>1, <3>1
      <4>. QED
        BY <1>1, <2>2, <4>1, OverlayStays DEF DialogPart
    <3>2. CASE ok /\ overlay = "send"
      <4>1. pending' = FALSE /\ CloseOverlay(overlay)
        BY <2>1, <3>2
      <4>2. ~report /\ guided = "closed" /\ backs = 0
        BY <1>1, <1>3, <3>2 DEF OverlaysMatch, DialogPart
      <4>. QED
        BY <1>1, <2>2, <3>2, <4>1, <4>2, ClosedKeeps DEF DialogPart
    <3>3. CASE ok /\ overlay # "send"
      <4>1. pending' = FALSE /\ KeepOverlay
        BY <2>1, <3>3 DEF CloseOverlay, Closed, SetOverlay, KeepOverlay
      <4>2. pending = FALSE
        BY <1>1, <1>3, <3>3 DEF OverlaysMatch, DialogPart
      <4>. QED
        BY <1>1, <2>2, <4>1, <4>2, OverlayStays DEF DialogPart
    <3>. QED
      BY <3>1, <3>2, <3>3
  <2>. QED
    BY <1>1, <1>2, <2>5, <2>6 DEF ShellInv
<1>10. CASE BeginTransfer
  <2>1. /\ guided = "about" /\ ~Busy /\ guided' = "transferring" /\ BeginRun("transfer")
        /\ UNCHANGED <<report, pending>> /\ KeepOverlay
    BY <1>10 DEF BeginTransfer
  <2>2. RunsPart'
    BY <1>1, <1>3, <2>1, BeginRunKeeps DEF Kinds
  <2>3. OverlayPart'
    BY <2>1, OverlayStays
  <2>4. DialogPart'
    BY <1>1, <2>1 DEF DialogPart, Dialogs
  <2>. QED
    BY <1>1, <1>2, <2>2, <2>3, <2>4 DEF ShellInv
<1>11. CASE EndTransfer
  <2>1. PICK k \in 1 .. Len(active), ok \in BOOLEAN :
          /\ active[k].kind = "transfer" /\ EndRun(k, ok)
          /\ guided' = IF ok THEN "observing" ELSE "over"
    BY <1>3, <1>11 DEF EndTransfer
  <2>2. UNCHANGED <<report, pending>> /\ KeepOverlay
    BY <1>11 DEF EndTransfer
  <2>3. guided = "transferring" /\ guided' \in {"observing", "over"}
    BY <1>3, <2>1
  <2>4. RunsPart'
    BY <1>1, <2>1, <2>2, <2>3, EndRunKeeps
  <2>5. OverlayPart'
    BY <2>2, <2>3, OverlayStays
  <2>6. DialogPart'
    BY <1>1, <2>2, <2>3 DEF DialogPart, Dialogs
  <2>. QED
    BY <1>1, <1>2, <2>4, <2>5, <2>6 DEF ShellInv
<1>. QED
  BY <1>5, <1>6, <1>7, <1>8, <1>9, <1>10, <1>11

\* A send begins or awaits its confirmation.
LEMMA RequestSendKeeps ==
  ASSUME ShellInv, UNCHANGED continued, NEW verified \in BOOLEAN, RequestSend(verified)
  PROVE  ShellInv'
<1>1. /\ UNCHANGED <<controller, live, retired>> /\ connected' \in BOOLEAN /\ DialogPart
      /\ overlay = "none" /\ backs = 0 /\ guided = "closed" /\ ~report /\ ~pending
      /\ controller = 1
  BY NothingOpen DEF RequestSend, KeepWorkspace, ShellInv
<1>2. WorkspacePart'
  BY <1>1, WorkspacesStay
<1>3. CASE verified
  <2>1. BeginRun("send") /\ KeepOverlay /\ UNCHANGED <<report, pending, guided>>
    BY <1>3 DEF RequestSend, KeepDialogs
  <2>2. RunsPart'
    BY <1>1, <2>1, BeginRunKeeps DEF Kinds
  <2>3. OverlayPart'
    BY <2>1, OverlayStays
  <2>. QED
    BY <1>1, <1>2, <2>1, <2>2, <2>3 DEF ShellInv, DialogPart
<1>4. CASE ~verified
  <2>1. pending' = TRUE /\ OpenOverlay("send") /\ UNCHANGED <<report, guided>> /\ KeepRuns
    BY <1>4 DEF RequestSend
  <2>2. RunsPart'
    BY <1>1, <2>1, RunsStay
  <2>3. OverlayPart'
    BY <1>1, <2>1, OpenedKeeps DEF Overlays
  <2>. QED
    BY <1>1, <1>2, <2>1, <2>2, <2>3 DEF ShellInv, DialogPart
<1>. QED
  BY <1>3, <1>4

\* Steps that change the workspace leave a new route.
LEMMA WorkspaceStepsKeep ==
  ASSUME ShellInv, UNCHANGED continued, ImportBundle \/ ReturnToLive
  PROVE  ShellInv'
<1>1. WorkspacePart' /\ RunsPart'
  BY ImportBundleKeeps, ReturnToLiveKeeps
<1>2. /\ history' = Append(history, "route") /\ UNCHANGED <<connected, overlay, backs>>
      /\ UNCHANGED <<report, pending, guided>> /\ backs = 0
      /\ guided = "closed" /\ ~report /\ ~pending
  BY NothingOpen DEF ImportBundle, ReturnToLive, KeepDialogs, PageResponds, DialogOpen
<1>3. overlay = "none"
  BY <1>2 DEF ShellInv, OverlayPart, OverlaysMatch, Overlays
<1>4. OverlayPart'
  BY <1>2, <1>3, RouteKeeps
<1>. QED
  BY <1>1, <1>2, <1>4 DEF ShellInv, DialogPart

\* Every step of the shell keeps the invariant.
LEMMA ShellNextInv == ShellInv /\ [ShellNext]_shellVars => ShellInv'
<1>. SUFFICES ASSUME ShellInv, [ShellNext]_shellVars
              PROVE  ShellInv'
  OBVIOUS
<1>1. CASE UNCHANGED shellVars
  <2>1. UNCHANGED <<controller, live, retired, connected, report, pending, guided, continued>>
        /\ KeepOverlay /\ KeepRuns
    BY <1>1 DEF shellVars, KeepOverlay, KeepRuns
  <2>2. guided # "closed" \/ pending => controller = 1
    BY DEF ShellInv, RunsPart, SendersLive
  <2>. QED
    BY <2>1, <2>2, WorkspacesStay, RunsStay, OverlayStays DEF ShellInv, DialogPart
<1>2. CASE ContinueGuided
  BY <1>2, ContinueGuidedKeeps
<1>3. CASE ShellStep /\ UNCHANGED continued
  BY <1>3, HistoryStepsKeep, OperationsKeep, RequestSendKeeps, WorkspaceStepsKeep DEF ShellStep
<1>. QED
  BY <1>1, <1>2, <1>3 DEF ShellNext

\* An overlay that is last in the history is its only one.
LEMMA OneOverlay ==
  ASSUME NEW h \in Seq(Entries)
  PROVE  /\ Plain(h) => Cardinality({k \in DOMAIN h : h[k] = "overlay"}) = 0
         /\ Marked(h) => /\ Cardinality({k \in DOMAIN h : h[k] = "overlay"}) = 1
                         /\ Last(h) = "overlay"
<1>. DEFINE O == {k \in DOMAIN h : h[k] = "overlay"}
<1>1. DOMAIN h = 1 .. Len(h) /\ Len(h) \in Nat
  OBVIOUS
<1>2. ASSUME Plain(h)
      PROVE  O = {}
  BY <1>1, <1>2 DEF Plain
<1>3. ASSUME Marked(h)
      PROVE  O = {Len(h)}
  <2>1. Len(h) \in O
    <3>1. Len(h) > 0 /\ h[Len(h)] = "overlay"
      BY <1>3 DEF Marked
    <3>2. Len(h) \in 1 .. Len(h)
      BY <1>1, <3>1
    <3>. QED
      BY <1>1, <3>1, <3>2
  <2>2. \A k \in O : k = Len(h)
    BY <1>1, <1>3 DEF Marked
  <2>. QED
    BY <2>1, <2>2
<1>. QED
  BY <1>2, <1>3, FS_EmptySet, FS_Singleton DEF Marked, Last

\* What the invariant says of the checked properties
LEMMA ShellInvGives == ShellInv => ShellTypeOK /\ ShellIsConsistent
<1>. SUFFICES ASSUME ShellInv
              PROVE  ShellTypeOK /\ ShellIsConsistent
  OBVIOUS
<1>1. ShellTypeOK
  <2>1. {report, pending, continued} \subseteq BOOLEAN
    BY DEF ShellInv, DialogPart
  <2>2. history \in Seq({"route", "overlay"})
    BY DEF ShellInv, OverlayPart, Entries
  <2>3. controller \in Workspaces /\ live \in {0, 1} /\ retired \subseteq Workspaces
    BY DEF ShellInv, WorkspacePart
  <2>. QED
    BY <2>1, <2>2, <2>3, Zenon DEF ShellTypeOK, ShellInv, OverlayPart, RunsPart, DialogPart
<1>2. OverlayIsTheOpenDialog
  <2>. SUFFICES ASSUME backs = 0, ~continued
                PROVE  OverlayIsTheOpenDialog
    BY DEF OverlayIsTheOpenDialog
  <2>1. /\ OverlaysMatch /\ history \in Seq(Entries)
        /\ IF overlay # "none" THEN Marked(history) ELSE Plain(history)
    BY DEF ShellInv, OverlayPart, HistoryMatches
  <2>. QED
    BY <2>1, OneOverlay DEF OverlayIsTheOpenDialog, OverlaysMatch
<1>3. WorkspaceInUseIsAlive
  <2>1. live \notin retired
    BY DEF ShellInv, WorkspacePart, Workspaces
  <2>2. DOMAIN active = 1 .. Len(active)
    BY DEF ShellInv, RunsPart
  <2>. QED
    BY <2>1, <2>2 DEF WorkspaceInUseIsAlive, ShellInv, WorkspacePart, RunsPart, SendersLive
<1>. QED
  BY <1>1, <1>2, <1>3 DEF ShellIsConsistent

------------------------------------------------------------------------------
(* The wake lock.                                                          *)

\* A lock is held by the handle of a transfer or by nobody.
LocksHeld == locks = IF handle = 0 THEN {} ELSE {handle}
NoneAfterwards == ~sending => handle = 0
LocksInv ==
  /\ asked \in 0 .. MaxLocks /\ handle \in 0 .. asked
  /\ asking \subseteq 1 .. asked /\ locks \subseteq 1 .. asked
  /\ LocksHeld /\ NoneAfterwards
WakeLockInv == {sending, listening, visible} \subseteq BOOLEAN /\ LocksInv

\* No lock is held at first.
LEMMA WakeLockInitInv == WakeLockInit => WakeLockInv
<1>. SUFFICES ASSUME WakeLockInit
              PROVE  WakeLockInv
  OBVIOUS
<1>1. {sending, listening, visible} \subseteq BOOLEAN
  <2>1. sending \in BOOLEAN /\ listening \in BOOLEAN /\ visible \in BOOLEAN
    BY DEF WakeLockInit
  <2>. QED
    BY <2>1
<1>2. LocksInv
  BY WakeLockAssumption DEF WakeLockInit, LocksInv, LocksHeld, NoneAfterwards
<1>. QED
  BY <1>1, <1>2 DEF WakeLockInv

\* What asking the browser for a lock changes
LEMMA RequestFacts ==
  ASSUME LocksInv, Request
  PROVE  /\ asked' \in 0 .. MaxLocks /\ asked' >= asked /\ asking' \subseteq 1 .. asked'
<1>1. asked \in Nat /\ asked <= MaxLocks /\ MaxLocks \in Nat
  BY WakeLockAssumption DEF LocksInv, LocksHeld, NoneAfterwards
<1>2. CASE handle = 0
  <2>1. asked < MaxLocks /\ asked' = asked + 1 /\ asking' = asking \cup {asked'}
    BY <1>2 DEF Request
  <2>2. asking \subseteq 1 .. asked + 1 /\ asked + 1 \in 1 .. asked + 1
    BY <1>1 DEF LocksInv, LocksHeld, NoneAfterwards
  <2>. QED
    BY <1>1, <2>1, <2>2
<1>3. CASE handle # 0
  <2>1. asked' = asked /\ asking' = asking
    BY <1>3 DEF Request
  <2>. QED
    BY <1>1, <2>1 DEF LocksInv, LocksHeld, NoneAfterwards
<1>. QED
  BY <1>2, <1>3

\* Every step of the wake lock keeps the invariant.
LEMMA WakeLockNextInv == WakeLockInv /\ [WakeLockNext]_wakeLockVars => WakeLockInv'
<1>. SUFFICES ASSUME WakeLockInv, [WakeLockNext]_wakeLockVars
              PROVE  WakeLockInv'
  OBVIOUS
<1>1. {sending', listening', visible'} \subseteq BOOLEAN
  <2>1. sending \in BOOLEAN /\ listening \in BOOLEAN /\ visible \in BOOLEAN
    BY DEF WakeLockInv
  <2>2. /\ sending' \in {sending, TRUE, FALSE} /\ listening' \in {listening, TRUE, FALSE}
        /\ visible' \in {visible, TRUE, FALSE}
    BY DEF WakeLockNext, Acquire, Release, Granted, Refused, PageHides, BrowserReleases,
           PageShows, wakeLockVars
  <2>. QED
    BY <2>1, <2>2
<1>2. CASE Acquire
  BY <1>2, RequestFacts DEF Acquire, WakeLockInv, LocksInv, LocksHeld, NoneAfterwards
<1>. asked \in Nat /\ 0 \in 0 .. asked
  BY WakeLockAssumption DEF WakeLockInv, LocksInv, LocksHeld, NoneAfterwards
<1>3. CASE Release
  <2>1. locks' = {}
    BY <1>3 DEF Release, WithoutHandle, WakeLockInv, LocksInv, LocksHeld, NoneAfterwards
  <2>. QED
    BY <1>3, <2>1 DEF Release, WakeLockInv, LocksInv, LocksHeld, NoneAfterwards
<1>4. CASE Granted
  BY <1>4 DEF Granted, WakeLockInv, LocksInv, LocksHeld, NoneAfterwards
<1>5. CASE Refused
  BY <1>5 DEF Refused, WakeLockInv, LocksInv, LocksHeld, NoneAfterwards
<1>6. CASE PageHides
  BY <1>6 DEF PageHides, WakeLockInv, LocksInv, LocksHeld, NoneAfterwards
<1>7. CASE BrowserReleases
  BY <1>7 DEF BrowserReleases, WakeLockInv, LocksInv, LocksHeld, NoneAfterwards
<1>8. CASE PageShows
  <2>1. /\ asked' \in 0 .. MaxLocks /\ asked' >= asked /\ asking' \subseteq 1 .. asked'
    <3>1. CASE listening /\ sending
      BY <1>8, <3>1, RequestFacts DEF PageShows, AskAgain, WakeLockInv
    <3>2. CASE ~(listening /\ sending)
      <4>1. asked' = asked /\ asking' = asking
        BY <1>8, <3>2 DEF PageShows, AskAgain
      <4>. QED
        BY <4>1 DEF WakeLockInv, LocksInv, LocksHeld, NoneAfterwards
    <3>. QED
      BY <3>1, <3>2
  <2>2. UNCHANGED <<sending, handle, locks>>
    BY <1>8 DEF PageShows
  <2>3. asked' \in Nat /\ handle \in 0 .. asked' /\ locks \subseteq 1 .. asked'
    BY <2>1, WakeLockAssumption DEF WakeLockInv, LocksInv, LocksHeld, NoneAfterwards
  <2>4. LocksHeld' /\ NoneAfterwards'
    BY <2>2 DEF WakeLockInv, LocksInv, LocksHeld, NoneAfterwards
  <2>5. handle' \in 0 .. asked' /\ locks' \subseteq 1 .. asked'
    BY <2>2, <2>3
  <2>6. /\ asked' \in 0 .. MaxLocks /\ handle' \in 0 .. asked'
        /\ asking' \subseteq 1 .. asked' /\ locks' \subseteq 1 .. asked'
    BY <2>1, <2>5
  <2>. QED
    BY <1>1, <2>4, <2>6 DEF LocksInv, WakeLockInv
<1>9. CASE UNCHANGED wakeLockVars
  BY <1>9 DEF wakeLockVars, WakeLockInv, LocksInv, LocksHeld, NoneAfterwards
<1>10. LocksInv'
  BY <1>2, <1>3, <1>4, <1>5, <1>6, <1>7, <1>8, <1>9 DEF WakeLockNext, WakeLockInv
<1>. QED
  BY <1>1, <1>10 DEF WakeLockInv

\* What the invariant says of the checked properties
LEMMA WakeLockInvGives == WakeLockInv => WakeLockTypeOK /\ NoLockIsLeaked
BY DEF WakeLockInv, LocksInv, LocksHeld, NoneAfterwards, WakeLockTypeOK, NoLockIsLeaked

------------------------------------------------------------------------------
(* The image editor.                                                       *)

\* A setting was changed while a picture was shown, and its call is about to process it again.
Reprocessing(c) == job[c].stage = "importing" /\ job[c].kind = "reprocess"
Reprocessors == {c \in Loads : Reprocessing(c)}

\* A call that will find a later version
Overtaken(c) == job[c].version < version
Behind(c) == job[c].stage # "idle" => Reprocessing(c) \/ Overtaken(c)

\* A call that will show the file chosen last with the settings there are
Fitting(c) ==
  /\ job[c].stage = "fitting" /\ job[c].fit = settings.fit /\ settings.mode = "legacy"
Leading(c) ==
  \/ Reprocessing(c) /\ source = wanted
  \/ /\ job[c].file = wanted /\ Fresh(c)
     /\ (job[c].kind = "load" /\ job[c].stage \in {"importing", "decoding"}) \/ Fitting(c)

TargetShown ==
  source = wanted /\ image = [file |-> wanted, mode |-> settings.mode, fit |-> settings.fit]

\* One call leads, or its picture is shown; every other will give up or be noticed.
LatestWins ==
  ~spoilt /\ wanted # None =>
    \/ TargetShown /\ \A c \in Loads : Behind(c)
    \/ \E c \in Loads : Leading(c) /\ \A d \in Loads : d # c => Behind(d)

\* Every version was asked for by a choice, and a choice that has yet to take its version is a
\* call that processes a picture again.
VersionsCounted ==
  /\ IsFiniteSet(Reprocessors)
  /\ version + Cardinality(Reprocessors) <= choices
  /\ workspace <= choices
  /\ \A c \in Loads : job[c].version <= version
FilesKnown ==
  \A c \in Loads :
    /\ job[c].stage = "decoding" => job[c].kind = "load"
    /\ job[c].stage # "idle" => job[c].file \in Files \/ Reprocessing(c)

EditorInv == EditorTypeOK /\ VersionsCounted /\ FilesKnown /\ LatestWins

\* The editor starts without a picture.
LEMMA EditorInitInv == EditorInit => EditorInv
<1>. SUFFICES ASSUME EditorInit
              PROVE  EditorInv
  OBVIOUS
<1>1. \A c \in Loads : job[c] = NoJob
  BY DEF EditorInit
<1>2. Reprocessors = {}
  BY <1>1 DEF Reprocessors, Reprocessing, NoJob
<1>3. IsFiniteSet(Reprocessors) /\ Cardinality(Reprocessors) = 0
  BY <1>2, FS_EmptySet
<1>4. EditorTypeOK
  <2>1. 0 \in 0 .. MaxChoices
    BY EditorAssumption
  <2>2. NoJob \in Jobs
    BY <2>1 DEF NoJob, Jobs, Fits
  <2>3. settings \in Settings
    BY DEF EditorInit, Settings, Fits
  <2>4. job \in [Loads -> Jobs]
    BY <2>2 DEF EditorInit
  <2>. QED
    BY <2>1, <2>3, <2>4 DEF EditorInit, EditorTypeOK
<1>5. VersionsCounted
  BY <1>1, <1>3 DEF EditorInit, VersionsCounted, NoJob
<1>6. FilesKnown /\ LatestWins
  BY <1>1 DEF EditorInit, FilesKnown, LatestWins, NoJob
<1>. QED
  BY <1>4, <1>5, <1>6 DEF EditorInv

IsReprocess(v) == v.stage = "importing" /\ v.kind = "reprocess"

\* A call that moves on, and the number of those that have yet to take a version
LEMMA JobMoves ==
  ASSUME EditorTypeOK, VersionsCounted, NEW c \in Loads, NEW v \in Jobs, Set(c, v)
  PROVE  /\ job' \in [Loads -> Jobs] /\ job'[c] = v
         /\ \A d \in Loads : d # c => job'[d] = job[d]
         /\ IsFiniteSet(Reprocessors') /\ Cardinality(Reprocessors) \in Nat
         /\ Cardinality(Reprocessors') \in Nat
         /\ Cardinality(Reprocessors') <= Cardinality(Reprocessors) + 1
         /\ ~IsReprocess(v) => Cardinality(Reprocessors') <= Cardinality(Reprocessors)
         /\ ~IsReprocess(v) /\ Reprocessing(c) =>
              Cardinality(Reprocessors') + 1 <= Cardinality(Reprocessors)
<1>1. job' = [job EXCEPT ![c] = v] /\ job \in [Loads -> Jobs]
  BY DEF Set, EditorTypeOK
<1>2. /\ job' \in [Loads -> Jobs] /\ job'[c] = v
      /\ \A d \in Loads : d # c => job'[d] = job[d]
  BY <1>1
<1>3. /\ IsReprocess(v) => Reprocessors' = Reprocessors \cup {c}
      /\ ~IsReprocess(v) => Reprocessors' = Reprocessors \ {c}
      /\ Reprocessing(c) => c \in Reprocessors
  BY <1>2 DEF Reprocessors, Reprocessing, IsReprocess
<1>4. IsFiniteSet(Reprocessors) /\ Cardinality(Reprocessors) \in Nat
  BY FS_CardinalityType DEF VersionsCounted
<1>5. /\ IsFiniteSet(Reprocessors \cup {c})
      /\ Cardinality(Reprocessors \cup {c})
           \in {Cardinality(Reprocessors), Cardinality(Reprocessors) + 1}
  BY <1>4, FS_AddElement
<1>6. /\ IsFiniteSet(Reprocessors \ {c})
      /\ Cardinality(Reprocessors \ {c}) =
           IF c \in Reprocessors THEN Cardinality(Reprocessors) - 1 ELSE Cardinality(Reprocessors)
  BY <1>4, FS_RemoveElement
<1>7. Cardinality(Reprocessors \ {c}) \in Nat
  BY <1>6, FS_CardinalityType
<1>8. CASE IsReprocess(v)
  <2>1. /\ Reprocessors' = Reprocessors \cup {c} /\ IsFiniteSet(Reprocessors')
        /\ Cardinality(Reprocessors') \in {Cardinality(Reprocessors), Cardinality(Reprocessors) + 1}
    BY <1>3, <1>5, <1>8
  <2>2. /\ Cardinality(Reprocessors') \in Nat
        /\ Cardinality(Reprocessors') <= Cardinality(Reprocessors) + 1
    BY <1>4, <2>1
  <2>. QED
    BY <1>2, <1>4, <1>8, <2>1, <2>2
<1>9. CASE ~IsReprocess(v)
  <2>1. /\ Reprocessors' = Reprocessors \ {c} /\ Cardinality(Reprocessors') \in Nat
        /\ IsFiniteSet(Reprocessors')
    BY <1>3, <1>6, <1>7, <1>9
  <2>2. Cardinality(Reprocessors') <= Cardinality(Reprocessors)
    BY <1>4, <1>6, <2>1
  <2>3. Reprocessing(c) => Cardinality(Reprocessors') + 1 <= Cardinality(Reprocessors)
    BY <1>3, <1>4, <1>6, <2>1
  <2>4. Cardinality(Reprocessors') <= Cardinality(Reprocessors) + 1
    BY <1>4, <2>1, <2>2
  <2>. QED
    BY <1>2, <1>4, <1>9, <2>1, <2>2, <2>3, <2>4
<1>. QED
  BY <1>8, <1>9

\* The numbers of the editor
LEMMA EditorNumbers ==
  ASSUME EditorInv
  PROVE  /\ choices \in Nat /\ version \in Nat /\ workspace \in Nat /\ choices <= MaxChoices
         /\ version <= choices /\ workspace <= choices /\ MaxChoices \in Nat
         /\ \A c \in Loads : /\ job[c] \in Jobs /\ job[c].version \in Nat
                             /\ job[c].version <= version
         /\ Cardinality(Reprocessors) \in Nat
         /\ version + Cardinality(Reprocessors) <= choices
<1>1. EditorTypeOK /\ VersionsCounted
  BY DEF EditorInv
<1>2. Cardinality(Reprocessors) \in Nat
  BY <1>1, FS_CardinalityType DEF VersionsCounted
<1>3. /\ choices \in Nat /\ version \in Nat /\ workspace \in Nat /\ choices <= MaxChoices
      /\ MaxChoices \in Nat /\ \A c \in Loads : job[c] \in Jobs
  BY <1>1, EditorAssumption DEF EditorTypeOK
<1>4. \A c \in Loads : job[c].version \in Nat
  BY <1>3 DEF Jobs
<1>. QED
  BY <1>1, <1>2, <1>3, <1>4 DEF VersionsCounted

\* What a step has to show about its numbers and its call.
LEMMA EditorStepOK ==
  ASSUME EditorInv, NEW c \in Loads, NEW v \in Jobs, Set(c, v),
         v.version <= version', version' \in Nat, version' >= version,
         choices' \in 0 .. MaxChoices,
         version' + Cardinality(Reprocessors') <= choices',
         workspace' \in Nat, workspace' <= choices',
         settings' \in Settings, wanted' \in Files \cup {None}, source' \in Files \cup {None},
         image' \in Images \cup {NoImage}, profile' \in BOOLEAN, spoilt' \in BOOLEAN,
         v.stage = "decoding" => v.kind = "load",
         v.stage # "idle" => v.file \in Files \/ IsReprocess(v),
         LatestWins'
  PROVE  EditorInv'
<1>1. /\ job' \in [Loads -> Jobs] /\ job'[c] = v
      /\ \A d \in Loads : d # c => job'[d] = job[d]
      /\ IsFiniteSet(Reprocessors') /\ Cardinality(Reprocessors') \in Nat
  BY JobMoves DEF EditorInv
<1>2. /\ \A d \in Loads : job[d].version \in Nat /\ job[d].version <= version
      /\ version \in Nat /\ MaxChoices \in Nat
  BY EditorNumbers
<1>3. v.version \in Nat
  BY DEF Jobs
<1>4. VersionsCounted'
  <2>1. \A d \in Loads : job'[d].version <= version'
    <3>. SUFFICES ASSUME NEW d \in Loads
                  PROVE  job'[d].version <= version'
      OBVIOUS
    <3>1. CASE d = c
      BY <1>1, <3>1
    <3>2. CASE d # c
      BY <1>1, <1>2, <3>2
    <3>. QED
      BY <3>1, <3>2
  <2>. QED
    BY <1>1, <2>1 DEF VersionsCounted
<1>5. FilesKnown'
  BY <1>1 DEF EditorInv, FilesKnown, IsReprocess, Reprocessing
<1>6. version' \in 0 .. MaxChoices /\ workspace' \in 0 .. MaxChoices
  BY <1>1, <1>2
<1>7. EditorTypeOK'
  BY <1>1, <1>6, Zenon DEF EditorTypeOK
<1>. QED
  BY <1>4, <1>5, <1>7 DEF EditorInv

\* When nothing runs, the picture chosen last is shown.
LEMMA QuietShown ==
  ASSUME LatestWins, ~spoilt, wanted # None, Running = {}
  PROVE  TargetShown
BY DEF LatestWins, Running, Leading, Reprocessing, Fitting

\* A call that is overtaken stays overtaken.
LEMMA BehindStays ==
  ASSUME EditorInv, version' \in Nat, version' >= version, NEW d \in Loads, Behind(d),
         job'[d] = job[d]
  PROVE  Behind(d)'
<1>1. job[d].version \in Nat /\ version \in Nat
  BY EditorNumbers
<1>2. Overtaken(d) => Overtaken(d)'
  BY <1>1 DEF Overtaken
<1>. QED
  BY <1>2 DEF Behind, Reprocessing

\* A file that is chosen leads before all others.
LEMMA LoadImageKeeps ==
  ASSUME EditorInv, NEW c \in Loads, NEW f \in Files, LoadImage(c, f)
  PROVE  EditorInv'
<1>. DEFINE v == Loading(f, version')
<1>1. /\ version' = version + 1 /\ Set(c, v) /\ wanted' = f /\ spoilt' = FALSE
      /\ job[c].stage = "idle" /\ choices < MaxChoices /\ choices' = choices + 1
      /\ UNCHANGED <<settings, workspace, profile, source, image>>
  BY DEF LoadImage, Choose, KeepShown
<1>2. /\ choices \in Nat /\ version \in Nat /\ workspace \in Nat /\ version <= choices
      /\ workspace <= choices /\ MaxChoices \in Nat /\ Cardinality(Reprocessors) \in Nat
      /\ version + Cardinality(Reprocessors) <= choices
      /\ \A d \in Loads : job[d].version \in Nat /\ job[d].version <= version
  BY EditorNumbers
<1>3. version' \in 0 .. MaxChoices /\ workspace \in 0 .. MaxChoices
  BY <1>1, <1>2
<1>4. /\ v \in Jobs /\ v.stage = "importing" /\ v.kind = "load" /\ v.file = f
      /\ v.version = version' /\ v.workspace = workspace
  BY <1>3 DEF Loading, NoJob, Jobs, Fits
<1>. HIDE DEF v
<1>5. ~IsReprocess(v)
  BY <1>4 DEF IsReprocess
<1>6. /\ job'[c] = v /\ \A d \in Loads : d # c => job'[d] = job[d]
      /\ Cardinality(Reprocessors') \in Nat
      /\ Cardinality(Reprocessors') <= Cardinality(Reprocessors)
  BY <1>1, <1>4, <1>5, JobMoves DEF EditorInv
<1>7. version' + Cardinality(Reprocessors') <= choices'
  BY <1>1, <1>2, <1>6
<1>8. LatestWins'
  <2>1. Leading(c)'
    BY <1>1, <1>4, <1>6 DEF Leading, Fresh
  <2>2. \A d \in Loads : d # c => Behind(d)'
    <3>. SUFFICES ASSUME NEW d \in Loads, d # c
                  PROVE  Behind(d)'
      OBVIOUS
    <3>1. job'[d].version < version'
      BY <1>1, <1>2, <1>6
    <3>. QED
      BY <3>1 DEF Behind, Overtaken
  <2>. QED
    BY <2>1, <2>2 DEF LatestWins
<1>9. /\ choices' \in 0 .. MaxChoices /\ version' \in Nat /\ version' >= version
      /\ workspace' \in Nat /\ workspace' <= choices'
  BY <1>1, <1>2
<1>10. /\ settings' \in Settings /\ wanted' \in Files \cup {None}
       /\ source' \in Files \cup {None} /\ image' \in Images \cup {NoImage}
       /\ profile' \in BOOLEAN /\ spoilt' \in BOOLEAN
  BY <1>1 DEF EditorInv, EditorTypeOK
<1>11. v.version <= version' /\ (v.stage = "decoding" => v.kind = "load")
       /\ (v.stage # "idle" => v.file \in Files \/ IsReprocess(v))
  BY <1>4, <1>9
<1>. QED
  BY <1>1, <1>4, <1>7, <1>8, <1>9, <1>10, <1>11, EditorStepOK

\* A fit that is chosen loads the picture that is shown again.
LEMMA SetFitKeeps ==
  ASSUME EditorInv, NEW c \in Loads, NEW f \in Fits, SetFit(c, f)
  PROVE  EditorInv'
<1>. DEFINE v == IF source # None THEN Loading(source, version') ELSE job[c]
<1>1. /\ job[c].stage = "idle" /\ choices < MaxChoices /\ choices' = choices + 1
      /\ settings' = [settings EXCEPT !.fit = f]
      /\ spoilt' = (spoilt \/ Running # {})
      /\ UNCHANGED <<wanted, workspace, profile, source, image>>
  BY DEF SetFit, Choose, KeepShown
<1>2. /\ choices \in Nat /\ version \in Nat /\ workspace \in Nat /\ version <= choices
      /\ workspace <= choices /\ MaxChoices \in Nat /\ Cardinality(Reprocessors) \in Nat
      /\ version + Cardinality(Reprocessors) <= choices
      /\ \A d \in Loads : job[d] \in Jobs /\ job[d].version \in Nat /\ job[d].version <= version
  BY EditorNumbers
<1>3. EditorTypeOK
  BY DEF EditorInv
<1>4. /\ version' \in {version, version + 1} /\ (source # None => version' = version + 1)
      /\ Set(c, v)
  BY <1>3 DEF SetFit, Set, EditorTypeOK
<1>5. version' \in 0 .. MaxChoices /\ workspace \in 0 .. MaxChoices
  BY <1>1, <1>2, <1>4
<1>6. /\ v \in Jobs /\ v.version \in Nat /\ v.version <= version' /\ ~IsReprocess(v)
      /\ v.stage # "decoding" /\ (v.stage # "idle" => v.file \in Files)
      /\ source # None => /\ v.stage = "importing" /\ v.kind = "load" /\ v.file = source
                         /\ v.version = version' /\ v.workspace = workspace
      /\ source = None => v = job[c]
  <2>1. CASE source = None
    BY <1>1, <1>2, <1>4, <2>1 DEF IsReprocess
  <2>2. CASE source # None
    <3>1. v = [stage |-> "importing", kind |-> "load", file |-> source, version |-> version',
               workspace |-> workspace, fit |-> "contain"]
      BY <2>2 DEF Loading, NoJob
    <3>2. source \in Files
      BY <1>3, <2>2 DEF EditorTypeOK
    <3>. HIDE DEF v
    <3>. QED
      BY <1>5, <2>2, <3>1, <3>2 DEF Jobs, Fits, IsReprocess
  <2>. QED
    BY <2>1, <2>2
<1>. HIDE DEF v
<1>7. /\ job'[c] = v /\ \A d \in Loads : d # c => job'[d] = job[d]
      /\ Cardinality(Reprocessors') \in Nat
      /\ Cardinality(Reprocessors') <= Cardinality(Reprocessors)
  BY <1>3, <1>4, <1>6, JobMoves DEF EditorInv
<1>8. version' + Cardinality(Reprocessors') <= choices'
  BY <1>1, <1>2, <1>4, <1>7
<1>9. LatestWins'
  <2>. SUFFICES ASSUME ~spoilt', wanted' # None
                PROVE  LatestWins'
    BY DEF LatestWins
  <2>1. ~spoilt /\ Running = {} /\ wanted # None
    BY <1>1
  <2>2. TargetShown
    BY <2>1, QuietShown DEF EditorInv
  <2>3. source = wanted /\ source # None
    BY <2>1, <2>2 DEF TargetShown
  <2>4. Leading(c)'
    BY <1>1, <1>6, <1>7, <2>3 DEF Leading, Fresh
  <2>5. \A d \in Loads : d # c => Behind(d)'
    BY <1>7, <2>1 DEF Behind, Running
  <2>. QED
    BY <2>4, <2>5 DEF LatestWins
<1>10. /\ choices' \in 0 .. MaxChoices /\ version' \in Nat /\ version' >= version
       /\ workspace' \in Nat /\ workspace' <= choices'
  BY <1>1, <1>2, <1>4
<1>11. /\ settings' \in Settings /\ wanted' \in Files \cup {None}
       /\ source' \in Files \cup {None} /\ image' \in Images \cup {NoImage}
       /\ profile' \in BOOLEAN /\ spoilt' \in BOOLEAN
  BY <1>1, <1>3 DEF EditorTypeOK, Settings
<1>. QED
  BY <1>4, <1>6, <1>8, <1>9, <1>10, <1>11, EditorStepOK

\* A mode that is chosen processes the picture that is shown again, in a version to come.
LEMMA SetModeKeeps ==
  ASSUME EditorInv, NEW c \in Loads, NEW m \in Modes, SetMode(c, m)
  PROVE  EditorInv'
<1>. DEFINE w == [NoJob EXCEPT !.stage = "importing", !.kind = "reprocess"]
            v == IF source # None THEN w ELSE job[c]
<1>1. /\ job[c].stage = "idle" /\ choices < MaxChoices /\ choices' = choices + 1
      /\ settings' = [settings EXCEPT !.mode = m]
      /\ spoilt' = (spoilt \/ Running # {})
      /\ UNCHANGED <<wanted, version, workspace, profile, source, image>>
  BY DEF SetMode, Choose, KeepShown
<1>2. /\ choices \in Nat /\ version \in Nat /\ workspace \in Nat /\ version <= choices
      /\ workspace <= choices /\ MaxChoices \in Nat /\ Cardinality(Reprocessors) \in Nat
      /\ version + Cardinality(Reprocessors) <= choices
      /\ \A d \in Loads : job[d] \in Jobs /\ job[d].version \in Nat /\ job[d].version <= version
  BY EditorNumbers
<1>3. EditorTypeOK
  BY DEF EditorInv
<1>4. Set(c, v)
  BY <1>3 DEF SetMode, Set, EditorTypeOK
<1>5. /\ w \in Jobs /\ w.version = 0 /\ w.stage = "importing" /\ w.kind = "reprocess"
  <2>1. 0 \in 0 .. MaxChoices
    BY <1>2
  <2>2. NoJob \in Jobs /\ NoJob.version = 0
    BY <2>1 DEF NoJob, Jobs, Fits
  <2>. QED
    BY <2>2 DEF Jobs
<1>. HIDE DEF w
<1>6. /\ v \in Jobs /\ v.version <= version /\ v.stage # "decoding"
      /\ (v.stage # "idle" => IsReprocess(v))
      /\ source # None => IsReprocess(v)
  <2>1. CASE source = None
    BY <1>1, <1>2, <2>1
  <2>2. CASE source # None
    BY <1>2, <1>5, <2>2 DEF IsReprocess
  <2>. QED
    BY <2>1, <2>2
<1>. HIDE DEF v
<1>7. /\ job'[c] = v /\ \A d \in Loads : d # c => job'[d] = job[d]
      /\ Cardinality(Reprocessors') \in Nat
      /\ Cardinality(Reprocessors') <= Cardinality(Reprocessors) + 1
  BY <1>3, <1>4, <1>6, JobMoves DEF EditorInv
<1>8. version' + Cardinality(Reprocessors') <= choices'
  BY <1>1, <1>2, <1>7
<1>9. LatestWins'
  <2>. SUFFICES ASSUME ~spoilt', wanted' # None
                PROVE  LatestWins'
    BY DEF LatestWins
  <2>1. ~spoilt /\ Running = {} /\ wanted # None
    BY <1>1
  <2>2. TargetShown
    BY <2>1, QuietShown DEF EditorInv
  <2>3. source = wanted /\ source # None
    BY <2>1, <2>2 DEF TargetShown
  <2>4. Leading(c)'
    BY <1>1, <1>6, <1>7, <2>3 DEF Leading, Reprocessing, IsReprocess
  <2>5. \A d \in Loads : d # c => Behind(d)'
    BY <1>7, <2>1 DEF Behind, Running
  <2>. QED
    BY <2>4, <2>5 DEF LatestWins
<1>10. /\ choices' \in 0 .. MaxChoices /\ version' \in Nat /\ version' >= version
       /\ workspace' \in Nat /\ workspace' <= choices' /\ v.version <= version'
  BY <1>1, <1>2, <1>6
<1>11. /\ settings' \in Settings /\ wanted' \in Files \cup {None}
       /\ source' \in Files \cup {None} /\ image' \in Images \cup {NoImage}
       /\ profile' \in BOOLEAN /\ spoilt' \in BOOLEAN
  BY <1>1, <1>3 DEF EditorTypeOK, Settings
<1>. QED
  BY <1>4, <1>6, <1>8, <1>9, <1>10, <1>11, EditorStepOK

\* A call that ends without being the one that leads
LEMMA GivesUp ==
  ASSUME EditorInv, NEW c \in Loads, ~Leading(c) \/ spoilt', job' \in [Loads -> Jobs],
         job'[c].stage = "idle",
         \A d \in Loads : d # c => job'[d] = job[d], ~spoilt' => ~spoilt,
         UNCHANGED <<wanted, settings, source, image, version, workspace>>
  PROVE  LatestWins'
<1>. SUFFICES ASSUME ~spoilt', wanted' # None
              PROVE  LatestWins'
  BY DEF LatestWins
<1>1. version \in Nat
  BY EditorNumbers
<1>2. \A d \in Loads : Behind(d) => Behind(d)'
  <2>. SUFFICES ASSUME NEW d \in Loads, Behind(d)
                PROVE  Behind(d)'
    OBVIOUS
  <2>1. CASE d = c
    BY <2>1 DEF Behind
  <2>2. CASE d # c
    BY <1>1, <2>2, BehindStays
  <2>. QED
    BY <2>1, <2>2
<1>3. CASE TargetShown /\ \A d \in Loads : Behind(d)
  BY <1>2, <1>3 DEF LatestWins, TargetShown
<1>4. CASE \E e \in Loads : Leading(e) /\ \A d \in Loads : d # e => Behind(d)
  <2>1. PICK e \in Loads : Leading(e) /\ \A d \in Loads : d # e => Behind(d)
    BY <1>4
  <2>2. e # c
    BY <2>1
  <2>3. Leading(e)'
    BY <2>1, <2>2 DEF Leading, Reprocessing, Fresh, Fitting
  <2>. QED
    BY <1>2, <2>1, <2>3 DEF LatestWins
<1>. QED
  BY <1>3, <1>4 DEF EditorInv, LatestWins

\* A picture that is shown when its call leads, alone or before all others
LEMMA ShowsTarget ==
  ASSUME EditorInv, NEW c \in Loads, job' \in [Loads -> Jobs], job'[c].stage = "idle",
         \A d \in Loads : d # c => job'[d] = job[d] /\ Behind(d),
         version' \in Nat, version' >= version,
         source' = wanted, UNCHANGED <<wanted, settings>>,
         image' = [file |-> wanted, mode |-> settings.mode, fit |-> settings.fit]
  PROVE  LatestWins'
<1>1. \A d \in Loads : Behind(d)'
  <2>. SUFFICES ASSUME NEW d \in Loads
                PROVE  Behind(d)'
    OBVIOUS
  <2>1. CASE d = c
    BY <2>1 DEF Behind
  <2>2. CASE d # c
    BY <2>2, BehindStays
  <2>. QED
    BY <2>1, <2>2
<1>. QED
  BY <1>1 DEF LatestWins, TargetShown

\* A call that does not lead while its version and workspace are the latest ones spoils it.
LEMMA FreshLeads ==
  ASSUME EditorInv, ~spoilt, wanted # None, NEW c \in Loads, Fresh(c),
         job[c].stage # "idle", ~Reprocessing(c)
  PROVE  Leading(c) /\ \A d \in Loads : d # c => Behind(d)
<1>1. version \in Nat /\ job[c].version \in Nat
  BY EditorNumbers
<1>2. ~Behind(c)
  BY <1>1 DEF Behind, Overtaken, Fresh
<1>. QED
  BY <1>2 DEF EditorInv, LatestWins

\* A call that fails spoils the choice.
LEMMA JobFailsKeeps ==
  ASSUME EditorInv, NEW c \in Loads, JobFails(c)
  PROVE  EditorInv'
<1>1. /\ Set(c, NoJob) /\ spoilt' = TRUE
      /\ UNCHANGED <<choices, wanted, settings, source, image, version, workspace, profile>>
  BY DEF JobFails, End
<1>2. /\ choices \in Nat /\ version \in Nat /\ workspace \in Nat /\ version <= choices
      /\ workspace <= choices /\ MaxChoices \in Nat /\ Cardinality(Reprocessors) \in Nat
      /\ choices <= MaxChoices /\ version + Cardinality(Reprocessors) <= choices
  BY EditorNumbers
<1>3. NoJob \in Jobs /\ NoJob.version = 0 /\ NoJob.stage = "idle" /\ ~IsReprocess(NoJob)
  <2>1. 0 \in 0 .. MaxChoices
    BY <1>2
  <2>. QED
    BY <2>1 DEF NoJob, Jobs, Fits, IsReprocess
<1>4. /\ Cardinality(Reprocessors') \in Nat
      /\ Cardinality(Reprocessors') <= Cardinality(Reprocessors)
  BY <1>1, <1>3, JobMoves DEF EditorInv
<1>5. version' + Cardinality(Reprocessors') <= choices'
  BY <1>1, <1>2, <1>4
<1>6. LatestWins'
  BY <1>1 DEF LatestWins
<1>7. /\ choices' \in 0 .. MaxChoices /\ version' \in Nat /\ version' >= version
      /\ workspace' \in Nat /\ workspace' <= choices' /\ NoJob.version <= version'
  BY <1>1, <1>2, <1>3
<1>8. /\ settings' \in Settings /\ wanted' \in Files \cup {None}
      /\ source' \in Files \cup {None} /\ image' \in Images \cup {NoImage}
      /\ profile' \in BOOLEAN /\ spoilt' \in BOOLEAN
  BY <1>1 DEF EditorInv, EditorTypeOK
<1>. QED
  BY <1>1, <1>3, <1>5, <1>6, <1>7, <1>8, EditorStepOK

\* A step that leaves the calls alone
LEMMA ChoiceKeeps ==
  ASSUME EditorInv, SwitchWorkspace \/ Dispose
  PROVE  EditorInv'
<1>1. /\ choices < MaxChoices /\ choices' = choices + 1 /\ job' = job
      /\ UNCHANGED <<wanted, settings, image>>
      /\ source' \in {source, None} /\ version' \in {version, version + 1}
      /\ workspace' \in {workspace, workspace + 1}
      /\ profile' \in BOOLEAN
  BY DEF SwitchWorkspace, Dispose, Choose, KeepShown, EditorInv, EditorTypeOK
<1>2. /\ choices \in Nat /\ version \in Nat /\ workspace \in Nat /\ version <= choices
      /\ workspace <= choices /\ MaxChoices \in Nat /\ Cardinality(Reprocessors) \in Nat
      /\ choices <= MaxChoices /\ version + Cardinality(Reprocessors) <= choices
      /\ \A d \in Loads : job[d].version \in Nat /\ job[d].version <= version
  BY EditorNumbers
<1>3. spoilt' \in BOOLEAN
  BY DEF SwitchWorkspace, Dispose
<1>4. version' \in 0 .. MaxChoices /\ workspace' \in 0 .. MaxChoices /\ choices' \in 0 .. MaxChoices
  BY <1>1, <1>2
<1>5. EditorTypeOK'
  BY <1>1, <1>3, <1>4 DEF EditorInv, EditorTypeOK
<1>6. Reprocessors' = Reprocessors
  BY <1>1 DEF Reprocessors, Reprocessing
<1>7. VersionsCounted'
  <2>1. version' + Cardinality(Reprocessors') <= choices' /\ workspace' <= choices'
    BY <1>1, <1>2, <1>6
  <2>2. \A d \in Loads : job'[d].version <= version'
    BY <1>1, <1>2
  <2>. QED
    BY <1>6, <2>1, <2>2 DEF VersionsCounted, EditorInv
<1>8. FilesKnown'
  BY <1>1 DEF EditorInv, FilesKnown, Reprocessing
<1>9. LatestWins'
  <2>. SUFFICES ASSUME ~spoilt', wanted' # None
                PROVE  LatestWins'
    BY DEF LatestWins
  <2>1. ~spoilt /\ Running = {} /\ wanted # None /\ UNCHANGED source
    BY <1>1 DEF SwitchWorkspace, Dispose, KeepShown
  <2>2. TargetShown
    BY <2>1, QuietShown DEF EditorInv
  <2>3. \A d \in Loads : Behind(d)'
    BY <1>1, <2>1 DEF Behind, Running
  <2>. QED
    BY <1>1, <2>1, <2>2, <2>3 DEF LatestWins, TargetShown
<1>. QED
  BY <1>5, <1>7, <1>8, <1>9 DEF EditorInv

\* A legacy picture is fitted: it is shown if its version and workspace are still the latest.
LEMMA FittedKeeps ==
  ASSUME EditorInv, NEW c \in Loads, Fitted(c)
  PROVE  EditorInv'
<1>1. /\ job[c].stage = "fitting" /\ Set(c, NoJob)
      /\ UNCHANGED <<choices, wanted, settings, version, workspace, profile, spoilt>>
  BY DEF Fitted, Show, End
<1>2. /\ choices \in Nat /\ version \in Nat /\ workspace \in Nat /\ version <= choices
      /\ workspace <= choices /\ MaxChoices \in Nat /\ Cardinality(Reprocessors) \in Nat
      /\ choices <= MaxChoices /\ version + Cardinality(Reprocessors) <= choices
      /\ job[c] \in Jobs
  BY EditorNumbers
<1>3. NoJob \in Jobs /\ NoJob.version = 0 /\ NoJob.stage = "idle" /\ ~IsReprocess(NoJob)
  <2>1. 0 \in 0 .. MaxChoices
    BY <1>2
  <2>. QED
    BY <2>1 DEF NoJob, Jobs, Fits, IsReprocess
<1>4. /\ Cardinality(Reprocessors') \in Nat /\ job' \in [Loads -> Jobs]
      /\ Cardinality(Reprocessors') <= Cardinality(Reprocessors)
      /\ job'[c] = NoJob /\ \A d \in Loads : d # c => job'[d] = job[d]
  BY <1>1, <1>3, JobMoves DEF EditorInv
<1>5. version' + Cardinality(Reprocessors') <= choices'
  BY <1>1, <1>2, <1>4
<1>6. job[c].file \in Files /\ ~Reprocessing(c) /\ job[c].fit \in Fits
  BY <1>1, <1>2 DEF EditorInv, FilesKnown, Reprocessing, Jobs
<1>7. ASSUME Fresh(c)
      PROVE  LatestWins' /\ source' \in Files \cup {None} /\ image' \in Images \cup {NoImage}
  <2>1. /\ source' = job[c].file
        /\ image' = [file |-> job[c].file, fit |-> job[c].fit, mode |-> "legacy"]
    BY <1>1, <1>7 DEF Fitted, Show
  <2>2. LatestWins'
    <3>. SUFFICES ASSUME ~spoilt', wanted' # None
                  PROVE  LatestWins'
      BY DEF LatestWins
    <3>1. Leading(c) /\ \A d \in Loads : d # c => Behind(d)
      BY <1>1, <1>6, <1>7, FreshLeads
    <3>2. job[c].file = wanted /\ Fitting(c)
      BY <1>1, <1>6, <3>1 DEF Leading
    <3>3. image' = [file |-> wanted, mode |-> settings.mode, fit |-> settings.fit]
      BY <2>1, <3>2 DEF Fitting
    <3>. QED
      BY <1>1, <1>2, <1>3, <1>4, <2>1, <3>1, <3>2, <3>3, ShowsTarget
  <2>3. image' \in Images
    BY <1>6, <2>1 DEF Images, Modes
  <2>4. source' \in Files \cup {None} /\ image' \in Images \cup {NoImage}
    BY <1>6, <2>1, <2>3
  <2>. QED
    BY <2>2, <2>4
<1>8. ASSUME ~Fresh(c)
      PROVE  LatestWins' /\ source' \in Files \cup {None} /\ image' \in Images \cup {NoImage}
  <2>1. UNCHANGED <<source, image>>
    BY <1>8 DEF Fitted, KeepShown
  <2>2. ~Leading(c)
    BY <1>6, <1>8 DEF Leading
  <2>3. LatestWins'
    BY <1>1, <1>3, <1>4, <2>1, <2>2, GivesUp
  <2>4. source' \in Files \cup {None} /\ image' \in Images \cup {NoImage}
    BY <2>1 DEF EditorInv, EditorTypeOK
  <2>. QED
    BY <2>3, <2>4
<1>9. LatestWins' /\ source' \in Files \cup {None} /\ image' \in Images \cup {NoImage}
  BY <1>7, <1>8
<1>10. /\ choices' \in 0 .. MaxChoices /\ version' \in Nat /\ version' >= version
       /\ workspace' \in Nat /\ workspace' <= choices' /\ NoJob.version <= version'
  BY <1>1, <1>2, <1>3
<1>11. /\ settings' \in Settings /\ wanted' \in Files \cup {None}
       /\ profile' \in BOOLEAN /\ spoilt' \in BOOLEAN
  BY <1>1 DEF EditorInv, EditorTypeOK
<1>. QED
  BY <1>1, <1>3, <1>5, <1>9, <1>10, <1>11, EditorStepOK

\* A call that leads after its step, before all others
LEMMA FitsTarget ==
  ASSUME EditorInv, NEW c \in Loads, Leading(c)',
         \A d \in Loads : d # c => job'[d] = job[d] /\ Behind(d),
         version' \in Nat, version' >= version
  PROVE  LatestWins'
<1>1. \A d \in Loads : d # c => Behind(d)'
  BY BehindStays
<1>. QED
  BY <1>1 DEF LatestWins

\* A file is decoded: its picture is fitted or shown, or comes too late.
LEMMA DecodedKeeps ==
  ASSUME EditorInv, NEW c \in Loads, Decoded(c)
  PROVE  EditorInv'
<1>. DEFINE w == [job[c] EXCEPT !.stage = "fitting", !.file = job[c].file, !.version = version',
                                !.workspace = workspace, !.fit = settings.fit]
            v == IF Fresh(c) /\ settings.mode = "legacy" THEN w ELSE NoJob
<1>1. /\ job[c].stage = "decoding" /\ Set(c, v)
      /\ UNCHANGED <<choices, wanted, settings, version, workspace, profile, spoilt>>
  BY DEF Decoded, Show, Fit, End
<1>2. /\ choices \in Nat /\ version \in Nat /\ workspace \in Nat /\ version <= choices
      /\ workspace <= choices /\ MaxChoices \in Nat /\ Cardinality(Reprocessors) \in Nat
      /\ choices <= MaxChoices /\ version + Cardinality(Reprocessors) <= choices
      /\ job[c] \in Jobs
  BY EditorNumbers
<1>3. NoJob \in Jobs /\ NoJob.version = 0 /\ NoJob.stage = "idle"
  <2>1. 0 \in 0 .. MaxChoices
    BY <1>2
  <2>. QED
    BY <2>1 DEF NoJob, Jobs, Fits
<1>4. /\ job[c].file \in Files /\ ~Reprocessing(c) /\ job[c].kind = "load"
      /\ settings \in Settings /\ EditorTypeOK /\ settings.fit \in Fits
  BY <1>1, <1>2 DEF EditorInv, FilesKnown, Reprocessing, EditorTypeOK, Settings
<1>5. /\ w \in Jobs /\ w.stage = "fitting" /\ w.file = job[c].file /\ w.version = version
      /\ w.workspace = workspace /\ w.fit = settings.fit
  <2>1. version \in 0 .. MaxChoices /\ workspace \in 0 .. MaxChoices
    BY <1>2
  <2>. QED
    BY <1>1, <1>2, <1>4, <2>1 DEF Jobs
<1>. HIDE DEF w
<1>6. /\ v \in Jobs /\ v.version <= version /\ ~IsReprocess(v) /\ v.stage # "decoding"
      /\ v.stage # "idle" => v.file \in Files
  BY <1>2, <1>3, <1>4, <1>5 DEF IsReprocess
<1>7. Fresh(c) /\ settings.mode = "legacy" => v = w
  OBVIOUS
<1>8. ~(Fresh(c) /\ settings.mode = "legacy") => v = NoJob
  OBVIOUS
<1>. HIDE DEF v
<1>9. /\ Cardinality(Reprocessors') \in Nat /\ job' \in [Loads -> Jobs]
      /\ Cardinality(Reprocessors') <= Cardinality(Reprocessors)
      /\ job'[c] = v /\ \A d \in Loads : d # c => job'[d] = job[d]
  BY <1>1, <1>4, <1>6, JobMoves DEF EditorInv
<1>10. version' + Cardinality(Reprocessors') <= choices'
  BY <1>1, <1>2, <1>9
<1>11. version' \in Nat /\ version' >= version
  BY <1>1, <1>2
<1>12. ASSUME Fresh(c), settings.mode = "legacy"
       PROVE  LatestWins' /\ source' \in Files \cup {None} /\ image' \in Images \cup {NoImage}
  <2>1. UNCHANGED <<source, image>>
    BY <1>12 DEF Decoded, KeepShown
  <2>2. LatestWins'
    <3>. SUFFICES ASSUME ~spoilt', wanted' # None
                  PROVE  LatestWins'
      BY DEF LatestWins
    <3>1. Leading(c) /\ \A d \in Loads : d # c => Behind(d)
      BY <1>1, <1>4, <1>12, FreshLeads
    <3>2. job[c].file = wanted
      BY <1>4, <3>1 DEF Leading
    <3>3. Leading(c)'
      BY <1>1, <1>5, <1>7, <1>9, <1>12, <3>2 DEF Leading, Fitting, Fresh
    <3>. QED
      BY <1>9, <1>11, <3>1, <3>3, FitsTarget
  <2>. QED
    BY <1>4, <2>1, <2>2 DEF EditorTypeOK
<1>13. ASSUME Fresh(c), settings.mode # "legacy"
       PROVE  LatestWins' /\ source' \in Files \cup {None} /\ image' \in Images \cup {NoImage}
  <2>1. /\ source' = job[c].file
        /\ image' = [file |-> job[c].file, fit |-> settings.fit, mode |-> settings.mode]
    BY <1>1, <1>13 DEF Decoded, Show
  <2>2. LatestWins'
    <3>. SUFFICES ASSUME ~spoilt', wanted' # None
                  PROVE  LatestWins'
      BY DEF LatestWins
    <3>1. Leading(c) /\ \A d \in Loads : d # c => Behind(d)
      BY <1>1, <1>4, <1>13, FreshLeads
    <3>2. job[c].file = wanted
      BY <1>4, <3>1 DEF Leading
    <3>. QED
      BY <1>1, <1>3, <1>8, <1>9, <1>11, <1>13, <2>1, <3>1, <3>2, ShowsTarget
  <2>3. image' \in Images
    BY <1>4, <2>1 DEF Images, Settings
  <2>. QED
    BY <1>4, <2>1, <2>2, <2>3
<1>14. ASSUME ~Fresh(c)
       PROVE  LatestWins' /\ source' \in Files \cup {None} /\ image' \in Images \cup {NoImage}
  <2>1. UNCHANGED <<source, image>>
    BY <1>14 DEF Decoded, KeepShown
  <2>2. ~Leading(c)
    BY <1>4, <1>14 DEF Leading
  <2>3. LatestWins'
    BY <1>1, <1>3, <1>8, <1>9, <1>14, <2>1, <2>2, GivesUp
  <2>. QED
    BY <1>4, <2>1, <2>3 DEF EditorTypeOK
<1>15. LatestWins' /\ source' \in Files \cup {None} /\ image' \in Images \cup {NoImage}
  BY <1>12, <1>13, <1>14
<1>16. /\ choices' \in 0 .. MaxChoices /\ workspace' \in Nat /\ workspace' <= choices'
       /\ v.version <= version'
  BY <1>1, <1>2, <1>6
<1>17. /\ settings' \in Settings /\ wanted' \in Files \cup {None}
       /\ profile' \in BOOLEAN /\ spoilt' \in BOOLEAN
  BY <1>1 DEF EditorInv, EditorTypeOK
<1>. QED
  BY <1>1, <1>6, <1>10, <1>11, <1>15, <1>16, <1>17, EditorStepOK

\* The call that processes the picture again takes its version: alone, it leads or shows.
LEMMA ReprocessKeeps ==
  ASSUME EditorInv, NEW c \in Loads, Imported(c), job[c].kind = "reprocess",
         profile, source # None
  PROVE  EditorInv'
<1>. DEFINE w == [job[c] EXCEPT !.stage = "fitting", !.file = source, !.version = version',
                                !.workspace = workspace, !.fit = settings.fit]
            v == IF settings.mode = "legacy" THEN w ELSE NoJob
<1>1. /\ job[c].stage = "importing" /\ Set(c, v) /\ version' = version + 1
      /\ spoilt' = (spoilt \/ Running # {c})
      /\ UNCHANGED <<choices, wanted, settings, workspace, profile>>
  BY DEF Imported, Show, Fit, End
<1>2. /\ choices \in Nat /\ version \in Nat /\ workspace \in Nat /\ version <= choices
      /\ workspace <= choices /\ MaxChoices \in Nat /\ Cardinality(Reprocessors) \in Nat
      /\ choices <= MaxChoices /\ version + Cardinality(Reprocessors) <= choices
      /\ job[c] \in Jobs
  BY EditorNumbers
<1>3. NoJob \in Jobs /\ NoJob.version = 0 /\ NoJob.stage = "idle" /\ ~IsReprocess(NoJob)
  <2>1. 0 \in 0 .. MaxChoices
    BY <1>2
  <2>. QED
    BY <2>1 DEF NoJob, Jobs, Fits, IsReprocess
<1>4. /\ Reprocessing(c) /\ settings \in Settings /\ EditorTypeOK /\ settings.fit \in Fits
      /\ source \in Files
  BY <1>1 DEF EditorInv, Reprocessing, EditorTypeOK, Settings
\* Its choice was counted, so that the version stays within the choices.
<1>5. Cardinality(Reprocessors) >= 1
  <2>1. c \in Reprocessors /\ IsFiniteSet(Reprocessors)
    BY <1>4 DEF Reprocessors, EditorInv, VersionsCounted
  <2>2. Cardinality(Reprocessors) # 0
    BY <2>1, FS_EmptySet
  <2>. QED
    BY <1>2, <2>2
<1>6. version + 1 \in 0 .. MaxChoices /\ workspace \in 0 .. MaxChoices
  BY <1>2, <1>5
<1>7. /\ w \in Jobs /\ w.stage = "fitting" /\ w.file = source /\ w.version = version'
      /\ w.workspace = workspace /\ w.fit = settings.fit
  BY <1>1, <1>2, <1>4, <1>6 DEF Jobs
<1>. HIDE DEF w
<1>8. /\ v \in Jobs /\ v.version <= version' /\ ~IsReprocess(v) /\ v.stage # "decoding"
      /\ v.stage # "idle" => v.file \in Files
  BY <1>1, <1>2, <1>3, <1>4, <1>7 DEF IsReprocess
<1>9. settings.mode = "legacy" => v = w
  OBVIOUS
<1>10. settings.mode # "legacy" => v = NoJob
  OBVIOUS
<1>. HIDE DEF v
<1>11. /\ Cardinality(Reprocessors') \in Nat /\ job' \in [Loads -> Jobs]
       /\ Cardinality(Reprocessors') + 1 <= Cardinality(Reprocessors)
       /\ job'[c] = v /\ \A d \in Loads : d # c => job'[d] = job[d]
  BY <1>1, <1>4, <1>8, JobMoves DEF EditorInv
<1>12. version' + Cardinality(Reprocessors') <= choices'
  BY <1>1, <1>2, <1>11
<1>13. version' \in Nat /\ version' >= version
  BY <1>1, <1>2
\* Unless it spoils the choice, it is alone and the source is the file that was chosen last.
<1>14. ASSUME ~spoilt', wanted' # None
       PROVE  source = wanted /\ \A d \in Loads : d # c => Behind(d)
  <2>1. ~spoilt /\ Running = {c} /\ wanted # None
    BY <1>1, <1>14
  <2>2. \A d \in Loads : d # c => job[d].stage = "idle"
    BY <2>1 DEF Running
  <2>3. \A d \in Loads : Leading(d) => job[d].stage # "idle"
    BY DEF Leading, Reprocessing, Fitting
  <2>4. TargetShown \/ Leading(c)
    BY <2>1, <2>2, <2>3 DEF EditorInv, LatestWins
  <2>5. Leading(c) => source = wanted
    BY <1>1, <1>4 DEF Leading, Reprocessing, Fitting
  <2>. QED
    BY <2>2, <2>4, <2>5 DEF TargetShown, Behind
<1>15. ASSUME settings.mode = "legacy"
       PROVE  LatestWins' /\ source' \in Files \cup {None} /\ image' \in Images \cup {NoImage}
  <2>1. UNCHANGED <<source, image>>
    BY <1>1, <1>15 DEF Imported, KeepShown
  <2>2. LatestWins'
    <3>. SUFFICES ASSUME ~spoilt', wanted' # None
                  PROVE  LatestWins'
      BY DEF LatestWins
    <3>1. Leading(c)'
      BY <1>1, <1>7, <1>9, <1>11, <1>14, <1>15 DEF Leading, Fitting, Fresh
    <3>. QED
      BY <1>11, <1>13, <1>14, <3>1, FitsTarget
  <2>. QED
    BY <1>4, <2>1, <2>2 DEF EditorTypeOK
<1>16. ASSUME settings.mode # "legacy"
       PROVE  LatestWins' /\ source' \in Files \cup {None} /\ image' \in Images \cup {NoImage}
  <2>1. /\ source' = source
        /\ image' = [file |-> source, fit |-> settings.fit, mode |-> settings.mode]
    BY <1>1, <1>16 DEF Imported, Show
  <2>2. LatestWins'
    <3>. SUFFICES ASSUME ~spoilt', wanted' # None
                  PROVE  LatestWins'
      BY DEF LatestWins
    <3>. QED
      BY <1>1, <1>3, <1>10, <1>11, <1>13, <1>14, <1>16, <2>1, ShowsTarget
  <2>3. image' \in Images
    BY <1>4, <2>1 DEF Images, Settings
  <2>. QED
    BY <1>4, <2>1, <2>2, <2>3
<1>17. LatestWins' /\ source' \in Files \cup {None} /\ image' \in Images \cup {NoImage}
  BY <1>15, <1>16
<1>18. /\ choices' \in 0 .. MaxChoices /\ workspace' \in Nat /\ workspace' <= choices'
  BY <1>1, <1>2
<1>19. /\ settings' \in Settings /\ wanted' \in Files \cup {None}
       /\ profile' \in BOOLEAN /\ spoilt' \in BOOLEAN
  BY <1>1 DEF EditorInv, EditorTypeOK
<1>. QED
  BY <1>1, <1>8, <1>12, <1>13, <1>17, <1>18, <1>19, EditorStepOK

\* A call whose code arrives: it decodes its file, or gives up for want of a display.
LEMMA ImportedKeeps ==
  ASSUME EditorInv, NEW c \in Loads, Imported(c)
  PROVE  EditorInv'
<1>. DEFINE w == [job[c] EXCEPT !.stage = "decoding"]
            v == IF job[c].kind = "load" /\ profile THEN w ELSE NoJob
<1>1. CASE job[c].kind = "reprocess" /\ profile /\ source # None
  BY <1>1, ReprocessKeeps
<1>2. CASE ~(job[c].kind = "reprocess" /\ profile /\ source # None)
  <2>1. /\ choices \in Nat /\ version \in Nat /\ workspace \in Nat /\ version <= choices
        /\ workspace <= choices /\ MaxChoices \in Nat /\ Cardinality(Reprocessors) \in Nat
        /\ choices <= MaxChoices /\ version + Cardinality(Reprocessors) <= choices
        /\ job[c] \in Jobs /\ job[c].version <= version
    BY EditorNumbers
  <2>2. /\ job[c].stage = "importing" /\ Set(c, v)
        /\ UNCHANGED <<choices, wanted, settings, source, image, version, workspace, profile>>
        /\ spoilt' = IF job[c].kind = "load" /\ profile THEN spoilt ELSE TRUE
    <3>1. job[c].kind \in {"load", "reprocess"} /\ profile \in BOOLEAN
      BY <2>1 DEF Jobs, EditorInv, EditorTypeOK
    <3>. QED
      BY <1>2, <3>1 DEF Imported, KeepShown, End
  <2>3. NoJob \in Jobs /\ NoJob.version = 0 /\ NoJob.stage = "idle" /\ ~IsReprocess(NoJob)
    <3>1. 0 \in 0 .. MaxChoices
      BY <2>1
    <3>. QED
      BY <3>1 DEF NoJob, Jobs, Fits, IsReprocess
  <2>4. /\ w \in Jobs /\ w.stage = "decoding" /\ w.kind = job[c].kind /\ w.file = job[c].file
        /\ w.version = job[c].version /\ w.workspace = job[c].workspace
    BY <2>1 DEF Jobs
  <2>5. job[c].kind = "load" => job[c].file \in Files
    BY <2>2 DEF EditorInv, FilesKnown, Reprocessing
  <2>. HIDE DEF w
  <2>6. /\ v \in Jobs /\ v.version <= version' /\ ~IsReprocess(v)
        /\ v.stage = "decoding" => v.kind = "load"
        /\ v.stage # "idle" => v.file \in Files
    BY <2>1, <2>2, <2>3, <2>4, <2>5 DEF IsReprocess
  <2>7. job[c].kind = "load" /\ profile => v = w
    OBVIOUS
  <2>. HIDE DEF v
  <2>8. /\ Cardinality(Reprocessors') \in Nat /\ job' \in [Loads -> Jobs]
        /\ Cardinality(Reprocessors') <= Cardinality(Reprocessors)
        /\ job'[c] = v /\ \A d \in Loads : d # c => job'[d] = job[d]
    BY <2>2, <2>6, JobMoves DEF EditorInv
  <2>9. version' + Cardinality(Reprocessors') <= choices'
    BY <2>1, <2>2, <2>8
  <2>10. version' \in Nat /\ version' >= version
    BY <2>1, <2>2
  <2>11. LatestWins'
    <3>. SUFFICES ASSUME ~spoilt', wanted' # None
                  PROVE  LatestWins'
      BY DEF LatestWins
    <3>1. /\ ~spoilt /\ wanted # None /\ job[c].kind = "load" /\ job'[c] = w
          /\ job[c].stage = "importing" /\ w.kind = "load" /\ w.version = job[c].version
          /\ w.workspace = job[c].workspace /\ w.file = job[c].file /\ w.stage = "decoding"
      BY <2>2, <2>4, <2>7, <2>8
    <3>2. \A d \in Loads : Behind(d) => Behind(d)'
      <4>. SUFFICES ASSUME NEW d \in Loads, Behind(d)
                    PROVE  Behind(d)'
        OBVIOUS
      <4>1. CASE d = c
        BY <2>2, <3>1, <4>1 DEF Behind, Reprocessing, Overtaken
      <4>2. CASE d # c
        BY <2>8, <2>10, <4>2, BehindStays
      <4>. QED
        BY <4>1, <4>2
    <3>3. \A d \in Loads : Leading(d) => Leading(d)'
      BY <2>2, <2>8, <3>1 DEF Leading, Reprocessing, Fresh, Fitting
    <3>4. TargetShown => TargetShown'
      BY <2>2 DEF TargetShown
    <3>. QED
      BY <3>1, <3>2, <3>3, <3>4 DEF EditorInv, LatestWins
  <2>12. /\ choices' \in 0 .. MaxChoices /\ workspace' \in Nat /\ workspace' <= choices'
    BY <2>1, <2>2
  <2>13. /\ settings' \in Settings /\ wanted' \in Files \cup {None}
         /\ source' \in Files \cup {None} /\ image' \in Images \cup {NoImage}
         /\ profile' \in BOOLEAN /\ spoilt' \in BOOLEAN
    BY <2>2 DEF EditorInv, EditorTypeOK
  <2>. QED
    BY <2>2, <2>6, <2>9, <2>10, <2>11, <2>12, <2>13, EditorStepOK
<1>. QED
  BY <1>1, <1>2

\* Every step of the editor keeps the invariant.
LEMMA EditorNextInv == EditorInv /\ [EditorNext]_editorVars => EditorInv'
<1>. SUFFICES ASSUME EditorInv, [EditorNext]_editorVars
              PROVE  EditorInv'
  OBVIOUS
<1>1. CASE UNCHANGED editorVars
  BY <1>1 DEF editorVars, EditorInv, EditorTypeOK, VersionsCounted, FilesKnown, LatestWins,
              Reprocessors, Reprocessing, TargetShown, Leading, Behind, Overtaken, Fresh, Fitting
<1>2. CASE SwitchWorkspace \/ Dispose
  BY <1>2, ChoiceKeeps
<1>3. ASSUME NEW c \in Loads, \E f \in Files : LoadImage(c, f)
      PROVE  EditorInv'
  BY <1>3, LoadImageKeeps
<1>4. ASSUME NEW c \in Loads, \E f \in Fits : SetFit(c, f)
      PROVE  EditorInv'
  BY <1>4, SetFitKeeps
<1>5. ASSUME NEW c \in Loads, \E m \in Modes : SetMode(c, m)
      PROVE  EditorInv'
  BY <1>5, SetModeKeeps
<1>6. ASSUME NEW c \in Loads, Imported(c) \/ Decoded(c) \/ Fitted(c) \/ JobFails(c)
      PROVE  EditorInv'
  BY <1>6, ImportedKeeps, DecodedKeeps, FittedKeeps, JobFailsKeeps
<1>. QED
  BY <1>1, <1>2, <1>3, <1>4, <1>5, <1>6 DEF EditorNext

\* What the invariant says of the checked properties
LEMMA EditorInvGives == EditorInv => EditorTypeOK /\ ChosenImageIsShown
BY QuietShown DEF EditorInv, ChosenImageIsShown, TargetShown

------------------------------------------------------------------------------
(* The application.                                                        *)

ApplicationInv == ShellInv /\ EditorInv /\ WakeLockInv /\ SubscriptionsInv /\ ArchiveInv

\* Each machine starts as it does alone.
LEMMA ApplicationInitInv == Init => ApplicationInv
BY ShellInitInv, EditorInitInv, WakeLockInitInv, InitInv, ArchiveInitInv DEF Init, ApplicationInv

\* A step of the application is one of one machine, and the others rest.
LEMMA ApplicationNextInv == ApplicationInv /\ [Next]_vars => ApplicationInv'
<1>. SUFFICES ASSUME ApplicationInv, [Next]_vars
              PROVE  ApplicationInv'
  OBVIOUS
<1>1. /\ [ShellNext]_shellVars /\ [EditorNext]_editorVars /\ [WakeLockNext]_wakeLockVars
      /\ [SubscriptionsNext]_subscriptionVars /\ [ArchiveNext]_archiveVars
  BY DEF Next, vars
<1>. QED
  BY <1>1, ShellNextInv, EditorNextInv, WakeLockNextInv, StepInv, ArchiveNextInv DEF ApplicationInv

LEMMA ApplicationInvariance == Spec => []ApplicationInv
BY ApplicationInitInv, ApplicationNextInv, PTL DEF Spec

\* Every variable of the five machines keeps its type, and every list of theirs its limit, for
\* any number of tabs, displays, senders, files and calls.
THEOREM ApplicationTypeCorrect == Spec => []ApplicationTypeOK
<1>1. ApplicationInv => ApplicationTypeOK
  BY ShellInvGives, EditorInvGives, WakeLockInvGives, ArchiveInvGives
     DEF ApplicationInv, ApplicationTypeOK, SubscriptionsInv
<1>. QED
  BY ApplicationInvariance, <1>1, PTL

\* The overlay that Back would close is the dialog that is open, unless a test was continued in
\* place; the workspace in use and the one to return to are alive, and only the one in use sends
\* (navigation-store.ts, workspace-store.ts).
THEOREM ShellIsAlwaysConsistent == Spec => []ShellIsConsistent
<1>1. ApplicationInv => ShellIsConsistent
  BY ShellInvGives DEF ApplicationInv
<1>. QED
  BY ApplicationInvariance, <1>1, PTL

\* However many files, settings and workspaces are chosen while others are being decoded, the
\* image chosen last is the one shown (content-editor-store.ts, loadImage); and no wake lock
\* outlives the transfers, however late the browser grants it (wake-lock.ts).
THEOREM LateAnswersNeverHarm == Spec => []LateAnswersDoNoHarm
<1>1. ApplicationInv => LateAnswersDoNoHarm
  BY EditorInvGives, WakeLockInvGives DEF ApplicationInv, LateAnswersDoNoHarm
<1>. QED
  BY ApplicationInvariance, <1>1, PTL

\* When a record is worked on in one place, the history is what the accepted saves promised,
\* each record with every result that any save of it had, however tabs are connected, reloaded
\* and resumed meanwhile, and what was edited from outside authorizes nothing (saveInvestigation,
\* loadStore, resumeStoredInvestigation, importBundle).
THEOREM ArchiveIsAlwaysSound == ASSUME OneHolder PROVE Spec => []ArchiveIsSound
<1>1. ApplicationInv => ArchiveIsSound
  BY ArchiveInvGives DEF ApplicationInv, ArchiveIsSound
<1>. QED
  BY ApplicationInvariance, <1>1, PTL
===============================================================================
