----------------------------- MODULE UpdatesProof -----------------------------
(***************************************************************************)
(* Proofs about Updates for any number of tabs, builds and handshakes.     *)
(***************************************************************************)
EXTENDS Updates, SequenceTheorems, TLAPS

------------------------------------------------------------------------------
(* What a step does to the tabs.                                           *)

Tabbed == tab \in [Tabs -> TabStates]

SameLoad(r, s) ==
  r.open = s.open /\ r.page = s.page /\ r.served = s.served /\ r.controlled = s.controlled
SameStand(r, s) == r.busy = s.busy /\ r.applying = s.applying /\ r.lock = s.lock
SameRequest(r, s) == r.awaiting = s.awaiting /\ r.reply = s.reply /\ r.asks = s.asks
SameNews(r, s) == r.inbox = s.inbox /\ r.changed = s.changed

\* One tab is replaced.
LEMMA OneTab ==
  ASSUME Tabbed, NEW t \in Tabs, NEW s \in TabStates, tab' = [tab EXCEPT ![t] = s]
  PROVE  Tabbed' /\ tab'[t] = s /\ \A u \in Tabs : u # t => tab'[u] = tab[u]
BY DEF Tabbed

LEMMA ClosedType == Closed \in TabStates
<1>1. <<>> \in Seq(Messages)
  OBVIOUS
<1>. QED
  BY <1>1, UpdatesAssumption DEF Closed, TabStates

\* A tab that was loaded: nothing of the page before it is left.
FreshTab(s) ==
  /\ s.open /\ (s.controlled <=> worker.active # 0) /\ (s.served <=> worker.active # 0)
  /\ worker.active # 0 => s.page = worker.active
  /\ ~s.busy /\ ~s.applying /\ s.lock = 0 /\ ~s.awaiting /\ ~s.reply
  /\ s.inbox = <<>> /\ ~s.changed
WorkerType ==
  worker \in [installing : 0 .. MaxBuild, waiting : 0 .. MaxBuild, active : 0 .. MaxBuild]

LEMMA LoadedFacts == WorkerType => Loaded \in TabStates /\ FreshTab(Loaded)
<1>. SUFFICES ASSUME WorkerType PROVE Loaded \in TabStates /\ FreshTab(Loaded)
  OBVIOUS
<1>. DEFINE p == IF worker.active # 0 THEN worker.active ELSE IF Newest # 0 THEN Newest ELSE 1
<1>1. p \in 0 .. MaxBuild /\ (worker.active # 0 => p = worker.active)
  BY UpdatesAssumption DEF Newest, WorkerType
<1>2. Loaded = [Closed EXCEPT !.open = TRUE, !.controlled = worker.active # 0,
                              !.served = worker.active # 0, !.page = p]
  BY DEF Loaded
<1>. DEFINE a == worker.active # 0
<1>3. a \in BOOLEAN
  OBVIOUS
<1>. HIDE DEF p, a
<1>4. [Closed EXCEPT !.open = TRUE, !.controlled = a, !.served = a, !.page = p] \in TabStates
  BY <1>1, <1>3, ClosedType DEF Closed, TabStates
<1>5. LET s == [Closed EXCEPT !.open = TRUE, !.controlled = a, !.served = a, !.page = p]
      IN  /\ s.open /\ s.controlled = a /\ s.served = a /\ s.page = p
          /\ ~s.busy /\ ~s.applying /\ s.lock = 0 /\ ~s.awaiting /\ ~s.reply
          /\ s.inbox = <<>> /\ ~s.changed
  BY DEF Closed
<1>. QED
  BY <1>1, <1>2, <1>4, <1>5 DEF a, FreshTab

\* A page goes: the request it made may still be on its way, nothing else of it is left.
LEMMA UnloadFacts ==
  ASSUME Tabbed, NEW t \in Tabs, NEW s \in TabStates, SetTab(t, [s EXCEPT !.asks = tab[t].asks])
  PROVE  /\ Tabbed' /\ \A u \in Tabs : u # t => tab'[u] = tab[u]
         /\ SameLoad(tab'[t], s) /\ SameStand(tab'[t], s) /\ SameNews(tab'[t], s)
         /\ tab'[t].awaiting = s.awaiting /\ tab'[t].reply = s.reply
         /\ tab'[t].asks = tab[t].asks
<1>. DEFINE r == [s EXCEPT !.asks = tab[t].asks]
<1>1. /\ r \in TabStates /\ SameLoad(r, s) /\ SameStand(r, s) /\ SameNews(r, s)
      /\ r.awaiting = s.awaiting /\ r.reply = s.reply /\ r.asks = tab[t].asks
  BY DEF Tabbed, TabStates, SameLoad, SameStand, SameNews
<1>2. tab' = [tab EXCEPT ![t] = r]
  BY DEF SetTab
<1>. HIDE DEF r
<1>. QED
  BY <1>1, <1>2, OneTab

LEMMA WorkFacts ==
  ASSUME Tabbed, NEW t \in Tabs, NEW b \in BOOLEAN, SetTab(t, [tab[t] EXCEPT !.busy = b])
  PROVE  /\ Tabbed' /\ \A u \in Tabs : u # t => tab'[u] = tab[u]
         /\ SameLoad(tab'[t], tab[t]) /\ SameRequest(tab'[t], tab[t]) /\ SameNews(tab'[t], tab[t])
         /\ tab'[t].busy = b /\ tab'[t].applying = tab[t].applying /\ tab'[t].lock = tab[t].lock
<1>. DEFINE r == [tab[t] EXCEPT !.busy = b]
<1>1. /\ r \in TabStates /\ SameLoad(r, tab[t]) /\ SameRequest(r, tab[t]) /\ SameNews(r, tab[t])
      /\ r.busy = b /\ r.applying = tab[t].applying /\ r.lock = tab[t].lock
  BY DEF Tabbed, TabStates, SameLoad, SameRequest, SameNews
<1>2. tab' = [tab EXCEPT ![t] = r]
  BY DEF SetTab
<1>. HIDE DEF r
<1>. QED
  BY <1>1, <1>2, OneTab

LEMMA ApplyFacts ==
  ASSUME Tabbed, NEW t \in Tabs, Apply(t)
  PROVE  /\ Tabbed' /\ \A u \in Tabs : u # t => tab'[u] = tab[u]
         /\ SameLoad(tab'[t], tab[t]) /\ SameNews(tab'[t], tab[t])
         /\ tab'[t].busy = tab[t].busy /\ tab'[t].lock = tab[t].lock
         /\ tab'[t].reply = tab[t].reply
         /\ tab'[t].applying /\ tab'[t].awaiting /\ tab'[t].asks
<1>. DEFINE r == [tab[t] EXCEPT !.applying = TRUE, !.awaiting = TRUE, !.asks = TRUE]
<1>1. /\ r \in TabStates /\ SameLoad(r, tab[t]) /\ SameNews(r, tab[t])
      /\ r.busy = tab[t].busy /\ r.lock = tab[t].lock /\ r.reply = tab[t].reply
      /\ r.applying /\ r.awaiting /\ r.asks
  BY DEF Tabbed, TabStates, SameLoad, SameNews
<1>2. tab' = [tab EXCEPT ![t] = r]
  BY DEF SetTab, Apply
<1>. HIDE DEF r
<1>. QED
  BY <1>1, <1>2, OneTab

LEMMA RequestEndsFacts ==
  ASSUME Tabbed, NEW t \in Tabs, RequestEnds(t)
  PROVE  /\ Tabbed' /\ \A u \in Tabs : u # t => tab'[u] = tab[u]
         /\ SameLoad(tab'[t], tab[t]) /\ SameNews(tab'[t], tab[t])
         /\ tab'[t].busy = tab[t].busy /\ tab'[t].lock = tab[t].lock
         /\ ~tab'[t].applying /\ ~tab'[t].awaiting /\ ~tab'[t].reply
         /\ tab'[t].asks = tab[t].asks
<1>. DEFINE r == [tab[t] EXCEPT !.applying = FALSE, !.awaiting = FALSE, !.reply = FALSE]
<1>1. /\ r \in TabStates /\ SameLoad(r, tab[t]) /\ SameNews(r, tab[t])
      /\ r.busy = tab[t].busy /\ r.lock = tab[t].lock /\ r.asks = tab[t].asks
      /\ ~r.applying /\ ~r.awaiting /\ ~r.reply
  BY DEF Tabbed, TabStates, SameLoad, SameNews
<1>2. tab' = [tab EXCEPT ![t] = r]
  BY DEF SetTab, RequestEnds
<1>. HIDE DEF r
<1>. QED
  BY <1>1, <1>2, OneTab

\* A message was read: a question makes an idle tab stand still, a cancellation frees it.
LEMMA HandleCheckFacts ==
  ASSUME Tabbed, round \in 0 .. MaxRounds, NEW t \in Tabs, HandleCheck(t)
  PROVE  /\ Tabbed' /\ \A u \in Tabs : u # t => tab'[u] = tab[u]
         /\ SameLoad(tab'[t], tab[t]) /\ SameRequest(tab'[t], tab[t])
         /\ tab'[t].changed = tab[t].changed /\ tab'[t].busy = tab[t].busy
         /\ tab'[t].inbox = Tail(tab[t].inbox)
         /\ IF tab[t].busy THEN SameStand(tab'[t], tab[t])
                           ELSE tab'[t].applying /\ tab'[t].lock = round
<1>1. tab[t] \in TabStates /\ tab[t].inbox # <<>>
  BY DEF Tabbed, HandleCheck
<1>2. tab[t].inbox \in Seq(Messages)
  BY <1>1 DEF TabStates
<1>3. Tail(tab[t].inbox) \in Seq(Messages)
  BY <1>1, <1>2
<1>. DEFINE q == Tail(tab[t].inbox)
<1>. HIDE DEF q
<1>. DEFINE r == IF tab[t].busy THEN [tab[t] EXCEPT !.inbox = q]
                 ELSE [tab[t] EXCEPT !.inbox = q, !.applying = TRUE, !.lock = round]
<1>4. /\ r \in TabStates /\ SameLoad(r, tab[t]) /\ SameRequest(r, tab[t])
      /\ r.changed = tab[t].changed /\ r.busy = tab[t].busy
      /\ r.inbox = q
      /\ IF tab[t].busy THEN SameStand(r, tab[t]) ELSE r.applying /\ r.lock = round
  BY <1>1, <1>3 DEF TabStates, SameLoad, SameRequest, SameStand, q
<1>5. tab' = [tab EXCEPT ![t] = r]
  BY DEF SetTab, HandleCheck, AnswersReady, q
<1>. HIDE DEF r
<1>. QED
  BY <1>4, <1>5, OneTab DEF q

LEMMA HandleCancelledFacts ==
  ASSUME Tabbed, NEW t \in Tabs, HandleCancelled(t)
  PROVE  /\ Tabbed' /\ \A u \in Tabs : u # t => tab'[u] = tab[u]
         /\ SameLoad(tab'[t], tab[t]) /\ SameRequest(tab'[t], tab[t])
         /\ tab'[t].changed = tab[t].changed /\ tab'[t].busy = tab[t].busy
         /\ tab'[t].inbox = Tail(tab[t].inbox)
<1>1. tab[t] \in TabStates /\ tab[t].inbox # <<>>
  BY DEF Tabbed, HandleCancelled
<1>2. tab[t].inbox \in Seq(Messages) /\ 0 \in 0 .. MaxRounds
  BY <1>1, UpdatesAssumption DEF TabStates
<1>3. Tail(tab[t].inbox) \in Seq(Messages)
  BY <1>1, <1>2
<1>. DEFINE q == Tail(tab[t].inbox)
<1>. HIDE DEF q
<1>. DEFINE r == [tab[t] EXCEPT !.inbox = q, !.applying = FALSE, !.lock = 0]
<1>4. /\ r \in TabStates /\ SameLoad(r, tab[t]) /\ SameRequest(r, tab[t])
      /\ r.changed = tab[t].changed /\ r.busy = tab[t].busy /\ r.inbox = q
  BY <1>1, <1>2, <1>3 DEF TabStates, SameLoad, SameRequest, q
<1>5. tab' = [tab EXCEPT ![t] = r]
  BY DEF SetTab, HandleCancelled, q
<1>. HIDE DEF r
<1>. QED
  BY <1>4, <1>5, OneTab DEF q

LEMMA LockExpiresFacts ==
  ASSUME Tabbed, NEW t \in Tabs, LockExpires(t)
  PROVE  /\ Tabbed' /\ \A u \in Tabs : u # t => tab'[u] = tab[u]
         /\ SameLoad(tab'[t], tab[t]) /\ SameRequest(tab'[t], tab[t]) /\ SameNews(tab'[t], tab[t])
         /\ tab'[t].busy = tab[t].busy
<1>0. 0 \in 0 .. MaxRounds
  BY UpdatesAssumption
<1>. DEFINE r == [tab[t] EXCEPT !.applying = FALSE, !.lock = 0]
<1>1. /\ r \in TabStates /\ SameLoad(r, tab[t]) /\ SameRequest(r, tab[t]) /\ SameNews(r, tab[t])
      /\ r.busy = tab[t].busy
  BY <1>0 DEF Tabbed, TabStates, SameLoad, SameRequest, SameNews
<1>2. tab' = [tab EXCEPT ![t] = r]
  BY DEF SetTab, LockExpires
<1>. HIDE DEF r
<1>. QED
  BY <1>1, <1>2, OneTab

LEMMA TakenOverFacts ==
  ASSUME Tabbed, NEW t \in Tabs,
         SetTab(t, [tab[t] EXCEPT !.controlled = TRUE, !.changed = FALSE])
  PROVE  /\ Tabbed' /\ \A u \in Tabs : u # t => tab'[u] = tab[u]
         /\ SameStand(tab'[t], tab[t]) /\ SameRequest(tab'[t], tab[t])
         /\ tab'[t].open = tab[t].open /\ tab'[t].page = tab[t].page
         /\ tab'[t].served = tab[t].served /\ tab'[t].inbox = tab[t].inbox
         /\ tab'[t].controlled /\ ~tab'[t].changed
<1>. DEFINE r == [tab[t] EXCEPT !.controlled = TRUE, !.changed = FALSE]
<1>1. /\ r \in TabStates /\ SameStand(r, tab[t]) /\ SameRequest(r, tab[t])
      /\ r.open = tab[t].open /\ r.page = tab[t].page
      /\ r.served = tab[t].served /\ r.inbox = tab[t].inbox /\ r.controlled /\ ~r.changed
  BY DEF Tabbed, TabStates, SameStand, SameRequest
<1>2. tab' = [tab EXCEPT ![t] = r]
  BY DEF SetTab
<1>. HIDE DEF r
<1>. QED
  BY <1>1, <1>2, OneTab

\* The worker's steps change every tab.
LEMMA AsksDropped ==
  ASSUME Tabbed, tab' = [t \in Tabs |-> [tab[t] EXCEPT !.asks = FALSE]]
  PROVE  /\ Tabbed'
         /\ \A t \in Tabs : /\ SameLoad(tab'[t], tab[t]) /\ SameStand(tab'[t], tab[t])
                            /\ SameNews(tab'[t], tab[t])
                            /\ tab'[t].awaiting = tab[t].awaiting
                            /\ tab'[t].reply = tab[t].reply /\ ~tab'[t].asks
<1>1. ASSUME NEW t \in Tabs
      PROVE  LET r == [tab[t] EXCEPT !.asks = FALSE]
             IN  /\ r \in TabStates
                 /\ SameLoad(r, tab[t]) /\ SameStand(r, tab[t]) /\ SameNews(r, tab[t])
                 /\ r.awaiting = tab[t].awaiting /\ r.reply = tab[t].reply /\ ~r.asks
  BY DEF Tabbed, TabStates, SameLoad, SameStand, SameNews
<1>. QED
  BY <1>1 DEF Tabbed

\* A request that came while the worker was busy, and one that starts a handshake
Question == [type |-> "check-ready", round |-> round + 1]
LEMMA HandleApplyFacts ==
  ASSUME Tabbed, round \in 0 .. MaxRounds, NEW t \in Tabs, HandleApply(t)
  PROVE  /\ Tabbed'
         /\ \A u \in Tabs :
              /\ SameLoad(tab'[u], tab[u]) /\ SameStand(tab'[u], tab[u])
              /\ tab'[u].changed = tab[u].changed /\ tab'[u].awaiting = tab[u].awaiting
              /\ tab'[u].asks <=> (tab[u].asks /\ u # t)
              /\ phase = "idle" => tab'[u].reply = tab[u].reply
              /\ tab'[u].inbox = IF phase = "idle" /\ Open(u)
                                 THEN Append(tab[u].inbox, Question) ELSE tab[u].inbox
<1>0. \A u \in Tabs : tab[u] \in TabStates /\ tab[u].inbox \in Seq(Messages)
  BY DEF Tabbed, TabStates
<1>1. CASE phase # "idle"
  <2>. DEFINE r == [tab[t] EXCEPT !.asks = FALSE, !.reply = TRUE]
  <2>1. /\ r \in TabStates /\ SameLoad(r, tab[t]) /\ SameStand(r, tab[t])
        /\ r.changed = tab[t].changed /\ r.awaiting = tab[t].awaiting /\ ~r.asks
        /\ r.inbox = tab[t].inbox
    BY <1>0 DEF TabStates, SameLoad, SameStand
  <2>2. tab' = [tab EXCEPT ![t] = r]
    BY <1>1 DEF SetTab, HandleApply
  <2>3. \A u \in Tabs : tab[u].asks \in BOOLEAN
    BY <1>0 DEF TabStates
  <2>. HIDE DEF r
  <2>4. Tabbed' /\ tab'[t] = r /\ \A u \in Tabs : u # t => tab'[u] = tab[u]
    BY <2>1, <2>2, OneTab
  <2>. QED
    BY <1>1, <2>1, <2>3, <2>4 DEF SameLoad, SameStand
<1>2. CASE phase = "idle"
  <2>1. Question \in Messages /\ round' = round + 1
    BY <1>2, UpdatesAssumption DEF HandleApply, Question, Messages
  <2>. DEFINE A(u) == IF u = t THEN [tab[u] EXCEPT !.asks = FALSE] ELSE tab[u]
  <2>. DEFINE R(u) == IF Open(u) THEN [A(u) EXCEPT !.inbox = Append(@, Question)] ELSE A(u)
  <2>2. tab' = [u \in Tabs |-> R(u)]
    BY <1>2, <2>1 DEF HandleApply, Question
  <2>3. ASSUME NEW u \in Tabs
        PROVE  /\ R(u) \in TabStates
               /\ SameLoad(R(u), tab[u]) /\ SameStand(R(u), tab[u])
               /\ R(u).changed = tab[u].changed /\ R(u).awaiting = tab[u].awaiting
               /\ R(u).asks <=> (tab[u].asks /\ u # t)
               /\ R(u).reply = tab[u].reply
               /\ R(u).inbox = IF Open(u) THEN Append(tab[u].inbox, Question) ELSE tab[u].inbox
    <3>1. /\ A(u) \in TabStates /\ SameLoad(A(u), tab[u]) /\ SameStand(A(u), tab[u])
          /\ A(u).changed = tab[u].changed /\ A(u).awaiting = tab[u].awaiting
          /\ A(u).reply = tab[u].reply /\ A(u).inbox = tab[u].inbox
      BY <1>0 DEF TabStates, SameLoad, SameStand
    <3>2. A(u).asks <=> (tab[u].asks /\ u # t)
      <4>1. CASE u = t
        BY <1>0, <4>1 DEF TabStates
      <4>2. CASE u # t
        <5>1. tab[u].asks \in BOOLEAN
          BY <1>0 DEF TabStates
        <5>. QED
          BY <4>2, <5>1
      <4>. QED
        BY <4>1, <4>2
    <3>. DEFINE a == A(u)
    <3>. DEFINE q == Append(tab[u].inbox, Question)
    <3>3. q \in Seq(Messages)
      BY <1>0, <2>1
    <3>4. R(u) = IF Open(u) THEN [a EXCEPT !.inbox = q] ELSE a
      BY <3>1
    <3>. HIDE DEF a, q, A
    <3>5. /\ R(u) \in TabStates /\ SameLoad(R(u), a) /\ SameStand(R(u), a)
          /\ R(u).changed = a.changed /\ R(u).awaiting = a.awaiting /\ R(u).asks = a.asks
          /\ R(u).reply = a.reply /\ R(u).inbox = IF Open(u) THEN q ELSE a.inbox
      <4>. HIDE DEF R
      <4>1. a \in TabStates
        BY <3>1 DEF a
      <4>. QED
        BY <3>3, <3>4, <4>1 DEF TabStates, SameLoad, SameStand
    <3>. HIDE DEF R
    <3>. QED
      BY <3>1, <3>2, <3>5 DEF a, q, SameLoad, SameStand
  <2>. HIDE DEF R
  <2>4. /\ Tabbed'
        /\ \A u \in Tabs : tab'[u] = R(u)
    BY <2>2, <2>3 DEF Tabbed
  <2>. QED
    BY <1>2, <2>3, <2>4
<1>. QED
  BY <1>1, <1>2

\* A refusal is told to the tabs that answered and to the one that asked.
LEMMA RefuseFacts ==
  ASSUME Tabbed, round \in 1 .. MaxRounds, Refuse
  PROVE  /\ Tabbed'
         /\ \A t \in Tabs :
              /\ SameLoad(tab'[t], tab[t]) /\ SameStand(tab'[t], tab[t])
              /\ tab'[t].changed = tab[t].changed /\ tab'[t].awaiting = tab[t].awaiting
              /\ tab'[t].asks = tab[t].asks
              /\ tab'[t].reply = tab[t].reply \/ tab[t].awaiting
              /\ \/ tab'[t].inbox = tab[t].inbox
                 \/ tab'[t].inbox = Append(tab[t].inbox,
                                           [type |-> "update-cancelled", round |-> round])
<1>. DEFINE m == [type |-> "update-cancelled", round |-> round]
<1>1. m \in Messages
  BY DEF Messages
<1>. HIDE DEF m
<1>. DEFINE A(t) == IF Open(t) /\ poll.answer[t] \in {"ready", "busy"}
                    THEN [tab[t] EXCEPT !.inbox = Append(@, m)] ELSE tab[t]
<1>. DEFINE R(t) == IF t = poll.by /\ tab[t].awaiting THEN [A(t) EXCEPT !.reply = TRUE] ELSE A(t)
<1>2. tab' = [t \in Tabs |-> R(t)]
  BY DEF Refuse, m
<1>3. ASSUME NEW t \in Tabs
      PROVE  /\ R(t) \in TabStates
             /\ SameLoad(R(t), tab[t]) /\ SameStand(R(t), tab[t])
             /\ R(t).changed = tab[t].changed /\ R(t).awaiting = tab[t].awaiting
             /\ R(t).asks = tab[t].asks
             /\ R(t).reply = tab[t].reply \/ tab[t].awaiting
             /\ R(t).inbox = tab[t].inbox \/ R(t).inbox = Append(tab[t].inbox, m)
  <2>1. tab[t] \in TabStates /\ tab[t].inbox \in Seq(Messages)
    BY DEF Tabbed, TabStates
  <2>. DEFINE q == Append(tab[t].inbox, m)
  <2>2. q \in Seq(Messages)
    BY <1>1, <2>1
  <2>. HIDE DEF q
  <2>3. /\ A(t) \in TabStates /\ SameLoad(A(t), tab[t]) /\ SameStand(A(t), tab[t])
        /\ A(t).changed = tab[t].changed /\ A(t).awaiting = tab[t].awaiting
        /\ A(t).reply = tab[t].reply /\ A(t).asks = tab[t].asks
        /\ A(t).inbox = tab[t].inbox \/ A(t).inbox = q
    <3>1. A(t) = tab[t] \/ A(t) = [tab[t] EXCEPT !.inbox = q]
      BY DEF q
    <3>. HIDE DEF A
    <3>. QED
      BY <2>1, <2>2, <3>1 DEF TabStates, SameLoad, SameStand
  <2>. DEFINE a == A(t)
  <2>4. R(t) = IF t = poll.by /\ tab[t].awaiting THEN [a EXCEPT !.reply = TRUE] ELSE a
    OBVIOUS
  <2>. HIDE DEF A, a, R
  <2>5. /\ R(t) \in TabStates /\ SameLoad(R(t), a) /\ SameStand(R(t), a)
        /\ R(t).changed = a.changed /\ R(t).awaiting = a.awaiting /\ R(t).asks = a.asks
        /\ R(t).inbox = a.inbox /\ (R(t).reply = a.reply \/ tab[t].awaiting)
    <3>1. a \in TabStates
      BY <2>3 DEF a
    <3>. QED
      BY <2>4, <3>1 DEF TabStates, SameLoad, SameStand
  <2>. QED
    BY <2>3, <2>5 DEF a, q, SameLoad, SameStand
<1>. HIDE DEF R
<1>4. Tabbed' /\ \A t \in Tabs : tab'[t] = R(t)
  BY <1>2, <1>3 DEF Tabbed
<1>. QED
  BY <1>3, <1>4 DEF m

\* The activation begins: the requests are forgotten, and controlled tabs will hear of the change.
LEMMA ActivateBeginsFacts ==
  ASSUME Tabbed, ActivateBegins
  PROVE  /\ Tabbed'
         /\ \A t \in Tabs :
              /\ SameLoad(tab'[t], tab[t]) /\ SameStand(tab'[t], tab[t])
              /\ tab'[t].awaiting = tab[t].awaiting /\ tab'[t].reply = tab[t].reply
              /\ tab'[t].inbox = tab[t].inbox /\ ~tab'[t].asks
              /\ tab'[t].changed <=> (tab[t].changed \/ (Open(t) /\ tab[t].controlled))
<1>. DEFINE R(t) == [tab[t] EXCEPT !.asks = FALSE,
                                   !.changed = @ \/ (Open(t) /\ tab[t].controlled)]
<1>1. ASSUME NEW t \in Tabs
      PROVE  /\ R(t) \in TabStates /\ SameLoad(R(t), tab[t]) /\ SameStand(R(t), tab[t])
             /\ R(t).awaiting = tab[t].awaiting /\ R(t).reply = tab[t].reply
             /\ R(t).inbox = tab[t].inbox /\ ~R(t).asks
             /\ R(t).changed <=> (tab[t].changed \/ (Open(t) /\ tab[t].controlled))
  <2>. DEFINE c == tab[t].changed \/ (Open(t) /\ tab[t].controlled)
  <2>1. c \in BOOLEAN /\ tab[t] \in TabStates
    BY DEF Tabbed
  <2>2. R(t) = [tab[t] EXCEPT !.asks = FALSE, !.changed = c]
    BY <2>1 DEF TabStates
  <2>. HIDE DEF c, R
  <2>3. /\ R(t) \in TabStates /\ SameLoad(R(t), tab[t]) /\ SameStand(R(t), tab[t])
        /\ R(t).awaiting = tab[t].awaiting /\ R(t).reply = tab[t].reply
        /\ R(t).inbox = tab[t].inbox /\ ~R(t).asks /\ (R(t).changed <=> c)
    BY <2>1, <2>2 DEF TabStates, SameLoad, SameStand
  <2>. QED
    BY <2>3 DEF c
<1>2. tab' = [t \in Tabs |-> R(t)]
  BY DEF ActivateBegins
<1>. HIDE DEF R
<1>3. Tabbed' /\ \A t \in Tabs : tab'[t] = R(t)
  BY <1>1, <1>2 DEF Tabbed
<1>. QED
  BY <1>1, <1>3

\* The activation ends: the worker claims the tabs that had no controller.
LEMMA ActivateEndsFacts ==
  ASSUME Tabbed, ActivateEnds
  PROVE  /\ Tabbed'
         /\ \A t \in Tabs :
              /\ SameLoad(tab'[t], tab[t]) /\ SameStand(tab'[t], tab[t])
              /\ SameRequest(tab'[t], tab[t]) /\ tab'[t].inbox = tab[t].inbox
              /\ tab'[t].changed <=> (tab[t].changed \/ (Open(t) /\ ~tab[t].controlled))
<1>. DEFINE R(t) == [tab[t] EXCEPT !.changed = @ \/ (Open(t) /\ ~tab[t].controlled)]
<1>1. ASSUME NEW t \in Tabs
      PROVE  /\ R(t) \in TabStates /\ SameLoad(R(t), tab[t]) /\ SameStand(R(t), tab[t])
             /\ SameRequest(R(t), tab[t]) /\ R(t).inbox = tab[t].inbox
             /\ R(t).changed <=> (tab[t].changed \/ (Open(t) /\ ~tab[t].controlled))
  <2>. DEFINE c == tab[t].changed \/ (Open(t) /\ ~tab[t].controlled)
  <2>1. c \in BOOLEAN /\ tab[t] \in TabStates
    BY DEF Tabbed
  <2>2. R(t) = [tab[t] EXCEPT !.changed = c]
    BY <2>1 DEF TabStates
  <2>. HIDE DEF c, R
  <2>3. /\ R(t) \in TabStates /\ SameLoad(R(t), tab[t]) /\ SameStand(R(t), tab[t])
        /\ SameRequest(R(t), tab[t]) /\ R(t).inbox = tab[t].inbox /\ (R(t).changed <=> c)
    BY <2>1, <2>2 DEF TabStates, SameLoad, SameStand, SameRequest
  <2>. QED
    BY <2>3 DEF c
<1>2. tab' = [t \in Tabs |-> R(t)]
  BY DEF ActivateEnds
<1>. HIDE DEF R
<1>3. Tabbed' /\ \A t \in Tabs : tab'[t] = R(t)
  BY <1>1, <1>2 DEF Tabbed
<1>. QED
  BY <1>1, <1>3

------------------------------------------------------------------------------
(* Type correctness.                                                       *)

TypeInv == UpdatesTypeOK /\ (phase = "asking" => round > 0)
Polls == [by : Tabs, answer : [Tabs -> Answers]]

LEMMA TypeFacts ==
  ASSUME TypeInv
  PROVE  /\ Tabbed /\ WorkerType /\ round \in 0 .. MaxRounds /\ poll \in Polls
         /\ caches \subseteq Builds /\ opened \subseteq Builds /\ recorded \in 0 .. MaxBuild
         /\ MaxBuild \in Nat /\ MaxRounds \in Nat
         /\ phase \in {"idle", "asking", "skipping", "activating"}
BY UpdatesAssumption DEF TypeInv, UpdatesTypeOK, Tabbed, WorkerType, Polls

\* What a page answered when it goes
GoneAnswer(a) == IF a = "asked" THEN "lost" ELSE IF a = "ready" THEN "unasked" ELSE a
LEMMA UnloadPoll ==
  ASSUME poll \in Polls, NEW t \in Tabs, NEW s, Unload(t, s)
  PROVE  /\ poll' \in Polls /\ poll'.by = poll.by
         /\ poll'.answer[t] = GoneAnswer(poll.answer[t])
         /\ \A u \in Tabs : u # t => poll'.answer[u] = poll.answer[u]
<1>. DEFINE a == [poll.answer EXCEPT ![t] = GoneAnswer(@)]
<1>1. /\ a \in [Tabs -> Answers] /\ a[t] = GoneAnswer(poll.answer[t])
      /\ \A u \in Tabs : u # t => a[u] = poll.answer[u]
  BY DEF Polls, GoneAnswer, Answers
<1>2. poll' = [poll EXCEPT !.answer = a]
  BY DEF Unload, GoneAnswer, Polls
<1>. HIDE DEF a
<1>. QED
  BY <1>1, <1>2 DEF Polls

LEMMA AnswerPoll ==
  ASSUME poll \in Polls, NEW t \in Tabs, NEW b \in Answers,
         poll' = [poll EXCEPT !.answer[t] = b]
  PROVE  /\ poll' \in Polls /\ poll'.by = poll.by /\ poll'.answer[t] = b
         /\ \A u \in Tabs : u # t => poll'.answer[u] = poll.answer[u]
<1>. DEFINE a == [poll.answer EXCEPT ![t] = b]
<1>1. /\ a \in [Tabs -> Answers] /\ a[t] = b
      /\ \A u \in Tabs : u # t => a[u] = poll.answer[u]
  BY DEF Polls
<1>2. poll' = [poll EXCEPT !.answer = a]
  BY DEF Polls
<1>. HIDE DEF a
<1>. QED
  BY <1>1, <1>2 DEF Polls

\* The steps that replace the page of a tab or leave its place to none
Leaves(t) == CloseTab(t) \/ (ControllerChanges(t) /\ (tab[t].controlled \/ tab[t].awaiting))
LEMMA LeavesFacts ==
  ASSUME TypeInv, NEW t \in Tabs, Leaves(t)
  PROVE  /\ Tabbed' /\ \A u \in Tabs : u # t => tab'[u] = tab[u]
         /\ tab'[t].asks = tab[t].asks /\ ~tab'[t].awaiting /\ ~tab'[t].reply
         /\ ~tab'[t].busy /\ ~tab'[t].applying /\ ~tab'[t].changed /\ tab'[t].inbox = <<>>
         /\ \/ ~tab'[t].served /\ ~tab'[t].open
            \/ /\ tab'[t].open
               /\ tab'[t].controlled <=> worker.active # 0
               /\ tab'[t].served <=> worker.active # 0
               /\ worker.active # 0 => tab'[t].page = worker.active
         /\ poll' \in Polls /\ poll'.by = poll.by
         /\ poll'.answer[t] = GoneAnswer(poll.answer[t])
         /\ \A u \in Tabs : u # t => poll'.answer[u] = poll.answer[u]
         /\ UNCHANGED <<worker, phase, round, caches, opened, recorded>>
<1>0. Tabbed /\ WorkerType /\ poll \in Polls
  BY TypeFacts
<1>1. /\ Closed \in TabStates /\ ~Closed.open /\ ~Closed.served /\ ~Closed.awaiting
      /\ ~Closed.reply /\ ~Closed.busy /\ ~Closed.applying /\ ~Closed.changed
      /\ Closed.inbox = <<>>
  BY ClosedType DEF Closed
<1>2. Loaded \in TabStates /\ FreshTab(Loaded)
  BY <1>0, LoadedFacts
<1>3. ASSUME NEW s \in TabStates, Unload(t, s), s = Closed \/ s = Loaded
      PROVE  /\ Tabbed' /\ \A u \in Tabs : u # t => tab'[u] = tab[u]
             /\ SameLoad(tab'[t], s) /\ SameStand(tab'[t], s) /\ SameNews(tab'[t], s)
             /\ tab'[t].awaiting = s.awaiting /\ tab'[t].reply = s.reply
             /\ tab'[t].asks = tab[t].asks
             /\ UNCHANGED <<worker, phase, round, caches, opened, recorded>>
  <2>1. SetTab(t, [s EXCEPT !.asks = tab[t].asks])
    BY <1>3 DEF Unload
  <2>2. UNCHANGED <<worker, phase, round, caches, opened, recorded>>
    BY <1>3 DEF Unload, KeepCaches
  <2>. QED
    BY <1>0, <2>1, <2>2, UnloadFacts
<1>4. CASE Unload(t, Closed)
  BY <1>0, <1>1, <1>3, <1>4, UnloadPoll DEF SameLoad, SameStand, SameNews
<1>5. CASE Unload(t, Loaded)
  BY <1>0, <1>2, <1>3, <1>5, UnloadPoll DEF SameLoad, SameStand, SameNews, FreshTab
<1>. QED
  BY <1>4, <1>5 DEF Leaves, CloseTab, ControllerChanges

LEMMA OpensFacts ==
  ASSUME TypeInv, NEW t \in Tabs, OpenTab(t)
  PROVE  /\ Tabbed' /\ \A u \in Tabs : u # t => tab'[u] = tab[u]
         /\ tab'[t].asks = tab[t].asks /\ ~tab'[t].awaiting /\ ~tab'[t].reply
         /\ ~tab'[t].busy /\ ~tab'[t].applying /\ ~tab'[t].changed /\ tab'[t].inbox = <<>>
         /\ tab'[t].open
         /\ tab'[t].controlled <=> worker.active # 0
         /\ tab'[t].served <=> worker.active # 0
         /\ worker.active # 0 => tab'[t].page = worker.active
         /\ UNCHANGED <<worker, phase, round, poll, caches, opened, recorded>>
<1>0. Tabbed /\ WorkerType
  BY TypeFacts
<1>1. Loaded \in TabStates /\ FreshTab(Loaded)
  BY <1>0, LoadedFacts
<1>2. SetTab(t, [Loaded EXCEPT !.asks = tab[t].asks])
  BY DEF OpenTab
<1>3. UNCHANGED <<worker, phase, round, poll, caches, opened, recorded>>
  BY DEF OpenTab, KeepWorker
<1>. QED
  BY <1>0, <1>1, <1>2, <1>3, UnloadFacts DEF SameLoad, SameStand, SameNews, FreshTab


\* The steps of a tab that keep its page and who controls it
Quiet(t) ==
  \/ StartWork(t) \/ FinishWork(t) \/ ReplyArrives(t) \/ RequestTimesOut(t)
  \/ HandleCheck(t) \/ HandleCancelled(t) \/ LockExpires(t)
LEMMA QuietFacts ==
  ASSUME TypeInv, NEW t \in Tabs, Quiet(t)
  PROVE  /\ Tabbed' /\ \A u \in Tabs : u # t => tab'[u] = tab[u]
         /\ SameLoad(tab'[t], tab[t])
         /\ tab'[t].changed = tab[t].changed /\ tab'[t].asks = tab[t].asks
         /\ poll' \in Polls /\ poll'.by = poll.by
         /\ \A u \in Tabs : u # t => poll'.answer[u] = poll.answer[u]
         /\ UNCHANGED <<worker, phase, round, caches, opened, recorded>>
<1>0. Tabbed /\ round \in 0 .. MaxRounds /\ poll \in Polls
  BY TypeFacts
<1>. DEFINE P == poll' \in Polls /\ poll'.by = poll.by
                 /\ \A u \in Tabs : u # t => poll'.answer[u] = poll.answer[u]
<1>1. UNCHANGED poll => P
  BY <1>0
<1>2. CASE StartWork(t) \/ FinishWork(t)
  <2>1. SetTab(t, [tab[t] EXCEPT !.busy = TRUE]) \/ SetTab(t, [tab[t] EXCEPT !.busy = FALSE])
    BY <1>2 DEF StartWork, FinishWork
  <2>2. UNCHANGED <<worker, phase, round, poll, caches, opened, recorded>>
    BY <1>2 DEF StartWork, FinishWork, KeepWorker
  <2>. HIDE DEF P
  <2>3. /\ Tabbed' /\ \A u \in Tabs : u # t => tab'[u] = tab[u]
        /\ SameLoad(tab'[t], tab[t]) /\ SameRequest(tab'[t], tab[t]) /\ SameNews(tab'[t], tab[t])
    BY <1>0, <2>1, WorkFacts
  <2>. QED
    BY <1>1, <2>2, <2>3 DEF P, SameRequest, SameNews
<1>3. CASE ReplyArrives(t) \/ RequestTimesOut(t)
  <2>1. RequestEnds(t)
    BY <1>3 DEF ReplyArrives, RequestTimesOut
  <2>2. UNCHANGED <<worker, phase, round, poll, caches, opened, recorded>>
    BY <1>3 DEF ReplyArrives, RequestTimesOut, KeepWorker
  <2>. QED
    BY <1>0, <1>1, <2>1, <2>2, RequestEndsFacts DEF SameNews
<1>4. CASE HandleCheck(t)
  <2>1. P
    <3>1. CASE UNCHANGED poll
      BY <1>1, <3>1
    <3>2. CASE ~UNCHANGED poll
      <4>1. \E b \in Answers : poll' = [poll EXCEPT !.answer[t] = b]
        BY <1>4, <3>2 DEF HandleCheck, Answers
      <4>. QED
        BY <1>0, <4>1, AnswerPoll
    <3>. QED
      BY <3>1, <3>2
  <2>2. UNCHANGED <<worker, phase, round, caches, opened, recorded>>
    BY <1>4 DEF HandleCheck, KeepCaches
  <2>. QED
    BY <1>0, <1>4, <2>1, <2>2, HandleCheckFacts DEF SameRequest
<1>5. CASE HandleCancelled(t)
  <2>1. UNCHANGED <<worker, phase, round, poll, caches, opened, recorded>>
    BY <1>5 DEF HandleCancelled, KeepWorker
  <2>. QED
    BY <1>0, <1>1, <1>5, <2>1, HandleCancelledFacts DEF SameRequest
<1>6. CASE LockExpires(t)
  <2>1. UNCHANGED <<worker, phase, round, poll, caches, opened, recorded>>
    BY <1>6 DEF LockExpires, KeepWorker
  <2>. QED
    BY <1>0, <1>1, <1>6, <2>1, LockExpiresFacts DEF SameRequest, SameNews
<1>. QED
  BY <1>2, <1>3, <1>4, <1>5, <1>6 DEF Quiet

\* A request begins.
LEMMA AppliesFacts ==
  ASSUME TypeInv, NEW t \in Tabs, Apply(t)
  PROVE  /\ Tabbed' /\ \A u \in Tabs : u # t => tab'[u] = tab[u]
         /\ SameLoad(tab'[t], tab[t]) /\ SameNews(tab'[t], tab[t])
         /\ tab'[t].busy = tab[t].busy /\ tab'[t].lock = tab[t].lock
         /\ tab'[t].reply = tab[t].reply
         /\ tab'[t].applying /\ tab'[t].awaiting /\ tab'[t].asks
         /\ UNCHANGED <<worker, phase, round, poll, caches, opened, recorded>>
BY TypeFacts, ApplyFacts DEF Apply, KeepWorker

\* A tab that had no controller gets one.
TakenOver(t) == ControllerChanges(t) /\ ~(tab[t].controlled \/ tab[t].awaiting)
LEMMA TakesOverFacts ==
  ASSUME TypeInv, NEW t \in Tabs, TakenOver(t)
  PROVE  /\ Tabbed' /\ \A u \in Tabs : u # t => tab'[u] = tab[u]
         /\ SameStand(tab'[t], tab[t]) /\ SameRequest(tab'[t], tab[t])
         /\ tab'[t].open = tab[t].open /\ tab'[t].page = tab[t].page
         /\ tab'[t].served = tab[t].served /\ tab'[t].inbox = tab[t].inbox
         /\ tab'[t].controlled /\ ~tab'[t].changed
         /\ tab[t].changed /\ ~tab[t].controlled /\ ~tab[t].awaiting
         /\ UNCHANGED <<worker, phase, round, poll, caches, opened, recorded>>
<1>1. Tabbed
  BY TypeFacts
<1>2. SetTab(t, [tab[t] EXCEPT !.controlled = TRUE, !.changed = FALSE])
  BY DEF TakenOver, ControllerChanges
<1>3. UNCHANGED <<worker, phase, round, poll, caches, opened, recorded>>
  BY DEF TakenOver, ControllerChanges, KeepWorker
<1>4. tab[t].changed /\ ~tab[t].controlled /\ ~tab[t].awaiting
  BY DEF TakenOver, ControllerChanges
<1>. QED
  BY <1>1, <1>2, <1>3, <1>4, TakenOverFacts

\* Every step, by what it does to the tabs
LEMMA StepCases ==
  ASSUME UpdatesNext
  PROVE  \/ \E t \in Tabs : OpenTab(t) \/ Leaves(t) \/ Quiet(t) \/ Apply(t) \/ TakenOver(t)
         \/ \E t \in Tabs : HandleApply(t) \/ AnswerTimesOut(t)
         \/ Refuse \/ SkipWaiting \/ ActivateBegins \/ ActivateEnds
         \/ InstallBegins \/ InstallSucceeds \/ InstallFails
<1>1. CASE TabActs
  BY <1>1 DEF TabActs, Leaves, Quiet
<1>2. CASE TabHears
  <2>1. PICK t \in Tabs : \/ ReplyArrives(t) \/ RequestTimesOut(t)
                          \/ HandleCheck(t) \/ HandleCancelled(t) \/ LockExpires(t)
                          \/ ControllerChanges(t)
    BY <1>2 DEF TabHears
  <2>2. Leaves(t) \/ Quiet(t) \/ TakenOver(t)
    BY <2>1 DEF Leaves, Quiet, TakenOver
  <2>. QED
    BY <2>2
<1>3. CASE WorkerActs
  BY <1>3 DEF WorkerActs
<1>4. CASE Deployment
  BY <1>4 DEF Deployment
<1>. QED
  BY <1>1, <1>2, <1>3, <1>4 DEF UpdatesNext

\* A handshake begins: the open tabs are asked.
LEMMA HandshakeFacts ==
  ASSUME TypeInv, NEW t \in Tabs, HandleApply(t)
  PROVE  /\ UNCHANGED <<worker, caches, opened, recorded>>
         /\ IF phase = "idle"
            THEN /\ phase' = "asking" /\ round' = round + 1 /\ round' \in 0 .. MaxRounds
                 /\ poll' \in Polls /\ poll'.by = t
                 /\ \A u \in Tabs : poll'.answer[u] = IF Open(u) THEN "asked" ELSE "unasked"
            ELSE UNCHANGED <<phase, round, poll>>
<1>0. round \in 0 .. MaxRounds /\ MaxRounds \in Nat
  BY TypeFacts
<1>1. CASE phase # "idle"
  BY <1>1 DEF HandleApply, KeepWorker
<1>2. CASE phase = "idle"
  <2>1. /\ phase' = "asking" /\ round < MaxRounds /\ round' = round + 1
        /\ UNCHANGED <<worker, caches, opened, recorded>>
    BY <1>2 DEF HandleApply, KeepCaches
  <2>. DEFINE a == [u \in Tabs |-> IF Open(u) THEN "asked" ELSE "unasked"]
  <2>2. poll' = [by |-> t, answer |-> a]
    BY <1>2 DEF HandleApply
  <2>3. a \in [Tabs -> Answers] /\ \A u \in Tabs : a[u] = IF Open(u) THEN "asked" ELSE "unasked"
    BY DEF Answers
  <2>. HIDE DEF a
  <2>4. /\ poll' \in Polls /\ poll'.by = t
        /\ \A u \in Tabs : poll'.answer[u] = IF Open(u) THEN "asked" ELSE "unasked"
    BY <2>2, <2>3 DEF Polls
  <2>. QED
    BY <1>0, <1>2, <2>1, <2>4
<1>. QED
  BY <1>1, <1>2

LEMMA InstallFacts ==
  ASSUME TypeInv, InstallBegins \/ InstallSucceeds \/ InstallFails
  PROVE  /\ Tabbed' /\ WorkerType' /\ UNCHANGED <<round, poll, recorded>>
         /\ caches' \subseteq Builds /\ opened' \subseteq Builds
         /\ worker'.active = worker.active /\ phase' \in {phase, "idle"}
<1>0. /\ Tabbed /\ WorkerType /\ caches \subseteq Builds /\ opened \subseteq Builds
      /\ MaxBuild \in Nat
  BY TypeFacts
<1>1. CASE InstallBegins
  <2>1. Newest + 1 \in Builds
    BY <1>0, <1>1 DEF InstallBegins, Newest, WorkerType, Builds
  <2>2. /\ worker' = [worker EXCEPT !.installing = Newest + 1]
        /\ opened' = opened \cup {Newest + 1}
        /\ UNCHANGED <<phase, round, poll, caches, recorded, tab>>
    BY <1>1 DEF InstallBegins
  <2>. QED
    BY <1>0, <2>1, <2>2 DEF WorkerType, Builds, Tabbed
<1>2. CASE InstallSucceeds
  <2>1. Tabbed'
    BY <1>0, <1>2, AsksDropped DEF InstallSucceeds
  <2>2. /\ worker' = [worker EXCEPT !.installing = 0, !.waiting = worker.installing]
        /\ caches' = caches \cup (opened \cap {worker.installing})
        /\ opened' = opened \ {worker.installing}
        /\ phase' = "idle" /\ UNCHANGED <<round, poll, recorded>>
    BY <1>2 DEF InstallSucceeds
  <2>3. worker' = [installing |-> 0, waiting |-> worker.installing, active |-> worker.active]
    BY <1>0, <2>2 DEF WorkerType
  <2>4. WorkerType' /\ worker'.active = worker.active
    BY <1>0, <2>3 DEF WorkerType
  <2>. QED
    BY <1>0, <2>1, <2>2, <2>4
<1>3. CASE InstallFails
  BY <1>0, <1>3 DEF InstallFails, WorkerType, Tabbed
<1>. QED
  BY <1>1, <1>2, <1>3

LEMMA TypeStep == TypeInv /\ [UpdatesNext]_updatesVars => TypeInv'
<1>. SUFFICES ASSUME TypeInv, [UpdatesNext]_updatesVars PROVE TypeInv'
  OBVIOUS
<1>0. /\ Tabbed /\ WorkerType /\ round \in 0 .. MaxRounds /\ poll \in Polls
      /\ caches \subseteq Builds /\ opened \subseteq Builds /\ recorded \in 0 .. MaxBuild
      /\ MaxBuild \in Nat /\ MaxRounds \in Nat
      /\ phase \in {"idle", "asking", "skipping", "activating"}
      /\ phase = "asking" => round > 0
  BY TypeFacts DEF TypeInv
<1>1. ASSUME Tabbed', WorkerType', round' \in 0 .. MaxRounds, poll' \in Polls,
             caches' \subseteq Builds, opened' \subseteq Builds, recorded' \in 0 .. MaxBuild,
             phase' \in {"idle", "asking", "skipping", "activating"},
             phase' = "asking" => round' > 0
      PROVE  TypeInv'
  BY <1>1 DEF TypeInv, UpdatesTypeOK, Tabbed, WorkerType, Polls
<1>2. ASSUME Tabbed', poll' \in Polls,
             UNCHANGED <<worker, phase, round, caches, opened, recorded>>
      PROVE  TypeInv'
  BY <1>0, <1>1, <1>2 DEF WorkerType
<1>3. CASE \E t \in Tabs : OpenTab(t) \/ Leaves(t) \/ Quiet(t) \/ Apply(t) \/ TakenOver(t)
  <2>1. PICK t \in Tabs : OpenTab(t) \/ Leaves(t) \/ Quiet(t) \/ Apply(t) \/ TakenOver(t)
    BY <1>3
  <2>2. CASE OpenTab(t)
    BY <1>0, <1>2, <2>2, OpensFacts
  <2>3. CASE Leaves(t)
    BY <1>2, <2>3, LeavesFacts
  <2>4. CASE Quiet(t)
    BY <1>2, <2>4, QuietFacts
  <2>5. CASE Apply(t)
    BY <1>0, <1>2, <2>5, AppliesFacts
  <2>6. CASE TakenOver(t)
    BY <1>0, <1>2, <2>6, TakesOverFacts
  <2>. QED
    BY <2>1, <2>2, <2>3, <2>4, <2>5, <2>6
<1>4. ASSUME NEW t \in Tabs, HandleApply(t)
      PROVE  TypeInv'
  <2>1. Tabbed'
    BY <1>0, <1>4, HandleApplyFacts
  <2>2. /\ UNCHANGED <<worker, caches, opened, recorded>>
        /\ IF phase = "idle"
           THEN phase' = "asking" /\ round' = round + 1 /\ round' \in 0 .. MaxRounds
                /\ poll' \in Polls
           ELSE UNCHANGED <<phase, round, poll>>
    BY <1>4, HandshakeFacts
  <2>3. CASE phase = "idle"
    BY <1>0, <1>1, <2>1, <2>2, <2>3 DEF WorkerType
  <2>4. CASE phase # "idle"
    BY <1>0, <1>2, <2>1, <2>2, <2>4
  <2>. QED
    BY <2>3, <2>4
<1>5. ASSUME NEW t \in Tabs, AnswerTimesOut(t)
      PROVE  TypeInv'
  <2>1. poll' \in Polls
    BY <1>0, <1>5, AnswerPoll DEF AnswerTimesOut, Answers
  <2>. QED
    BY <1>0, <1>2, <1>5, <2>1 DEF AnswerTimesOut, KeepCaches, Tabbed
<1>6. CASE Refuse
  <2>1. round \in 1 .. MaxRounds
    BY <1>0, <1>6 DEF Refuse
  <2>2. Tabbed'
    BY <1>0, <1>6, <2>1, RefuseFacts
  <2>. QED
    BY <1>0, <1>1, <1>6, <2>2 DEF Refuse, KeepCaches, WorkerType
<1>7. CASE SkipWaiting
  BY <1>0, <1>1, <1>7 DEF SkipWaiting, KeepCaches, WorkerType, Tabbed
<1>8. CASE ActivateBegins
  <2>1. Tabbed'
    BY <1>0, <1>8, ActivateBeginsFacts
  <2>2. WorkerType'
    <3>1. worker' = [worker EXCEPT !.waiting = 0, !.active = worker.waiting]
      BY <1>8 DEF ActivateBegins
    <3>2. worker' = [installing |-> worker.installing, waiting |-> 0, active |-> worker.waiting]
      BY <1>0, <3>1 DEF WorkerType
    <3>. QED
      BY <1>0, <3>2 DEF WorkerType
  <2>. QED
    BY <1>0, <1>1, <1>8, <2>1, <2>2 DEF ActivateBegins, KeepCaches
<1>9. CASE ActivateEnds
  <2>1. Tabbed'
    BY <1>0, <1>9, ActivateEndsFacts
  <2>2. /\ UNCHANGED <<worker, round, poll>> /\ phase' = "idle"
        /\ caches' \subseteq caches /\ opened' \subseteq opened /\ recorded' = worker.active
    BY <1>9 DEF ActivateEnds
  <2>. QED
    BY <1>0, <1>1, <2>1, <2>2 DEF WorkerType
<1>10. CASE InstallBegins \/ InstallSucceeds \/ InstallFails
  <2>1. /\ Tabbed' /\ WorkerType' /\ UNCHANGED <<round, poll, recorded>>
        /\ caches' \subseteq Builds /\ opened' \subseteq Builds
        /\ phase' \in {phase, "idle"}
    BY <1>10, InstallFacts
  <2>. QED
    BY <1>0, <1>1, <2>1
<1>11. CASE UNCHANGED updatesVars
  BY <1>0, <1>2, <1>11 DEF updatesVars, Tabbed
<1>. QED
  BY <1>3, <1>4, <1>5, <1>6, <1>7, <1>8, <1>9, <1>10, <1>11, StepCases

LEMMA TypeStart == UpdatesInit => TypeInv
<1>. SUFFICES ASSUME UpdatesInit PROVE TypeInv
  OBVIOUS
<1>1. tab \in [Tabs -> TabStates]
  BY ClosedType DEF UpdatesInit
<1>2. [t \in Tabs |-> "unasked"] \in [Tabs -> Answers]
  BY DEF Answers
<1>3. poll \in [by : Tabs, answer : [Tabs -> Answers]]
  BY <1>2 DEF UpdatesInit
<1>. QED
  BY <1>1, <1>3, UpdatesAssumption DEF UpdatesInit, TypeInv, UpdatesTypeOK

\* The type of every variable of the update, the order of a tab's life included: a handshake
\* that runs has a number (update-manager.ts, browser-updates.ts and sw.js together).
THEOREM UpdatesTypeCorrect == UpdatesSpec => []UpdatesTypeOK
<1>1. TypeInv => UpdatesTypeOK
  BY DEF TypeInv
<1>. QED
  BY <1>1, TypeStart, TypeStep, PTL DEF UpdatesSpec

------------------------------------------------------------------------------
(* Who hears of a change.                                                  *)

\* While a request is on its way, or a handshake runs, no tab has yet to hear of a change.
NobodyReloads == \A t \in Tabs : ~tab[t].changed
ChangesAreAwaited ==
  /\ \A t \in Tabs : tab[t].asks => phase # "activating" /\ NobodyReloads
  /\ phase \in {"asking", "skipping"} => NobodyReloads

LEMMA AwaitedStart == UpdatesInit => ChangesAreAwaited
BY DEF UpdatesInit, Closed, ChangesAreAwaited

\* A step that tells no tab of a change
LEMMA AwaitedKept ==
  ASSUME ChangesAreAwaited,
         \A t \in Tabs : (tab'[t].asks => tab[t].asks) /\ (tab'[t].changed => tab[t].changed),
         \/ phase' \in {phase, "idle"}
         \/ phase' \in {"asking", "skipping"} /\ NobodyReloads
  PROVE  ChangesAreAwaited'
<1>1. NobodyReloads => NobodyReloads'
  BY DEF NobodyReloads
<1>. QED
  BY <1>1 DEF ChangesAreAwaited

LEMMA AwaitedStep ==
  ASSUME Prompt, TypeInv, ChangesAreAwaited, UpdatesNext
  PROVE  ChangesAreAwaited'
<1>0. /\ Tabbed /\ WorkerType /\ round \in 0 .. MaxRounds
      /\ phase = "asking" => round \in 1 .. MaxRounds
  BY TypeFacts DEF TypeInv
<1>1. ASSUME NEW t \in Tabs, OpenTab(t) \/ Leaves(t) \/ Quiet(t) \/ TakenOver(t)
      PROVE  ChangesAreAwaited'
  <2>1. /\ \A u \in Tabs : u # t => tab'[u] = tab[u]
        /\ tab'[t].asks = tab[t].asks /\ (tab'[t].changed => tab[t].changed)
        /\ UNCHANGED phase
    BY <1>1, OpensFacts, LeavesFacts, QuietFacts, TakesOverFacts DEF SameRequest
  <2>. QED
    BY <2>1, AwaitedKept
<1>2. ASSUME NEW t \in Tabs, Apply(t)
      PROVE  ChangesAreAwaited'
  <2>1. phase # "activating" /\ NobodyReloads
    BY <1>2 DEF Apply, ChangePending, NobodyReloads
  <2>2. UNCHANGED phase /\ \A u \in Tabs : ~tab'[u].changed
    BY <1>2, <2>1, AppliesFacts DEF SameNews, NobodyReloads
  <2>. QED
    BY <2>1, <2>2 DEF ChangesAreAwaited, NobodyReloads
<1>3. ASSUME NEW t \in Tabs, HandleApply(t)
      PROVE  ChangesAreAwaited'
  <2>1. \A u \in Tabs : tab'[u].changed = tab[u].changed /\ (tab'[u].asks => tab[u].asks)
    BY <1>0, <1>3, HandleApplyFacts
  <2>2. NobodyReloads
    BY <1>3 DEF HandleApply, ChangesAreAwaited
  <2>3. phase' = phase \/ phase' = "asking"
    BY <1>3, HandshakeFacts
  <2>. QED
    BY <2>1, <2>2, <2>3, AwaitedKept
<1>4. ASSUME NEW t \in Tabs, AnswerTimesOut(t)
      PROVE  ChangesAreAwaited'
  BY <1>4, AwaitedKept DEF AnswerTimesOut
<1>5. CASE Refuse
  <2>1. phase = "asking" /\ phase' = "idle"
    BY <1>5 DEF Refuse
  <2>2. \A u \in Tabs : tab'[u].changed = tab[u].changed /\ tab'[u].asks = tab[u].asks
    BY <1>0, <1>5, <2>1, RefuseFacts
  <2>. QED
    BY <2>1, <2>2, AwaitedKept
<1>6. CASE SkipWaiting
  BY <1>6, AwaitedKept DEF SkipWaiting, ChangesAreAwaited
<1>7. CASE ActivateBegins
  <2>1. phase' = "activating" /\ \A t \in Tabs : ~tab'[t].asks
    BY <1>0, <1>7, ActivateBeginsFacts DEF ActivateBegins
  <2>. QED
    BY <2>1 DEF ChangesAreAwaited
<1>8. CASE ActivateEnds
  <2>1. phase = "activating" /\ phase' = "idle"
    BY <1>8 DEF ActivateEnds
  <2>2. \A t \in Tabs : tab'[t].asks = tab[t].asks
    BY <1>0, <1>8, ActivateEndsFacts DEF SameRequest
  <2>. QED
    BY <2>1, <2>2 DEF ChangesAreAwaited
<1>9. CASE InstallBegins \/ InstallFails
  BY <1>9, AwaitedKept DEF InstallBegins, InstallFails
<1>10. CASE InstallSucceeds
  <2>1. phase' = "idle" /\ tab' = [t \in Tabs |-> [tab[t] EXCEPT !.asks = FALSE]]
    BY <1>10 DEF InstallSucceeds
  <2>2. \A t \in Tabs : tab'[t].changed = tab[t].changed /\ ~tab'[t].asks
    BY <1>0, <2>1, AsksDropped DEF SameNews
  <2>. QED
    BY <2>1, <2>2, AwaitedKept
<1>. QED
  BY <1>1, <1>2, <1>3, <1>4, <1>5, <1>6, <1>7, <1>8, <1>9, <1>10, StepCases

------------------------------------------------------------------------------
(* The caches.                                                             *)

\* The builds: one that is installing has its caches open and nothing activates beside it, one
\* that waits is complete and no activation is under way, and outside an activation the record
\* names the active build.
BuildsAreComplete ==
  /\ worker.installing # 0 => worker.installing \in opened /\ phase \in {"idle", "asking"}
  /\ worker.waiting # 0 => worker.waiting \in caches /\ phase # "activating"
  /\ worker.active # 0 => worker.active \in caches
  /\ phase # "activating" => recorded = worker.active

\* A page that a worker served is of the active build, or it is about to be reloaded.
ServedPage(s) ==
  s.served =>
    /\ s.open /\ s.controlled /\ s.page \in caches
    /\ ~s.changed => s.page = worker.active
    /\ phase = "activating" => s.page \in {worker.active, recorded}
ServedPages == \A t \in Tabs : ServedPage(tab[t])

CachesInv == TypeInv /\ ChangesAreAwaited /\ BuildsAreComplete /\ ServedPages

LEMMA CachesStart == UpdatesInit => CachesInv
<1>. SUFFICES ASSUME UpdatesInit PROVE CachesInv
  OBVIOUS
<1>1. \A t \in Tabs : ~tab[t].served
  BY DEF UpdatesInit, Closed
<1>2. BuildsAreComplete
  BY DEF UpdatesInit, BuildsAreComplete
<1>. QED
  BY <1>1, <1>2, TypeStart, AwaitedStart DEF CachesInv, ServedPages, ServedPage

\* The steps of one tab leave the worker and its caches alone.
LEMMA CachesKept ==
  ASSUME CachesInv, NEW t \in Tabs,
         UNCHANGED <<worker, phase, round, caches, opened, recorded>>,
         \A u \in Tabs : u # t => tab'[u] = tab[u],
         ServedPage(tab'[t])
  PROVE  BuildsAreComplete' /\ ServedPages'
<1>1. BuildsAreComplete'
  BY DEF CachesInv, BuildsAreComplete
<1>2. ServedPages'
  BY DEF CachesInv, ServedPages, ServedPage
<1>. QED
  BY <1>1, <1>2

LEMMA CachesTab ==
  ASSUME CachesInv, NEW t \in Tabs,
         OpenTab(t) \/ Leaves(t) \/ Quiet(t) \/ Apply(t) \/ TakenOver(t)
  PROVE  BuildsAreComplete' /\ ServedPages'
<1>0. TypeInv /\ ServedPage(tab[t])
      /\ (worker.active # 0 => worker.active \in caches)
  BY DEF CachesInv, ServedPages, BuildsAreComplete
<1>1. CASE OpenTab(t) \/ Leaves(t)
  <2>1. /\ UNCHANGED <<worker, phase, round, caches, opened, recorded>>
        /\ \A u \in Tabs : u # t => tab'[u] = tab[u]
        /\ \/ ~tab'[t].served
           \/ /\ tab'[t].open
              /\ tab'[t].controlled <=> worker.active # 0
              /\ tab'[t].served <=> worker.active # 0
              /\ worker.active # 0 => tab'[t].page = worker.active
    BY <1>0, <1>1, OpensFacts, LeavesFacts
  <2>2. ServedPage(tab'[t])
    BY <1>0, <2>1 DEF ServedPage
  <2>. QED
    BY <2>1, <2>2, CachesKept
<1>2. CASE Quiet(t)
  <2>1. /\ UNCHANGED <<worker, phase, round, caches, opened, recorded>>
        /\ \A u \in Tabs : u # t => tab'[u] = tab[u]
        /\ tab'[t].changed = tab[t].changed /\ SameLoad(tab'[t], tab[t])
    BY <1>0, <1>2, QuietFacts
  <2>2. ServedPage(tab'[t])
    BY <1>0, <2>1 DEF ServedPage, SameLoad
  <2>. QED
    BY <2>1, <2>2, CachesKept
<1>3. CASE Apply(t)
  <2>1. /\ UNCHANGED <<worker, phase, round, caches, opened, recorded>>
        /\ \A u \in Tabs : u # t => tab'[u] = tab[u]
        /\ SameLoad(tab'[t], tab[t]) /\ tab'[t].changed = tab[t].changed
    BY <1>0, <1>3, AppliesFacts DEF SameNews
  <2>2. ServedPage(tab'[t])
    BY <1>0, <2>1 DEF ServedPage, SameLoad
  <2>. QED
    BY <2>1, <2>2, CachesKept
<1>4. CASE TakenOver(t)
  <2>1. /\ UNCHANGED <<worker, phase, round, caches, opened, recorded>>
        /\ \A u \in Tabs : u # t => tab'[u] = tab[u]
        /\ tab'[t].served = tab[t].served /\ ~tab[t].controlled
    BY <1>0, <1>4, TakesOverFacts
  <2>2. ServedPage(tab'[t])
    BY <1>0, <2>1 DEF ServedPage
  <2>. QED
    BY <2>1, <2>2, CachesKept
<1>. QED
  BY <1>1, <1>2, <1>3, <1>4

\* An activation under way begins in a state where nothing installs, and from where the build
\* it replaces is the recorded one.
LEMMA CachesActivate ==
  ASSUME CalmDeployment, CachesInv, ActivateBegins \/ ActivateEnds
  PROVE  BuildsAreComplete' /\ ServedPages'
<1>0. Tabbed /\ WorkerType
  BY TypeFacts DEF CachesInv
<1>1. CASE ActivateBegins
  <2>1. /\ phase' = "activating" /\ worker.waiting # 0
        /\ worker' = [worker EXCEPT !.waiting = 0, !.active = worker.waiting]
        /\ UNCHANGED <<caches, opened, recorded>>
    BY <1>1 DEF ActivateBegins, KeepCaches
  <2>2. /\ worker'.installing = worker.installing /\ worker'.waiting = 0
        /\ worker'.active = worker.waiting
    BY <1>0, <2>1 DEF WorkerType
  <2>3. \A t \in Tabs :
          /\ SameLoad(tab'[t], tab[t])
          /\ tab'[t].changed <=> (tab[t].changed \/ (Open(t) /\ tab[t].controlled))
    BY <1>0, <1>1, ActivateBeginsFacts
  <2>4. /\ worker.waiting \in caches /\ phase # "activating" /\ recorded = worker.active
        /\ worker.installing # 0 => phase \in {"idle", "asking"}
    BY <2>1 DEF CachesInv, BuildsAreComplete
  <2>5. worker.installing = 0
    BY <1>1, <2>4 DEF ActivateBegins
  <2>6. BuildsAreComplete'
    BY <2>1, <2>2, <2>4, <2>5 DEF BuildsAreComplete
  <2>7. \A t \in Tabs : tab[t].served => ~tab[t].changed
    <3>1. CASE phase = "skipping"
      BY <3>1 DEF CachesInv, ChangesAreAwaited, NobodyReloads
    <3>2. CASE phase # "skipping"
      BY <1>1, <3>2 DEF ActivateBegins
    <3>. QED
      BY <3>1, <3>2
  <2>8. ASSUME NEW t \in Tabs, tab'[t].served
        PROVE  /\ tab'[t].open /\ tab'[t].controlled /\ tab'[t].page \in caches
               /\ tab'[t].changed /\ tab'[t].page = recorded
    <3>1. /\ tab[t].open /\ tab[t].controlled /\ tab[t].page \in caches
          /\ tab[t].page = worker.active
      BY <2>3, <2>7, <2>8 DEF SameLoad, CachesInv, ServedPages, ServedPage
    <3>. QED
      BY <2>3, <2>4, <3>1 DEF SameLoad, Open
  <2>9. ServedPages'
    BY <2>1, <2>8 DEF ServedPages, ServedPage
  <2>. QED
    BY <2>6, <2>9
<1>2. CASE ActivateEnds
  <2>1. /\ phase = "activating" /\ phase' = "idle"
        /\ caches' = caches \cap {worker.active, recorded}
        /\ recorded' = worker.active /\ UNCHANGED worker
    BY <1>2 DEF ActivateEnds, Kept
  <2>2. \A t \in Tabs :
          /\ SameLoad(tab'[t], tab[t])
          /\ tab'[t].changed <=> (tab[t].changed \/ (Open(t) /\ ~tab[t].controlled))
    BY <1>0, <1>2, ActivateEndsFacts
  <2>3. BuildsAreComplete'
    BY <2>1 DEF CachesInv, BuildsAreComplete
  <2>4. ASSUME NEW t \in Tabs, tab'[t].served
        PROVE  /\ tab'[t].open /\ tab'[t].controlled /\ tab'[t].page \in caches'
               /\ ~tab'[t].changed => tab'[t].page = worker.active
    <3>1. /\ tab[t].open /\ tab[t].controlled /\ tab[t].page \in caches
          /\ tab[t].page \in {worker.active, recorded}
          /\ ~tab[t].changed => tab[t].page = worker.active
      BY <2>1, <2>2, <2>4 DEF SameLoad, CachesInv, ServedPages, ServedPage
    <3>. QED
      BY <2>1, <2>2, <3>1 DEF SameLoad
  <2>5. ServedPages'
    BY <2>1, <2>4 DEF ServedPages, ServedPage
  <2>. QED
    BY <2>3, <2>5
<1>. QED
  BY <1>1, <1>2

\* Steps that change who is asked, and builds that come and go
LEMMA CachesWorker ==
  ASSUME CalmDeployment, CachesInv,
         \/ \E t \in Tabs : HandleApply(t) \/ AnswerTimesOut(t)
         \/ Refuse \/ SkipWaiting \/ InstallBegins \/ InstallSucceeds \/ InstallFails
  PROVE  BuildsAreComplete' /\ ServedPages'
<1>0. /\ TypeInv /\ Tabbed /\ WorkerType /\ round \in 0 .. MaxRounds
      /\ phase = "asking" => round \in 1 .. MaxRounds
      /\ phase \in {"idle", "asking", "skipping", "activating"}
  BY TypeFacts DEF CachesInv, TypeInv
<1>1. ASSUME \A t \in Tabs : SameLoad(tab'[t], tab[t]) /\ tab'[t].changed = tab[t].changed,
             UNCHANGED <<caches, recorded>>, worker'.active = worker.active,
             phase' = "activating" => phase = "activating"
      PROVE  ServedPages'
  BY <1>1 DEF CachesInv, ServedPages, ServedPage, SameLoad
<1>2. ASSUME NEW t \in Tabs, HandleApply(t)
      PROVE  BuildsAreComplete' /\ ServedPages'
  <2>1. /\ UNCHANGED <<worker, caches, opened, recorded>>
        /\ IF phase = "idle" THEN phase' = "asking" ELSE UNCHANGED phase
    BY <1>0, <1>2, HandshakeFacts
  <2>2. \A u \in Tabs :
          /\ SameLoad(tab'[u], tab[u]) /\ tab'[u].changed = tab[u].changed
    BY <1>0, <1>2, HandleApplyFacts
  <2>3. NobodyReloads /\ phase # "activating"
    BY <1>2 DEF HandleApply, CachesInv, ChangesAreAwaited
  <2>4. BuildsAreComplete'
    BY <2>1, <2>3 DEF CachesInv, BuildsAreComplete
  <2>. QED
    BY <1>1, <2>1, <2>2, <2>4
<1>3. ASSUME NEW t \in Tabs, AnswerTimesOut(t)
      PROVE  BuildsAreComplete' /\ ServedPages'
  <2>1. UNCHANGED <<worker, phase, tab, caches, opened, recorded>>
    BY <1>3 DEF AnswerTimesOut, KeepCaches
  <2>. QED
    BY <2>1 DEF CachesInv, BuildsAreComplete, ServedPages, ServedPage
<1>4. CASE Refuse
  <2>1. /\ phase = "asking" /\ phase' = "idle"
        /\ UNCHANGED <<worker, caches, opened, recorded>>
    BY <1>4 DEF Refuse, KeepCaches
  <2>2. \A u \in Tabs : SameLoad(tab'[u], tab[u]) /\ tab'[u].changed = tab[u].changed
    BY <1>0, <1>4, <2>1, RefuseFacts
  <2>3. BuildsAreComplete'
    BY <2>1 DEF CachesInv, BuildsAreComplete
  <2>. QED
    BY <1>1, <2>1, <2>2, <2>3
<1>5. CASE SkipWaiting
  <2>1. /\ phase = "asking" /\ phase' = "skipping" /\ worker.installing = 0
        /\ UNCHANGED <<worker, tab, caches, opened, recorded>>
    BY <1>5 DEF SkipWaiting, KeepCaches
  <2>2. BuildsAreComplete'
    BY <2>1 DEF CachesInv, BuildsAreComplete
  <2>. QED
    BY <1>1, <2>1, <2>2 DEF SameLoad
<1>6. CASE InstallBegins
  <2>1. /\ phase = "idle" /\ worker' = [worker EXCEPT !.installing = Newest + 1]
        /\ opened' = opened \cup {Newest + 1}
        /\ UNCHANGED <<phase, caches, recorded, tab>>
    BY <1>6 DEF InstallBegins
  <2>2. /\ worker'.installing = Newest + 1 /\ worker'.waiting = worker.waiting
        /\ worker'.active = worker.active
    BY <1>0, <2>1 DEF WorkerType
  <2>3. BuildsAreComplete'
    BY <2>1, <2>2 DEF CachesInv, BuildsAreComplete
  <2>. QED
    BY <1>1, <2>1, <2>2, <2>3 DEF SameLoad
<1>7. CASE InstallSucceeds
  <2>1. /\ worker' = [worker EXCEPT !.installing = 0, !.waiting = worker.installing]
        /\ caches' = caches \cup (opened \cap {worker.installing})
        /\ phase' = "idle" /\ phase \in {"idle", "asking"} /\ worker.installing # 0
        /\ UNCHANGED recorded
        /\ tab' = [t \in Tabs |-> [tab[t] EXCEPT !.asks = FALSE]]
    BY <1>7 DEF InstallSucceeds
  <2>2. /\ worker'.installing = 0 /\ worker'.waiting = worker.installing
        /\ worker'.active = worker.active
    BY <1>0, <2>1 DEF WorkerType
  <2>3. \A u \in Tabs : SameLoad(tab'[u], tab[u]) /\ tab'[u].changed = tab[u].changed
    BY <1>0, <2>1, AsksDropped DEF SameNews
  <2>4. BuildsAreComplete'
    BY <2>1, <2>2 DEF CachesInv, BuildsAreComplete
  <2>5. ServedPages'
    BY <2>1, <2>2, <2>3 DEF CachesInv, ServedPages, ServedPage, SameLoad
  <2>. QED
    BY <2>4, <2>5
<1>8. CASE InstallFails
  <2>1. /\ worker' = [worker EXCEPT !.installing = 0]
        /\ UNCHANGED <<phase, caches, recorded, tab>>
    BY <1>8 DEF InstallFails
  <2>2. /\ worker'.installing = 0 /\ worker'.waiting = worker.waiting
        /\ worker'.active = worker.active
    BY <1>0, <2>1 DEF WorkerType
  <2>3. BuildsAreComplete'
    BY <2>1, <2>2 DEF CachesInv, BuildsAreComplete
  <2>. QED
    BY <1>1, <2>1, <2>2, <2>3 DEF SameLoad
<1>. QED
  BY <1>2, <1>3, <1>4, <1>5, <1>6, <1>7, <1>8

LEMMA CachesStep ==
  Prompt /\ CalmDeployment /\ CachesInv /\ [UpdatesNext]_updatesVars => CachesInv'
<1>. SUFFICES ASSUME Prompt, CalmDeployment, CachesInv, [UpdatesNext]_updatesVars
              PROVE  CachesInv'
  OBVIOUS
<1>1. TypeInv'
  BY TypeStep DEF CachesInv
<1>2. CASE UNCHANGED updatesVars
  BY <1>1, <1>2 DEF CachesInv, ChangesAreAwaited, NobodyReloads, BuildsAreComplete,
                    ServedPages, ServedPage, updatesVars
<1>3. CASE UpdatesNext
  <2>1. ChangesAreAwaited'
    BY <1>3, AwaitedStep DEF CachesInv
  <2>. QED
    BY <1>1, <1>3, <2>1, StepCases, CachesTab, CachesActivate, CachesWorker DEF CachesInv
<1>. QED
  BY <1>2, <1>3

\* An update leaves the caches that serve, whatever the tabs, the builds and the handshakes:
\* those of the active build and of every page that a worker served, when no build installs
\* while another one activates and the browser activates promptly (sw.js:22-109 and 184-190).
THEOREM CachesAlwaysServe ==
  ASSUME Prompt, CalmDeployment
  PROVE  UpdatesSpec => []CachesServe
<1>1. CachesInv => CachesServe
  BY DEF CachesInv, BuildsAreComplete, ServedPages, ServedPage, CachesServe,
         ActiveBuildIsComplete, PagesFindTheirAssets
<1>2. CachesInv /\ [UpdatesNext]_updatesVars => CachesInv'
  BY CachesStep
<1>. QED
  BY <1>1, <1>2, CachesStart, PTL DEF UpdatesSpec

------------------------------------------------------------------------------
(* The work of a tab.                                                      *)

\* One request for an update at a time, made by a tab that a worker controls; the error on its
\* way back finds the tab still waiting, and no handshake and no change.
Requesting(t) == tab[t].asks \/ tab[t].awaiting
OneRequest ==
  /\ \A t \in Tabs : tab[t].asks => phase = "idle"
  /\ \A t, u \in Tabs : Requesting(t) /\ Requesting(u) => t = u
  /\ \A t \in Tabs : phase = "asking" /\ tab[t].awaiting => t = poll.by
  /\ \A t \in Tabs : tab[t].awaiting => tab[t].controlled
  /\ \A t \in Tabs : tab[t].reply =>
       /\ phase = "idle" /\ tab[t].awaiting /\ NobodyReloads
       /\ \A u \in Tabs : ~tab[u].asks

\* A tab that is open while a build is active is controlled or about to be told.
Told(s) == s.open /\ worker.active # 0 /\ phase # "activating" /\ ~s.changed => s.controlled
Controlled == \A t \in Tabs : Told(tab[t])

\* Where no page is, nothing of it is left.
Gone(s) == ~s.open => ~s.applying /\ ~s.changed /\ s.inbox = <<>>
ClosedTabs == \A t \in Tabs : Gone(tab[t])

RequestInv == TypeInv /\ ChangesAreAwaited /\ OneRequest /\ Controlled /\ ClosedTabs

LEMMA RequestStart == UpdatesInit => RequestInv
<1>. SUFFICES ASSUME UpdatesInit PROVE RequestInv
  OBVIOUS
<1>1. \A t \in Tabs : /\ ~tab[t].asks /\ ~tab[t].awaiting /\ ~tab[t].reply /\ ~tab[t].open
                      /\ ~tab[t].applying /\ ~tab[t].changed /\ tab[t].inbox = <<>>
  BY DEF UpdatesInit, Closed
<1>2. OneRequest
  BY <1>1 DEF OneRequest, Requesting
<1>3. Controlled /\ ClosedTabs
  BY <1>1 DEF Controlled, Told, ClosedTabs, Gone
<1>. QED
  BY <1>2, <1>3, TypeStart, AwaitedStart DEF RequestInv

\* A step that makes no request, and none of whose errors is new
LEMMA RequestKept ==
  ASSUME OneRequest, UNCHANGED phase, poll'.by = poll.by,
         \A t \in Tabs :
           /\ (tab'[t].asks => tab[t].asks) /\ (tab'[t].changed => tab[t].changed)
           /\ tab'[t].awaiting => tab[t].awaiting /\ (tab[t].controlled => tab'[t].controlled)
           /\ tab'[t].reply => tab[t].reply /\ tab'[t].awaiting
  PROVE  OneRequest'
<1>1. NobodyReloads => NobodyReloads'
  BY DEF NobodyReloads
<1>2. \A t \in Tabs : Requesting(t)' => Requesting(t)
  BY DEF Requesting
<1>. QED
  BY <1>1, <1>2 DEF OneRequest

\* A step after which no handshake runs, no error is on its way and no request is made
LEMMA RequestOver ==
  ASSUME OneRequest, phase' # "asking",
         \A t \in Tabs :
           /\ ~tab'[t].asks /\ ~tab'[t].reply
           /\ tab'[t].awaiting => tab[t].awaiting /\ (tab[t].controlled => tab'[t].controlled)
  PROVE  OneRequest'
<1>1. \A t \in Tabs : Requesting(t)' => Requesting(t)
  BY DEF Requesting
<1>. QED
  BY <1>1 DEF OneRequest

\* What one tab does to who controls it, and to what it was told
LEMMA TabRequest ==
  ASSUME RequestInv, NEW t \in Tabs, OpenTab(t) \/ Leaves(t) \/ Quiet(t) \/ TakenOver(t)
  PROVE  OneRequest'
<1>0. /\ TypeInv /\ OneRequest /\ Tabbed /\ round \in 0 .. MaxRounds
  BY TypeFacts DEF RequestInv
<1>1. CASE OpenTab(t) \/ Leaves(t)
  <2>1. /\ \A u \in Tabs : u # t => tab'[u] = tab[u]
        /\ tab'[t].asks = tab[t].asks /\ ~tab'[t].awaiting /\ ~tab'[t].reply
        /\ ~tab'[t].changed /\ UNCHANGED phase /\ poll'.by = poll.by
    BY <1>0, <1>1, OpensFacts, LeavesFacts
  <2>2. \A u \in Tabs :
          /\ (tab'[u].asks => tab[u].asks) /\ (tab'[u].changed => tab[u].changed)
          /\ tab'[u].awaiting => tab[u].awaiting /\ (tab[u].controlled => tab'[u].controlled)
          /\ tab'[u].reply => tab[u].reply /\ tab'[u].awaiting
    BY <1>0, <2>1 DEF OneRequest
  <2>. QED
    BY <1>0, <2>1, <2>2, RequestKept
<1>2. CASE Quiet(t)
  <2>1. /\ \A u \in Tabs : u # t => tab'[u] = tab[u]
        /\ SameLoad(tab'[t], tab[t])
        /\ tab'[t].changed = tab[t].changed /\ tab'[t].asks = tab[t].asks
        /\ UNCHANGED phase /\ poll'.by = poll.by
    BY <1>0, <1>2, QuietFacts
  <2>2. \/ SameRequest(tab'[t], tab[t])
        \/ ~tab'[t].awaiting /\ ~tab'[t].reply
    <3>1. CASE StartWork(t) \/ FinishWork(t)
      <4>1. SetTab(t, [tab[t] EXCEPT !.busy = TRUE]) \/ SetTab(t, [tab[t] EXCEPT !.busy = FALSE])
        BY <3>1 DEF StartWork, FinishWork
      <4>. QED
        BY <1>0, <4>1, WorkFacts
    <3>2. CASE ReplyArrives(t) \/ RequestTimesOut(t)
      BY <1>0, <3>2, RequestEndsFacts DEF ReplyArrives, RequestTimesOut
    <3>3. CASE HandleCheck(t)
      BY <1>0, <3>3, HandleCheckFacts
    <3>4. CASE HandleCancelled(t)
      BY <1>0, <3>4, HandleCancelledFacts
    <3>5. CASE LockExpires(t)
      BY <1>0, <3>5, LockExpiresFacts
    <3>. QED
      BY <1>2, <3>1, <3>2, <3>3, <3>4, <3>5 DEF Quiet
  <2>3. \A u \in Tabs :
          /\ (tab'[u].asks => tab[u].asks) /\ (tab'[u].changed => tab[u].changed)
          /\ tab'[u].awaiting => tab[u].awaiting /\ (tab[u].controlled => tab'[u].controlled)
          /\ tab'[u].reply => tab[u].reply /\ tab'[u].awaiting
    BY <1>0, <2>1, <2>2 DEF OneRequest, SameRequest, SameLoad
  <2>. QED
    BY <1>0, <2>1, <2>3, RequestKept
<1>3. CASE TakenOver(t)
  <2>1. /\ \A u \in Tabs : u # t => tab'[u] = tab[u]
        /\ SameRequest(tab'[t], tab[t]) /\ ~tab'[t].changed /\ tab'[t].controlled
        /\ UNCHANGED <<phase, poll>>
    BY <1>0, <1>3, TakesOverFacts
  <2>2. \A u \in Tabs :
          /\ (tab'[u].asks => tab[u].asks) /\ (tab'[u].changed => tab[u].changed)
          /\ tab'[u].awaiting => tab[u].awaiting /\ (tab[u].controlled => tab'[u].controlled)
          /\ tab'[u].reply => tab[u].reply /\ tab'[u].awaiting
    BY <1>0, <2>1 DEF OneRequest, SameRequest
  <2>. QED
    BY <1>0, <2>1, <2>2, RequestKept
<1>. QED
  BY <1>1, <1>2, <1>3

\* A request is made when there is no other, by a tab that is controlled.
LEMMA ApplyRequest ==
  ASSUME OneRequester, Prompt, RequestInv, NEW t \in Tabs, Apply(t)
  PROVE  OneRequest'
<1>1. /\ \A u \in Tabs : u # t => tab'[u] = tab[u]
      /\ SameLoad(tab'[t], tab[t]) /\ SameNews(tab'[t], tab[t])
      /\ tab'[t].reply = tab[t].reply
      /\ tab'[t].awaiting /\ tab'[t].asks
      /\ UNCHANGED <<phase, poll>>
  BY AppliesFacts DEF RequestInv
<1>2. /\ phase = "idle" /\ NobodyReloads /\ \A u \in Tabs : ~tab[u].awaiting /\ ~tab[u].asks
      /\ Open(t) /\ worker.active # 0
  BY DEF Apply, ChangePending, NobodyReloads
<1>3. tab[t].controlled
  BY <1>2 DEF RequestInv, Controlled, Told, NobodyReloads, Open
<1>4. \A u \in Tabs : ~tab[u].reply
  BY <1>2 DEF RequestInv, OneRequest
<1>5. \A u \in Tabs : ~tab'[u].reply /\ (Requesting(u)' => u = t)
  BY <1>1, <1>2, <1>4 DEF Requesting
<1>6. tab'[t].controlled /\ phase' = "idle"
  BY <1>1, <1>2, <1>3 DEF SameLoad
<1>. QED
  BY <1>5, <1>6 DEF OneRequest, Requesting

LEMMA WorkerRequest ==
  ASSUME OneRequester, Prompt, RequestInv,
         \/ \E t \in Tabs : HandleApply(t) \/ AnswerTimesOut(t)
         \/ Refuse \/ SkipWaiting \/ ActivateBegins \/ ActivateEnds
         \/ InstallBegins \/ InstallSucceeds \/ InstallFails
  PROVE  OneRequest'
<1>0. /\ TypeInv /\ OneRequest /\ ChangesAreAwaited /\ Tabbed /\ round \in 0 .. MaxRounds
      /\ phase = "asking" => round \in 1 .. MaxRounds
  BY TypeFacts DEF RequestInv, TypeInv
<1>1. ASSUME NEW t \in Tabs, HandleApply(t)
      PROVE  OneRequest'
  <2>1. phase = "idle" /\ tab[t].asks
    BY <1>0, <1>1 DEF HandleApply, OneRequest
  <2>2. phase' = "asking" /\ poll'.by = t
    BY <1>0, <1>1, <2>1, HandshakeFacts
  <2>3. \A u \in Tabs :
          /\ SameLoad(tab'[u], tab[u]) /\ tab'[u].awaiting = tab[u].awaiting
          /\ tab'[u].asks <=> (tab[u].asks /\ u # t)
          /\ tab'[u].reply = tab[u].reply
    BY <1>0, <1>1, <2>1, HandleApplyFacts
  <2>4. \A u \in Tabs : Requesting(u) => u = t
    BY <1>0, <2>1 DEF OneRequest, Requesting
  <2>5. \A u \in Tabs : ~tab'[u].asks /\ ~tab'[u].reply /\ (tab'[u].awaiting => u = t)
    BY <1>0, <2>1, <2>3, <2>4 DEF OneRequest, Requesting
  <2>6. \A u \in Tabs : tab'[u].awaiting => tab'[u].controlled
    BY <1>0, <2>3 DEF OneRequest, SameLoad
  <2>. QED
    BY <2>2, <2>5, <2>6 DEF OneRequest, Requesting
<1>2. ASSUME NEW t \in Tabs, AnswerTimesOut(t)
      PROVE  OneRequest'
  <2>1. poll'.by = poll.by
    BY <1>0, <1>2, AnswerPoll, TypeFacts DEF AnswerTimesOut, Answers
  <2>. QED
    BY <1>0, <1>2, <2>1, RequestKept DEF AnswerTimesOut, OneRequest
<1>3. CASE Refuse
  <2>1. phase = "asking" /\ phase' = "idle"
    BY <1>3 DEF Refuse
  <2>2. \A u \in Tabs :
          /\ SameLoad(tab'[u], tab[u]) /\ tab'[u].changed = tab[u].changed
          /\ tab'[u].asks = tab[u].asks /\ tab'[u].awaiting = tab[u].awaiting
          /\ tab'[u].reply = tab[u].reply \/ tab[u].awaiting
    BY <1>0, <1>3, <2>1, RefuseFacts
  <2>3. \A u \in Tabs : ~tab'[u].asks /\ ~tab[u].reply /\ ~tab'[u].changed
    BY <1>0, <2>1, <2>2 DEF OneRequest, ChangesAreAwaited, NobodyReloads
  <2>4. \A u \in Tabs : /\ tab'[u].reply => tab'[u].awaiting
                        /\ tab'[u].awaiting => tab[u].awaiting /\ tab'[u].controlled
    BY <1>0, <2>2, <2>3 DEF OneRequest, SameLoad
  <2>. QED
    BY <1>0, <2>1, <2>3, <2>4 DEF OneRequest, Requesting, NobodyReloads
<1>4. CASE SkipWaiting
  <2>1. phase = "asking" /\ phase' = "skipping" /\ UNCHANGED tab
    BY <1>4 DEF SkipWaiting
  <2>. QED
    BY <1>0, <2>1, RequestOver DEF OneRequest
<1>5. CASE ActivateBegins
  <2>1. phase' = "activating"
    BY <1>5 DEF ActivateBegins
  <2>2. \A u \in Tabs :
          /\ SameLoad(tab'[u], tab[u]) /\ tab'[u].awaiting = tab[u].awaiting
          /\ tab'[u].reply = tab[u].reply /\ ~tab'[u].asks
    BY <1>0, <1>5, ActivateBeginsFacts
  <2>3. \A u \in Tabs : ~tab[u].reply
    <3>1. CASE phase = "skipping"
      BY <1>0, <3>1 DEF OneRequest
    <3>2. CASE phase # "skipping"
      BY <1>0, <1>5, <3>2 DEF ActivateBegins, OneRequest
    <3>. QED
      BY <3>1, <3>2
  <2>. QED
    BY <1>0, <2>1, <2>2, <2>3, RequestOver DEF SameLoad
<1>6. CASE ActivateEnds
  <2>1. phase = "activating" /\ phase' = "idle"
    BY <1>6 DEF ActivateEnds
  <2>2. \A u \in Tabs : SameLoad(tab'[u], tab[u]) /\ SameRequest(tab'[u], tab[u])
    BY <1>0, <1>6, ActivateEndsFacts
  <2>3. \A u \in Tabs : ~tab[u].reply /\ ~tab[u].asks
    BY <1>0, <2>1 DEF OneRequest
  <2>. QED
    BY <1>0, <2>1, <2>2, <2>3, RequestOver DEF SameLoad, SameRequest
<1>7. CASE InstallBegins \/ InstallFails
  <2>1. UNCHANGED <<phase, poll, tab>>
    BY <1>7 DEF InstallBegins, InstallFails
  <2>. QED
    BY <1>0, <2>1, RequestKept DEF OneRequest
<1>8. CASE InstallSucceeds
  <2>1. /\ phase' = "idle" /\ UNCHANGED poll
        /\ tab' = [t \in Tabs |-> [tab[t] EXCEPT !.asks = FALSE]]
    BY <1>8 DEF InstallSucceeds
  <2>2. \A u \in Tabs :
          /\ SameLoad(tab'[u], tab[u]) /\ tab'[u].changed = tab[u].changed
          /\ tab'[u].awaiting = tab[u].awaiting /\ tab'[u].reply = tab[u].reply /\ ~tab'[u].asks
    BY <1>0, <2>1, AsksDropped DEF SameNews
  <2>3. NobodyReloads => NobodyReloads'
    BY <2>2 DEF NobodyReloads
  <2>4. \A u \in Tabs : Requesting(u)' => Requesting(u)
    BY <2>2 DEF Requesting
  <2>5. \A u \in Tabs : tab'[u].reply => tab'[u].awaiting /\ NobodyReloads'
    BY <1>0, <2>2, <2>3 DEF OneRequest
  <2>6. \A u \in Tabs : tab'[u].awaiting => tab'[u].controlled
    BY <1>0, <2>2 DEF OneRequest, SameLoad
  <2>7. \A u, v \in Tabs : Requesting(u)' /\ Requesting(v)' => u = v
    BY <1>0, <2>4 DEF OneRequest
  <2>. QED
    BY <2>1, <2>2, <2>5, <2>6, <2>7 DEF OneRequest
<1>. QED
  BY <1>1, <1>2, <1>3, <1>4, <1>5, <1>6, <1>7, <1>8

\* A new page is controlled by the active worker; a tab hears of each change.
LEMMA ControlledStep ==
  ASSUME RequestInv, UpdatesNext
  PROVE  Controlled' /\ ClosedTabs'
<1>0. /\ TypeInv /\ OneRequest /\ Tabbed /\ WorkerType /\ round \in 0 .. MaxRounds
      /\ phase = "asking" => round \in 1 .. MaxRounds
      /\ \A t \in Tabs : Told(tab[t]) /\ Gone(tab[t])
  BY TypeFacts DEF RequestInv, TypeInv, Controlled, ClosedTabs
<1>1. ASSUME NEW t \in Tabs, UNCHANGED <<worker, phase>>,
             \A u \in Tabs : u # t => tab'[u] = tab[u], Told(tab'[t]), Gone(tab'[t])
      PROVE  Controlled' /\ ClosedTabs'
  BY <1>0, <1>1 DEF Controlled, Told, ClosedTabs, Gone
<1>2. ASSUME worker'.active = worker.active, (phase' # "activating" => phase # "activating"),
             \A t \in Tabs : /\ SameLoad(tab'[t], tab[t]) /\ SameStand(tab'[t], tab[t])
                             /\ tab'[t].changed = tab[t].changed
                             /\ Open(t) \/ tab'[t].inbox = tab[t].inbox
      PROVE  Controlled' /\ ClosedTabs'
  BY <1>0, <1>2 DEF Controlled, Told, ClosedTabs, Gone, SameLoad, SameStand, Open
<1>3. ASSUME NEW t \in Tabs, OpenTab(t) \/ Leaves(t)
      PROVE  Controlled' /\ ClosedTabs'
  <2>1. /\ UNCHANGED <<worker, phase>> /\ \A u \in Tabs : u # t => tab'[u] = tab[u]
        /\ ~tab'[t].applying /\ ~tab'[t].changed /\ tab'[t].inbox = <<>>
        /\ tab'[t].open => (tab'[t].controlled <=> worker.active # 0)
    BY <1>0, <1>3, OpensFacts, LeavesFacts
  <2>. QED
    BY <1>1, <2>1 DEF Told, Gone
<1>4. ASSUME NEW t \in Tabs, Quiet(t)
      PROVE  Controlled' /\ ClosedTabs'
  <2>1. /\ UNCHANGED <<worker, phase>> /\ \A u \in Tabs : u # t => tab'[u] = tab[u]
        /\ SameLoad(tab'[t], tab[t]) /\ tab'[t].changed = tab[t].changed
    BY <1>0, <1>4, QuietFacts
  <2>2. Told(tab'[t])
    BY <1>0, <2>1 DEF Told, SameLoad
  <2>3. Gone(tab'[t])
    <3>1. CASE StartWork(t) \/ FinishWork(t)
      <4>1. SetTab(t, [tab[t] EXCEPT !.busy = TRUE]) \/ SetTab(t, [tab[t] EXCEPT !.busy = FALSE])
        BY <3>1 DEF StartWork, FinishWork
      <4>2. SameNews(tab'[t], tab[t]) /\ tab'[t].applying = tab[t].applying
        BY <1>0, <4>1, WorkFacts
      <4>. QED
        BY <1>0, <2>1, <4>2 DEF Gone, SameLoad, SameNews
    <3>2. CASE ReplyArrives(t) \/ RequestTimesOut(t)
      <4>1. SameNews(tab'[t], tab[t]) /\ ~tab'[t].applying
        BY <1>0, <3>2, RequestEndsFacts DEF ReplyArrives, RequestTimesOut
      <4>. QED
        BY <1>0, <2>1, <4>1 DEF Gone, SameLoad, SameNews
    <3>3. CASE HandleCheck(t) \/ HandleCancelled(t)
      <4>1. tab[t].inbox # <<>>
        BY <3>3 DEF HandleCheck, HandleCancelled
      <4>. QED
        BY <1>0, <2>1, <4>1 DEF Gone, SameLoad
    <3>4. CASE LockExpires(t)
      <4>1. tab' = [tab EXCEPT ![t] = [tab[t] EXCEPT !.applying = FALSE, !.lock = 0]]
        BY <3>4 DEF LockExpires, SetTab
      <4>2. ~tab'[t].applying /\ tab'[t].inbox = tab[t].inbox
        BY <1>0, <4>1 DEF Tabbed, TabStates
      <4>. QED
        BY <1>0, <2>1, <4>2 DEF Gone, SameLoad
    <3>. QED
      BY <1>4, <3>1, <3>2, <3>3, <3>4 DEF Quiet
  <2>. QED
    BY <1>1, <2>1, <2>2, <2>3
<1>5. ASSUME NEW t \in Tabs, Apply(t)
      PROVE  Controlled' /\ ClosedTabs'
  <2>1. /\ UNCHANGED <<worker, phase>> /\ \A u \in Tabs : u # t => tab'[u] = tab[u]
        /\ SameLoad(tab'[t], tab[t]) /\ SameNews(tab'[t], tab[t]) /\ tab[t].open
    BY <1>0, <1>5, AppliesFacts DEF Apply, Open
  <2>. QED
    BY <1>0, <1>1, <2>1 DEF Told, Gone, SameLoad, SameNews
<1>6. ASSUME NEW t \in Tabs, TakenOver(t)
      PROVE  Controlled' /\ ClosedTabs'
  <2>1. /\ UNCHANGED <<worker, phase>> /\ \A u \in Tabs : u # t => tab'[u] = tab[u]
        /\ tab'[t].open = tab[t].open /\ tab'[t].inbox = tab[t].inbox
        /\ tab'[t].applying = tab[t].applying /\ tab'[t].controlled /\ ~tab'[t].changed
    BY <1>0, <1>6, TakesOverFacts DEF SameStand
  <2>. QED
    BY <1>0, <1>1, <2>1 DEF Told, Gone
<1>7. ASSUME NEW t \in Tabs, HandleApply(t)
      PROVE  Controlled' /\ ClosedTabs'
  <2>1. UNCHANGED worker /\ (phase' = phase \/ (phase' = "asking" /\ phase = "idle"))
    BY <1>0, <1>7, HandshakeFacts
  <2>2. \A u \in Tabs :
          /\ SameLoad(tab'[u], tab[u]) /\ SameStand(tab'[u], tab[u])
          /\ tab'[u].changed = tab[u].changed /\ (Open(u) \/ tab'[u].inbox = tab[u].inbox)
    BY <1>0, <1>7, HandleApplyFacts
  <2>. QED
    BY <1>2, <2>1, <2>2
<1>8. CASE (\E t \in Tabs : AnswerTimesOut(t)) \/ SkipWaiting
  <2>1. UNCHANGED <<worker, tab>> /\ (phase' = "activating" \/ phase # "activating")
    BY <1>8 DEF AnswerTimesOut, SkipWaiting
  <2>. QED
    BY <1>2, <2>1 DEF SameLoad, SameStand
<1>9. CASE Refuse
  <2>1. phase = "asking" /\ UNCHANGED worker
    BY <1>9 DEF Refuse
  <2>2. \A u \in Tabs : /\ SameLoad(tab'[u], tab[u]) /\ SameStand(tab'[u], tab[u])
                        /\ tab'[u].changed = tab[u].changed
    BY <1>0, <1>9, <2>1, RefuseFacts
  <2>3. ASSUME NEW u \in Tabs, ~Open(u)
        PROVE  tab'[u].inbox = tab[u].inbox
    <3>1. tab'[u] = tab[u] \/ tab'[u] = [tab[u] EXCEPT !.reply = TRUE]
      BY <1>9, <2>3 DEF Refuse
    <3>. QED
      BY <1>0, <3>1 DEF Tabbed, TabStates
  <2>. QED
    BY <1>2, <2>1, <2>2, <2>3
<1>10. CASE ActivateBegins
  <2>1. phase' = "activating"
    BY <1>10 DEF ActivateBegins
  <2>2. \A u \in Tabs :
          /\ SameLoad(tab'[u], tab[u]) /\ SameStand(tab'[u], tab[u])
          /\ tab'[u].inbox = tab[u].inbox
          /\ tab'[u].changed <=> (tab[u].changed \/ (Open(u) /\ tab[u].controlled))
    BY <1>0, <1>10, ActivateBeginsFacts
  <2>3. ClosedTabs'
    BY <1>0, <2>2 DEF ClosedTabs, Gone, SameLoad, SameStand, Open
  <2>. QED
    BY <2>1, <2>3 DEF Controlled, Told
<1>11. CASE ActivateEnds
  <2>1. \A u \in Tabs :
          /\ SameLoad(tab'[u], tab[u]) /\ SameStand(tab'[u], tab[u])
          /\ tab'[u].inbox = tab[u].inbox
          /\ tab'[u].changed <=> (tab[u].changed \/ (Open(u) /\ ~tab[u].controlled))
    BY <1>0, <1>11, ActivateEndsFacts
  <2>2. ClosedTabs'
    BY <1>0, <2>1 DEF ClosedTabs, Gone, SameLoad, SameStand, Open
  <2>3. Controlled'
    BY <2>1 DEF Controlled, Told, SameLoad, Open
  <2>. QED
    BY <2>2, <2>3
<1>12. CASE InstallBegins \/ InstallFails
  <2>1. worker'.active = worker.active
    BY <1>0, <1>12, InstallFacts
  <2>. QED
    BY <1>2, <1>12, <2>1 DEF InstallBegins, InstallFails, SameLoad, SameStand
<1>13. CASE InstallSucceeds
  <2>1. worker'.active = worker.active
    BY <1>0, <1>13, InstallFacts
  <2>2. /\ phase \in {"idle", "asking"}
        /\ tab' = [t \in Tabs |-> [tab[t] EXCEPT !.asks = FALSE]]
    BY <1>13 DEF InstallSucceeds
  <2>3. \A u \in Tabs : /\ SameLoad(tab'[u], tab[u]) /\ SameStand(tab'[u], tab[u])
                        /\ tab'[u].changed = tab[u].changed /\ tab'[u].inbox = tab[u].inbox
    BY <1>0, <2>2, AsksDropped DEF SameNews
  <2>. QED
    BY <1>2, <2>1, <2>2, <2>3
<1>. QED
  BY <1>3, <1>4, <1>5, <1>6, <1>7, <1>8, <1>9, <1>10, <1>11, <1>12, <1>13, StepCases

LEMMA RequestStep ==
  ASSUME OneRequester, Prompt, RequestInv, [UpdatesNext]_updatesVars
  PROVE  RequestInv'
<1>1. TypeInv'
  BY TypeStep DEF RequestInv
<1>2. CASE UNCHANGED updatesVars
  <2>1. OneRequest' /\ ChangesAreAwaited'
    BY <1>2 DEF RequestInv, ChangesAreAwaited, NobodyReloads, OneRequest, Requesting, updatesVars
  <2>2. Controlled' /\ ClosedTabs'
    BY <1>2 DEF RequestInv, Controlled, Told, ClosedTabs, Gone, updatesVars
  <2>. QED
    BY <1>1, <2>1, <2>2 DEF RequestInv
<1>3. CASE UpdatesNext
  <2>1. ChangesAreAwaited'
    BY <1>3, AwaitedStep DEF RequestInv
  <2>2. OneRequest'
    BY <1>3, StepCases, TabRequest, ApplyRequest, WorkerRequest
  <2>. QED
    BY <1>1, <1>3, <2>1, <2>2, ControlledStep DEF RequestInv
<1>. QED
  BY <1>2, <1>3

\* Of the questions in a tab's inbox the one of the handshake under way is the last.
InOrder(q, r, asking) ==
  \A i \in DOMAIN q :
    /\ q[i].round <= r
    /\ asking /\ q[i] = [type |-> "check-ready", round |-> r] => i = Len(q)
QuestionsInOrder == \A t \in Tabs : InOrder(tab[t].inbox, round, phase = "asking")

LEMMA EmptyInOrder == \A r, b : InOrder(<<>>, r, b)
BY DEF InOrder

LEMMA TailInOrder ==
  ASSUME NEW q \in Seq(Messages), q # <<>>, NEW r, NEW b, InOrder(q, r, b)
  PROVE  InOrder(Tail(q), r, b)
<1>1. /\ Len(Tail(q)) = Len(q) - 1 /\ Len(q) \in Nat /\ Len(q) > 0
      /\ \A i \in 1 .. Len(q) - 1 : Tail(q)[i] = q[i + 1]
      /\ DOMAIN q = 1 .. Len(q) /\ DOMAIN Tail(q) = 1 .. Len(q) - 1
  BY HeadTailProperties, EmptySeq, LenProperties
<1>2. ASSUME NEW i \in DOMAIN Tail(q)
      PROVE  /\ Tail(q)[i].round <= r
             /\ b /\ Tail(q)[i] = [type |-> "check-ready", round |-> r] => i = Len(Tail(q))
  <2>1. i + 1 \in DOMAIN q /\ Tail(q)[i] = q[i + 1] /\ i \in Int
    BY <1>1
  <2>2. /\ q[i + 1].round <= r
        /\ b /\ q[i + 1] = [type |-> "check-ready", round |-> r] => i + 1 = Len(q)
    BY <2>1 DEF InOrder
  <2>3. \A n, k \in Nat : n = k - 1 /\ i + 1 = k => i = n
    BY <2>1
  <2>4. Len(Tail(q)) \in Nat /\ (i + 1 = Len(q) => i = Len(Tail(q)))
    BY <1>1, <2>3
  <2>. QED
    BY <2>1, <2>2, <2>4
<1>. QED
  BY <1>2 DEF InOrder

\* A new handshake: the questions before it are older.
LEMMA AskInOrder ==
  ASSUME NEW q \in Seq(Messages), NEW r \in Nat, NEW b, InOrder(q, r, b),
         NEW m \in Messages, NEW p, m.round = p, p \in {r, r + 1},
         NEW c, c => p = r + 1
  PROVE  InOrder(Append(q, m), p, c) /\ (p = r + 1 => InOrder(q, p, c))
<1>0. \A i \in DOMAIN q : q[i] \in Messages /\ q[i].round \in Nat
  <2>1. \A i \in DOMAIN q : q[i] \in Messages
    BY ElementOfSeq, LenProperties
  <2>. QED
    BY <2>1, UpdatesAssumption DEF Messages
<1>1. /\ DOMAIN q = 1 .. Len(q) /\ Len(q) \in Nat /\ Len(Append(q, m)) = Len(q) + 1
      /\ DOMAIN Append(q, m) = 1 .. Len(q) + 1 /\ Append(q, m)[Len(q) + 1] = m
      /\ \A i \in 1 .. Len(q) : Append(q, m)[i] = q[i]
  BY AppendProperties, LenProperties
<1>2. \A i \in DOMAIN q : q[i].round <= r
  BY DEF InOrder
<1>3. p \in Nat /\ r <= p
  OBVIOUS
<1>4. \A i \in DOMAIN q : q[i].round <= p
  BY <1>0, <1>2, <1>3
<1>5. ASSUME c, NEW i \in DOMAIN q
      PROVE  q[i] # [type |-> "check-ready", round |-> p]
  <2>1. q[i].round # p
    BY <1>0, <1>2, <1>5
  <2>. QED
    BY <2>1
<1>6. ASSUME NEW i \in DOMAIN Append(q, m)
      PROVE  /\ Append(q, m)[i].round <= p
             /\ c /\ Append(q, m)[i] = [type |-> "check-ready", round |-> p]
                  => i = Len(Append(q, m))
  <2>1. CASE i = Len(q) + 1
    BY <1>1, <1>3, <2>1
  <2>2. CASE i # Len(q) + 1
    <3>1. i \in DOMAIN q /\ Append(q, m)[i] = q[i]
      BY <1>1, <2>2
    <3>. QED
      BY <1>4, <1>5, <3>1
  <2>. QED
    BY <2>1, <2>2
<1>7. InOrder(Append(q, m), p, c)
  BY <1>6 DEF InOrder
<1>8. ASSUME p = r + 1
      PROVE  InOrder(q, p, c)
  <2>. QED
    BY <1>4, <1>5 DEF InOrder
<1>. QED
  BY <1>7, <1>8

LEMMA FewerQuestions ==
  ASSUME NEW q, NEW r, NEW b, NEW c, c => b, InOrder(q, r, b)
  PROVE  InOrder(q, r, c)
BY DEF InOrder

LEMMA QuestionsStep ==
  ASSUME TypeInv, QuestionsInOrder, UpdatesNext
  PROVE  QuestionsInOrder'
<1>0. /\ TypeInv /\ Tabbed /\ round \in 0 .. MaxRounds /\ round \in Nat /\ MaxRounds \in Nat
      /\ phase = "asking" => round \in 1 .. MaxRounds
      /\ \A t \in Tabs : /\ InOrder(tab[t].inbox, round, phase = "asking")
                         /\ tab[t].inbox \in Seq(Messages)
  BY TypeFacts DEF TypeInv, QuestionsInOrder, Tabbed, TabStates
<1>1. ASSUME NEW t \in Tabs, UNCHANGED <<round, phase>>,
             \A u \in Tabs : u # t => tab'[u] = tab[u],
             \/ tab'[t].inbox = tab[t].inbox
             \/ tab'[t].inbox = <<>>
             \/ tab[t].inbox # <<>> /\ tab'[t].inbox = Tail(tab[t].inbox)
      PROVE  QuestionsInOrder'
  <2>1. InOrder(tab'[t].inbox, round, phase = "asking")
    BY <1>0, <1>1, EmptyInOrder, TailInOrder
  <2>. QED
    BY <1>0, <1>1, <2>1 DEF QuestionsInOrder
<1>2. ASSUME UNCHANGED round, phase' = "asking" => phase = "asking",
             \A t \in Tabs : tab'[t].inbox = tab[t].inbox
      PROVE  QuestionsInOrder'
  <2>1. \A t \in Tabs : InOrder(tab[t].inbox, round, phase' = "asking")
    BY <1>0, <1>2, FewerQuestions
  <2>. QED
    BY <1>2, <2>1 DEF QuestionsInOrder
<1>3. ASSUME NEW t \in Tabs, OpenTab(t) \/ Leaves(t) \/ Apply(t) \/ TakenOver(t)
      PROVE  QuestionsInOrder'
  BY <1>0, <1>1, <1>3, OpensFacts, LeavesFacts, AppliesFacts, TakesOverFacts DEF SameNews
<1>4. ASSUME NEW t \in Tabs, Quiet(t)
      PROVE  QuestionsInOrder'
  <2>1. /\ UNCHANGED <<round, phase>> /\ \A u \in Tabs : u # t => tab'[u] = tab[u]
    BY <1>0, <1>4, QuietFacts
  <2>2. \/ tab'[t].inbox = tab[t].inbox
        \/ tab[t].inbox # <<>> /\ tab'[t].inbox = Tail(tab[t].inbox)
    <3>1. CASE StartWork(t) \/ FinishWork(t)
      <4>1. SetTab(t, [tab[t] EXCEPT !.busy = TRUE]) \/ SetTab(t, [tab[t] EXCEPT !.busy = FALSE])
        BY <3>1 DEF StartWork, FinishWork
      <4>. QED
        BY <1>0, <4>1, WorkFacts DEF SameNews
    <3>2. CASE ReplyArrives(t) \/ RequestTimesOut(t)
      BY <1>0, <3>2, RequestEndsFacts DEF ReplyArrives, RequestTimesOut, SameNews
    <3>3. CASE HandleCheck(t)
      BY <1>0, <3>3, HandleCheckFacts DEF HandleCheck
    <3>4. CASE HandleCancelled(t)
      BY <1>0, <3>4, HandleCancelledFacts DEF HandleCancelled
    <3>5. CASE LockExpires(t)
      BY <1>0, <3>5, LockExpiresFacts DEF SameNews
    <3>. QED
      BY <1>4, <3>1, <3>2, <3>3, <3>4, <3>5 DEF Quiet
  <2>. QED
    BY <1>1, <2>1, <2>2
<1>5. ASSUME NEW t \in Tabs, HandleApply(t)
      PROVE  QuestionsInOrder'
  <2>1. \A u \in Tabs : tab'[u].inbox = IF phase = "idle" /\ Open(u)
                                        THEN Append(tab[u].inbox, Question) ELSE tab[u].inbox
    BY <1>0, <1>5, HandleApplyFacts
  <2>2. IF phase = "idle" THEN phase' = "asking" /\ round' = round + 1 /\ round' \in 0 .. MaxRounds
                          ELSE UNCHANGED <<phase, round>>
    BY <1>0, <1>5, HandshakeFacts
  <2>3. CASE phase # "idle"
    BY <1>2, <2>1, <2>2, <2>3
  <2>4. CASE phase = "idle"
    <3>1. Question \in Messages /\ Question.round = round + 1
      BY <1>0, <2>2, <2>4 DEF Question, Messages
    <3>2. \A u \in Tabs : /\ InOrder(Append(tab[u].inbox, Question), round + 1, TRUE)
                          /\ InOrder(tab[u].inbox, round + 1, TRUE)
      BY <1>0, <3>1, AskInOrder
    <3>3. \A u \in Tabs : InOrder(tab'[u].inbox, round + 1, TRUE)
      BY <2>1, <2>4, <3>2
    <3>4. round' = round + 1 /\ (phase' = "asking") = TRUE
      BY <2>2, <2>4
    <3>. QED
      BY <3>3, <3>4 DEF QuestionsInOrder
  <2>. QED
    BY <2>3, <2>4
<1>6. CASE (\E t \in Tabs : AnswerTimesOut(t)) \/ SkipWaiting \/ InstallBegins \/ InstallFails
  <2>1. UNCHANGED <<round, tab>> /\ (phase' = "asking" => phase = "asking")
    BY <1>6 DEF AnswerTimesOut, SkipWaiting, InstallBegins, InstallFails
  <2>. QED
    BY <1>2, <2>1
<1>7. CASE Refuse
  <2>1. phase = "asking" /\ phase' = "idle" /\ UNCHANGED round
    BY <1>7 DEF Refuse
  <2>. DEFINE m == [type |-> "update-cancelled", round |-> round]
  <2>2. m \in Messages /\ m.round = round
    BY <1>0, <2>1 DEF Messages
  <2>. HIDE DEF m
  <2>3. \A u \in Tabs : tab'[u].inbox = tab[u].inbox \/ tab'[u].inbox = Append(tab[u].inbox, m)
    BY <1>0, <1>7, <2>1, RefuseFacts DEF m
  <2>4. \A u \in Tabs : InOrder(Append(tab[u].inbox, m), round, FALSE)
    BY <1>0, <2>2, AskInOrder
  <2>5. \A u \in Tabs : InOrder(tab[u].inbox, round, FALSE)
    BY <1>0, FewerQuestions
  <2>6. (phase' = "asking") = FALSE
    BY <2>1
  <2>. QED
    BY <2>1, <2>3, <2>4, <2>5, <2>6 DEF QuestionsInOrder
<1>8. CASE ActivateBegins \/ ActivateEnds
  <2>1. UNCHANGED round /\ phase' # "asking"
    BY <1>8 DEF ActivateBegins, ActivateEnds
  <2>2. \A u \in Tabs : tab'[u].inbox = tab[u].inbox
    BY <1>0, <1>8, ActivateBeginsFacts, ActivateEndsFacts
  <2>. QED
    BY <1>2, <2>1, <2>2
<1>9. CASE InstallSucceeds
  <2>1. /\ UNCHANGED round /\ phase' = "idle"
        /\ tab' = [t \in Tabs |-> [tab[t] EXCEPT !.asks = FALSE]]
    BY <1>9 DEF InstallSucceeds
  <2>2. \A u \in Tabs : tab'[u].inbox = tab[u].inbox
    BY <1>0, <2>1, AsksDropped DEF SameNews
  <2>. QED
    BY <1>2, <2>1, <2>2
<1>. QED
  BY <1>3, <1>4, <1>5, <1>6, <1>7, <1>8, <1>9, StepCases

\* A tab that said it is ready stands still until the handshake failed or it was reloaded; the
\* handshake is agreed when every tab that was asked said so.
StandsStill(s) == ~s.busy /\ s.applying /\ s.inbox = <<>>
SoundAnswer(s, a, p, r) ==
  /\ p \in {"asking", "skipping"} /\ a = "ready" => StandsStill(s) /\ s.lock = r
  /\ p = "skipping" => a \in {"unasked", "ready"}
  /\ s.controlled /\ s.changed /\ a # "unasked" => a = "ready" /\ StandsStill(s)
ReadyTabsStandStill == \A t \in Tabs : SoundAnswer(tab[t], poll.answer[t], phase, round)

WorkInv == RequestInv /\ QuestionsInOrder /\ ReadyTabsStandStill

LEMMA WorkStart == UpdatesInit => WorkInv
<1>. SUFFICES ASSUME UpdatesInit PROVE WorkInv
  OBVIOUS
<1>1. \A t \in Tabs : ~tab[t].changed /\ tab[t].inbox = <<>>
  BY DEF UpdatesInit, Closed
<1>2. QuestionsInOrder
  BY <1>1, EmptyInOrder DEF QuestionsInOrder
<1>3. phase = "idle"
  BY DEF UpdatesInit
<1>4. ReadyTabsStandStill
  BY <1>1, <1>3 DEF ReadyTabsStandStill, SoundAnswer
<1>. QED
  BY <1>2, <1>4, RequestStart DEF WorkInv

LEMMA WorkFactsHold ==
  ASSUME WorkInv
  PROVE  /\ TypeInv /\ RequestInv /\ OneRequest /\ ChangesAreAwaited
         /\ Tabbed /\ WorkerType /\ poll \in Polls
         /\ round \in 0 .. MaxRounds
         /\ phase = "asking" => round \in 1 .. MaxRounds
         /\ phase \in {"idle", "asking", "skipping", "activating"}
         /\ \A t \in Tabs : /\ SoundAnswer(tab[t], poll.answer[t], phase, round)
                            /\ Gone(tab[t]) /\ poll.answer[t] \in Answers
                            /\ InOrder(tab[t].inbox, round, phase = "asking")
BY TypeFacts
DEF WorkInv, RequestInv, TypeInv, ClosedTabs, QuestionsInOrder, ReadyTabsStandStill, Polls

\* One tab and its answer change.
LEMMA AnswersKept ==
  ASSUME WorkInv, NEW t \in Tabs, UNCHANGED <<phase, round>>,
         \A u \in Tabs : u # t => tab'[u] = tab[u] /\ poll'.answer[u] = poll.answer[u],
         SoundAnswer(tab'[t], poll'.answer[t], phase, round)
  PROVE  ReadyTabsStandStill'
<1>1. ASSUME NEW u \in Tabs
      PROVE  SoundAnswer(tab'[u], poll'.answer[u], phase', round')
  <2>1. CASE u = t
    BY <2>1
  <2>2. CASE u # t
    BY <2>2, WorkFactsHold
  <2>. QED
    BY <2>1, <2>2
<1>. QED
  BY <1>1 DEF ReadyTabsStandStill

\* What a tab answers, and what it hears afterwards
LEMMA CheckAnswer ==
  ASSUME WorkInv, NEW t \in Tabs, HandleCheck(t)
  PROVE  SoundAnswer(tab'[t], poll'.answer[t], phase, round)
<1>0. /\ TypeInv /\ Tabbed /\ poll \in Polls /\ round \in 0 .. MaxRounds
      /\ SoundAnswer(tab[t], poll.answer[t], phase, round)
      /\ InOrder(tab[t].inbox, round, phase = "asking")
      /\ tab[t].inbox \in Seq(Messages) /\ tab[t].inbox # <<>>
  BY WorkFactsHold DEF HandleCheck, Tabbed, TabStates
<1>1. /\ tab'[t].changed = tab[t].changed /\ SameLoad(tab'[t], tab[t])
      /\ tab'[t].busy = tab[t].busy
      /\ tab'[t].inbox = Tail(tab[t].inbox)
      /\ ~tab[t].busy => tab'[t].applying /\ tab'[t].lock = round
  BY <1>0, HandleCheckFacts
<1>. DEFINE now == phase = "asking" /\ Head(tab[t].inbox).round = round /\ poll.answer[t] = "asked"
<1>2. CASE ~now
  <2>1. UNCHANGED poll
    BY <1>2 DEF HandleCheck
  <2>. QED
    BY <1>0, <1>1, <2>1 DEF SoundAnswer, StandsStill, SameLoad
<1>3. CASE now
  <2>1. poll'.answer[t] = IF tab[t].busy THEN "busy" ELSE "ready"
    <3>. DEFINE b == IF tab[t].busy THEN "busy" ELSE "ready"
    <3>1. b \in Answers /\ poll' = [poll EXCEPT !.answer[t] = b]
      BY <1>3 DEF HandleCheck, Answers
    <3>. HIDE DEF b
    <3>2. poll'.answer[t] = b
      BY <1>0, <3>1, AnswerPoll
    <3>. QED
      BY <3>2 DEF b
  <2>2. ~(tab[t].controlled /\ tab[t].changed)
    BY <1>0, <1>3 DEF SoundAnswer
  <2>3. Tail(tab[t].inbox) = <<>>
    <3>. DEFINE q == tab[t].inbox
    <3>1. q \in Seq(Messages) /\ q # <<>>
      BY <1>0
    <3>2. 1 \in DOMAIN q /\ q[1] = Head(q) /\ Len(q) \in Nat /\ DOMAIN q = 1 .. Len(q)
      BY <3>1, HeadTailProperties, EmptySeq, LenProperties
    <3>3. Head(q) = [type |-> "check-ready", round |-> round]
      <4>1. Head(q) \in Messages
        BY <3>1, <3>2, ElementOfSeq
      <4>2. Head(q).type = "check-ready" /\ Head(q).round = round
        BY <1>3 DEF HandleCheck
      <4>. QED
        BY <4>1, <4>2 DEF Messages
    <3>4. 1 = Len(q)
      BY <1>0, <1>3, <3>2, <3>3 DEF InOrder
    <3>. HIDE DEF q
    <3>5. Tail(q) \in Seq(Messages) /\ Len(Tail(q)) = 0
      BY <3>1, <3>4, HeadTailProperties
    <3>6. Tail(q) = <<>>
      BY <3>5, EmptySeq
    <3>. QED
      BY <3>6 DEF q
  <2>4. tab[t].busy \in BOOLEAN
    BY <1>0 DEF Tabbed, TabStates
  <2>5. ~(tab'[t].controlled /\ tab'[t].changed)
    BY <1>1, <2>2 DEF SameLoad
  <2>6. phase = "asking"
    BY <1>3
  <2>7. CASE tab[t].busy
    BY <2>1, <2>5, <2>6, <2>7 DEF SoundAnswer
  <2>8. CASE ~tab[t].busy
    BY <1>1, <2>1, <2>3, <2>5, <2>6, <2>8 DEF SoundAnswer, StandsStill
  <2>. QED
    BY <2>7, <2>8
<1>. QED
  BY <1>2, <1>3

LEMMA TabAnswer ==
  ASSUME OneRequester, Prompt, WorkInv, NEW t \in Tabs,
         OpenTab(t) \/ Leaves(t) \/ Quiet(t) \/ Apply(t) \/ TakenOver(t)
  PROVE  ReadyTabsStandStill'
<1>0. /\ TypeInv /\ OneRequest /\ Tabbed /\ poll \in Polls /\ round \in 0 .. MaxRounds
      /\ SoundAnswer(tab[t], poll.answer[t], phase, round)
      /\ Gone(tab[t]) /\ poll.answer[t] \in Answers
      /\ phase \in {"idle", "asking", "skipping", "activating"}
  BY WorkFactsHold
<1>1. CASE OpenTab(t)
  <2>1. /\ \A u \in Tabs : u # t => tab'[u] = tab[u]
        /\ ~tab'[t].changed /\ UNCHANGED <<phase, round, poll>>
    BY <1>0, <1>1, OpensFacts
  <2>2. ~tab[t].applying
    BY <1>0, <1>1 DEF OpenTab, Open, Gone
  <2>3. SoundAnswer(tab'[t], poll'.answer[t], phase, round)
    BY <1>0, <2>1, <2>2 DEF SoundAnswer, StandsStill
  <2>. QED
    BY <2>1, <2>3, AnswersKept
<1>2. CASE Leaves(t)
  <2>1. /\ \A u \in Tabs : u # t => tab'[u] = tab[u] /\ poll'.answer[u] = poll.answer[u]
        /\ ~tab'[t].changed /\ UNCHANGED <<phase, round>>
        /\ poll'.answer[t] = GoneAnswer(poll.answer[t])
    BY <1>0, <1>2, LeavesFacts
  <2>2. SoundAnswer(tab'[t], poll'.answer[t], phase, round)
    BY <1>0, <2>1 DEF SoundAnswer, GoneAnswer
  <2>. QED
    BY <2>1, <2>2, AnswersKept
<1>3. CASE Apply(t)
  <2>1. /\ \A u \in Tabs : u # t => tab'[u] = tab[u]
        /\ tab'[t].changed = tab[t].changed /\ UNCHANGED <<phase, round, poll>>
    BY <1>0, <1>3, AppliesFacts DEF SameNews
  <2>2. phase = "idle" /\ ~tab[t].changed
    BY <1>3 DEF Apply, ChangePending
  <2>3. SoundAnswer(tab'[t], poll'.answer[t], phase, round)
    BY <2>1, <2>2 DEF SoundAnswer
  <2>. QED
    BY <2>1, <2>3, AnswersKept
<1>4. CASE TakenOver(t)
  <2>1. /\ \A u \in Tabs : u # t => tab'[u] = tab[u]
        /\ SameStand(tab'[t], tab[t]) /\ tab'[t].inbox = tab[t].inbox
        /\ ~tab'[t].changed /\ UNCHANGED <<phase, round, poll>>
    BY <1>0, <1>4, TakesOverFacts
  <2>2. SoundAnswer(tab'[t], poll'.answer[t], phase, round)
    BY <1>0, <2>1 DEF SoundAnswer, StandsStill, SameStand
  <2>. QED
    BY <2>1, <2>2, AnswersKept
<1>5. CASE Quiet(t)
  <2>1. /\ \A u \in Tabs : u # t => tab'[u] = tab[u] /\ poll'.answer[u] = poll.answer[u]
        /\ SameLoad(tab'[t], tab[t]) /\ tab'[t].changed = tab[t].changed
        /\ UNCHANGED <<phase, round>>
    BY <1>0, <1>5, QuietFacts
  <2>2. SoundAnswer(tab'[t], poll'.answer[t], phase, round)
    <3>1. CASE StartWork(t)
      <4>1. ~tab[t].applying /\ UNCHANGED poll
        BY <3>1 DEF StartWork, KeepWorker
      <4>. QED
        BY <1>0, <2>1, <4>1 DEF SoundAnswer, StandsStill, SameLoad
    <3>2. CASE FinishWork(t)
      <4>1. SetTab(t, [tab[t] EXCEPT !.busy = FALSE]) /\ UNCHANGED poll
        BY <3>2 DEF FinishWork, KeepWorker
      <4>2. /\ ~tab'[t].busy /\ SameNews(tab'[t], tab[t]) /\ tab'[t].applying = tab[t].applying
            /\ tab'[t].lock = tab[t].lock
        BY <1>0, <4>1, WorkFacts
      <4>. QED
        BY <1>0, <2>1, <4>1, <4>2 DEF SoundAnswer, StandsStill, SameLoad, SameNews
    <3>3. CASE ReplyArrives(t)
      <4>1. phase = "idle" /\ ~tab[t].changed
        BY <1>0, <3>3 DEF ReplyArrives, OneRequest, NobodyReloads
      <4>. QED
        BY <2>1, <4>1 DEF SoundAnswer
    <3>4. CASE RequestTimesOut(t)
      <4>1. phase # "skipping" /\ ~tab[t].changed
        BY <3>4 DEF RequestTimesOut, ChangePending
      <4>2. phase # "asking"
        BY <1>0, <3>4 DEF RequestTimesOut, OneRequest
      <4>. QED
        BY <2>1, <4>1, <4>2 DEF SoundAnswer
    <3>5. CASE HandleCheck(t)
      BY <3>5, CheckAnswer
    <3>6. CASE HandleCancelled(t)
      <4>1. tab[t].inbox # <<>> /\ UNCHANGED poll
        BY <3>6 DEF HandleCancelled, KeepWorker
      <4>. QED
        BY <1>0, <2>1, <4>1 DEF SoundAnswer, StandsStill, SameLoad
    <3>7. CASE LockExpires(t)
      <4>1. phase # "skipping" /\ ~tab[t].changed /\ UNCHANGED poll
        BY <3>7 DEF LockExpires, ChangePending, KeepWorker
      <4>2. ~(phase = "asking" /\ poll.answer[t] = "ready")
        BY <1>0, <3>7 DEF LockExpires, SoundAnswer
      <4>. QED
        BY <2>1, <4>1, <4>2 DEF SoundAnswer
    <3>. QED
      BY <1>5, <3>1, <3>2, <3>3, <3>4, <3>5, <3>6, <3>7 DEF Quiet
  <2>. QED
    BY <2>1, <2>2, AnswersKept
<1>. QED
  BY <1>1, <1>2, <1>3, <1>4, <1>5

LEMMA WorkerAnswer ==
  ASSUME OneRequester, Prompt, WorkInv,
         \/ \E t \in Tabs : HandleApply(t) \/ AnswerTimesOut(t)
         \/ Refuse \/ SkipWaiting \/ ActivateBegins \/ ActivateEnds
         \/ InstallBegins \/ InstallSucceeds \/ InstallFails
  PROVE  ReadyTabsStandStill'
<1>0. /\ TypeInv /\ OneRequest /\ ChangesAreAwaited /\ Tabbed /\ poll \in Polls
      /\ round \in 0 .. MaxRounds
      /\ phase = "asking" => round \in 1 .. MaxRounds
      /\ phase \in {"idle", "asking", "skipping", "activating"}
      /\ \A t \in Tabs : /\ SoundAnswer(tab[t], poll.answer[t], phase, round)
                         /\ poll.answer[t] \in Answers
  BY WorkFactsHold
<1>1. ASSUME NEW t \in Tabs, HandleApply(t)
      PROVE  ReadyTabsStandStill'
  <2>1. phase = "idle" /\ NobodyReloads
    BY <1>0, <1>1 DEF HandleApply, OneRequest, ChangesAreAwaited
  <2>2. phase' = "asking" /\ \A u \in Tabs : poll'.answer[u] # "ready"
    BY <1>0, <1>1, <2>1, HandshakeFacts
  <2>3. \A u \in Tabs : ~tab'[u].changed
    BY <1>0, <1>1, <2>1, HandleApplyFacts DEF NobodyReloads
  <2>. QED
    BY <2>2, <2>3 DEF ReadyTabsStandStill, SoundAnswer
<1>2. ASSUME NEW t \in Tabs, AnswerTimesOut(t)
      PROVE  ReadyTabsStandStill'
  <2>1. phase = "asking" /\ UNCHANGED <<phase, round, tab>>
    BY <1>2 DEF AnswerTimesOut
  <2>2. /\ poll'.answer[t] = "busy" /\ \A u \in Tabs : u # t => poll'.answer[u] = poll.answer[u]
    BY <1>0, <1>2, AnswerPoll DEF AnswerTimesOut, Answers
  <2>3. ~tab[t].changed
    BY <1>0, <2>1 DEF ChangesAreAwaited, NobodyReloads
  <2>4. SoundAnswer(tab'[t], poll'.answer[t], phase, round)
    BY <2>1, <2>2, <2>3 DEF SoundAnswer
  <2>. QED
    BY <2>1, <2>2, <2>4, AnswersKept
<1>3. CASE Refuse
  <2>1. phase = "asking" /\ phase' = "idle"
    BY <1>3 DEF Refuse
  <2>2. \A u \in Tabs : ~tab'[u].changed
    BY <1>0, <1>3, <2>1, RefuseFacts DEF ChangesAreAwaited, NobodyReloads
  <2>. QED
    BY <2>1, <2>2 DEF ReadyTabsStandStill, SoundAnswer
<1>4. CASE SkipWaiting
  <2>1. /\ phase = "asking" /\ phase' = "skipping" /\ UNCHANGED <<round, poll, tab>>
        /\ \A t \in Tabs : poll.answer[t] \in {"unasked", "ready"}
    BY <1>4 DEF SkipWaiting, AllReady
  <2>. QED
    BY <1>0, <2>1 DEF ReadyTabsStandStill, SoundAnswer
<1>5. CASE ActivateBegins
  <2>1. phase' = "activating" /\ UNCHANGED poll
    BY <1>5 DEF ActivateBegins
  <2>2. \A u \in Tabs :
          /\ SameLoad(tab'[u], tab[u]) /\ SameStand(tab'[u], tab[u])
          /\ tab'[u].inbox = tab[u].inbox
    BY <1>0, <1>5, ActivateBeginsFacts
  <2>3. CASE phase = "skipping"
    <3>1. \A u \in Tabs : poll.answer[u] # "unasked" =>
                            poll.answer[u] = "ready" /\ StandsStill(tab[u])
      BY <1>0, <2>3 DEF SoundAnswer
    <3>. QED
      BY <2>1, <2>2, <3>1 DEF ReadyTabsStandStill, SoundAnswer, StandsStill, SameStand
  <2>4. CASE phase # "skipping"
    <3>1. \A u \in Tabs : ~tab'[u].controlled
      BY <1>5, <2>2, <2>4 DEF ActivateBegins, SameLoad
    <3>. QED
      BY <2>1, <3>1 DEF ReadyTabsStandStill, SoundAnswer
  <2>. QED
    BY <2>3, <2>4
<1>6. CASE ActivateEnds
  <2>1. phase' = "idle" /\ UNCHANGED poll
    BY <1>6 DEF ActivateEnds
  <2>2. \A u \in Tabs :
          /\ SameLoad(tab'[u], tab[u]) /\ SameStand(tab'[u], tab[u])
          /\ tab'[u].inbox = tab[u].inbox
          /\ tab'[u].changed <=> (tab[u].changed \/ (Open(u) /\ ~tab[u].controlled))
    BY <1>0, <1>6, ActivateEndsFacts
  <2>. QED
    BY <1>0, <2>1, <2>2 DEF ReadyTabsStandStill, SoundAnswer, StandsStill, SameStand, SameLoad
<1>7. CASE InstallBegins \/ InstallFails
  BY <1>0, <1>7 DEF InstallBegins, InstallFails, ReadyTabsStandStill
<1>8. CASE InstallSucceeds
  <2>1. /\ phase' = "idle" /\ UNCHANGED poll
        /\ tab' = [t \in Tabs |-> [tab[t] EXCEPT !.asks = FALSE]]
    BY <1>8 DEF InstallSucceeds
  <2>2. \A u \in Tabs : /\ SameLoad(tab'[u], tab[u]) /\ SameStand(tab'[u], tab[u])
                        /\ SameNews(tab'[u], tab[u])
    BY <1>0, <2>1, AsksDropped
  <2>. QED
    BY <1>0, <2>1, <2>2
    DEF ReadyTabsStandStill, SoundAnswer, StandsStill, SameStand, SameLoad, SameNews
<1>. QED
  BY <1>1, <1>2, <1>3, <1>4, <1>5, <1>6, <1>7, <1>8

LEMMA WorkStep ==
  ASSUME OneRequester, Prompt, WorkInv, [UpdatesNext]_updatesVars
  PROVE  WorkInv'
<1>1. RequestInv'
  BY RequestStep DEF WorkInv
<1>2. CASE UNCHANGED updatesVars
  BY <1>1, <1>2 DEF WorkInv, QuestionsInOrder, ReadyTabsStandStill, updatesVars
<1>3. CASE UpdatesNext
  <2>1. QuestionsInOrder'
    BY <1>3, QuestionsStep DEF WorkInv, RequestInv
  <2>2. ReadyTabsStandStill'
    BY <1>3, StepCases, TabAnswer, WorkerAnswer
  <2>. QED
    BY <1>1, <2>1, <2>2 DEF WorkInv
<1>. QED
  BY <1>2, <1>3

\* An update throws away the work only of a tab that opened after the worker had asked, for any
\* number of tabs and handshakes, as long as nobody asks for a second update while one runs and
\* the browser activates a worker within the locks (sw.js:137-152, browser-updates.ts:88-91).
THEOREM WorkIsKept ==
  ASSUME OneRequester, Prompt
  PROVE  UpdatesSpec => OnlyNewTabsLoseWork
<1>1. ASSUME WorkInv, [UpdatesNext]_updatesVars
      PROVE  [ \A t \in Tabs : tab[t].busy /\ ControllerChanges(t) /\ tab'[t].page # tab[t].page =>
                 poll.answer[t] = "unasked" ]_updatesVars
  <2>1. ASSUME NEW t \in Tabs, tab[t].busy, ControllerChanges(t), tab'[t].page # tab[t].page
        PROVE  poll.answer[t] = "unasked"
    <3>1. /\ SoundAnswer(tab[t], poll.answer[t], phase, round) /\ Tabbed
          /\ OneRequest /\ TypeInv
      BY <1>1, WorkFactsHold
    <3>2. tab[t].controlled \/ tab[t].awaiting
      <4>1. TakenOver(t) => tab'[t].page = tab[t].page
        BY <3>1, TakesOverFacts
      <4>. QED
        BY <2>1, <4>1 DEF TakenOver
    <3>3. tab[t].controlled /\ tab[t].changed
      BY <2>1, <3>1, <3>2 DEF OneRequest, ControllerChanges
    <3>. QED
      BY <2>1, <3>1, <3>3 DEF SoundAnswer, StandsStill
  <2>. QED
    BY <2>1
<1>2. ASSUME WorkInv, [UpdatesNext]_updatesVars
      PROVE  WorkInv'
  BY <1>2, WorkStep
<1>. QED
  BY <1>1, <1>2, WorkStart, PTL DEF UpdatesSpec, OnlyNewTabsLoseWork
=============================================================================
