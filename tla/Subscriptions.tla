---------------------------- MODULE Subscriptions ----------------------------
(***************************************************************************)
(* Notifications from the display: the subscription bookkeeping of         *)
(* ConnectionService and WebBluetoothTransport, the router that hands a    *)
(* response to the command that waits for it (app/notifications.ts), and   *)
(* the evidence ProtocolEvidenceService keeps of every send and probe.     *)
(*                                                                         *)
(* One notifying characteristic.  A connection is its generation; a        *)
(* notification is numbered as it arrives and knows its generation.  The   *)
(* life of the connection itself is module Connection, that of a send is   *)
(* module Transmission: here a send is what it does to subscriptions,      *)
(* waiters and evidence.  Restoring the subscriptions after a connect is   *)
(* one more caller that enables them.                                      *)
(***************************************************************************)
EXTENDS Naturals, Sequences, FiniteSets, SequencesExt

CONSTANTS
  Senders,          \* calls of send(), sendPersistentContent() and probe()
  Restore,          \* the call of _restoreNotificationSubscriptions
  MaxLink,          \* bound on generations
  MaxNotes,         \* bound on notifications
  TraceEvents,      \* INPUT_LIMITS.traceEvents
  Transactions      \* INPUT_LIMITS.transactions
ASSUME SubscriptionsAssumption ==
  /\ IsFiniteSet(Senders) /\ Restore \notin Senders /\ "none" \notin Senders \cup {Restore}
  /\ {MaxLink, MaxNotes, TraceEvents, Transactions} \subseteq Nat

VARIABLES
  current,        \* the generation that is connected, 0 for none
  links,          \* generations so far
  closing,        \* disconnect() awaits its unsubscribes
  desired,        \* _desiredNotificationEndpoints has the endpoint
  subscription,   \* whose unsubscribe function _notificationSubscriptions holds
  listeners,      \* listeners on the characteristic, by the call that added them
  waiters,        \* calls with a waiter in the router
  notes,          \* session.notifications
  arrived,        \* notifications that arrived so far
  transactions,   \* _transactions
  call,           \* the calls
  compiled        \* the last compilation recorded and the transaction it is linked to
subscriptionVars == <<current, links, closing, desired, subscription, listeners, waiters,
                      notes, arrived, transactions, call, compiled>>

------------------------------------------------------------------------------
Calls == Senders \cup {Restore}
NoCall == "none"
Notes == [link : 1 .. MaxLink, number : 1 .. MaxNotes]
\* start is notificationStart, since the notifications that had arrived by then, index the
\* transactions counted when the call began; alone says that no other call recorded one since.
CallStates == [pc : {"idle", "starting", "executing", "over"}, link : 0 .. MaxLink,
               start : 0 .. TraceEvents, since : 0 .. MaxNotes, index : 0 .. Transactions,
               alone : BOOLEAN, response : Notes \cup {[link |-> 0, number |-> 0]}]
NoResponse == [link |-> 0, number |-> 0]
Idle == [pc |-> "idle", link |-> 0, start |-> 0, since |-> 0, index |-> 0,
         alone |-> TRUE, response |-> NoResponse]
Over == [Idle EXCEPT !.pc = "over"]
Transaction == [by : Calls \cup {NoCall}, ok : BOOLEAN, since : 0 .. MaxNotes, link : 0 .. MaxLink,
                rx : Seq(Notes), response : Notes \cup {NoResponse}]

SubscriptionsTypeOK ==
  /\ current \in 0 .. MaxLink /\ links \in 0 .. MaxLink
  /\ closing \in BOOLEAN /\ desired \in BOOLEAN
  /\ subscription \in Calls \cup {NoCall}
  /\ listeners \subseteq Calls /\ waiters \subseteq Senders
  /\ notes \in Seq(Notes) /\ Len(notes) <= TraceEvents
  /\ arrived \in 0 .. MaxNotes
  /\ transactions \in Seq(Transaction) /\ Len(transactions) <= Transactions
  /\ call \in [Calls -> CallStates]
  /\ compiled \in [by : Calls \cup {NoCall}, linked : Calls \cup {NoCall}, alone : BOOLEAN]

SubscriptionsInit ==
  /\ current = 0 /\ links = 0 /\ closing = FALSE
  /\ desired = FALSE /\ subscription = NoCall /\ listeners = {}
  /\ waiters = {} /\ notes = <<>> /\ arrived = 0 /\ transactions = <<>>
  /\ call = [c \in Calls |-> Idle]
  /\ compiled = [by |-> NoCall, linked |-> NoCall, alone |-> TRUE]

Enabling == {c \in Calls : call[c].pc = "starting"}
KeepLink == UNCHANGED <<current, links, closing>>
KeepSubscriptions == UNCHANGED <<desired, subscription, listeners>>
KeepEvidence == UNCHANGED <<notes, arrived, transactions, compiled>>

\* A mutant of the lists without their limit.
Untrimmed(s, n) == s
\* The last n of a list: recordNotification and _trimTransactions cut it at its front.
LastOf(s, n) == SubSeq(s, IF Len(s) > n THEN Len(s) - n + 1 ELSE 1, Len(s))

\* _recordTransaction with _trimTransactions
\* A mutant takes every notification of the session.
AllNotes(c) == notes
Received(c) == SubSeq(notes, call[c].start + 1, Len(notes))
Recorded(c, ok) ==
  LastOf(Append(transactions, [by |-> c, ok |-> ok, since |-> call[c].since,
                               link |-> call[c].link, rx |-> Received(c),
                               response |-> call[c].response]),
         Transactions)
\* Every other call under way now shares the list with a record of another call.
Shared(c) ==
  [d \in Calls |-> IF d # c /\ call[d].pc \in {"starting", "executing"}
                   THEN [call[d] EXCEPT !.alone = FALSE] ELSE call[d]]

------------------------------------------------------------------------------
(* The connection.                                                         *)

\* _establish; a caller that restores the subscriptions awaits them.  The unsubscribes a
\* disconnect() awaits reject when the link drops, before another one can open.
Establish ==
  /\ current = 0 /\ ~closing /\ links < MaxLink
  /\ call[Restore].pc # "starting"
  /\ current' = links + 1 /\ links' = links + 1
  /\ notes' = <<>>
  /\ IF desired
     THEN /\ listeners' = listeners \cup {Restore}
          /\ call' = [call EXCEPT ![Restore] = [Idle EXCEPT !.pc = "starting", !.link = links + 1]]
     ELSE UNCHANGED <<listeners, call>>
  /\ UNCHANGED <<closing, desired, subscription, waiters, arrived, transactions, compiled>>

\* A mutant that leaves the waiters of a lost connection armed.
WaitersKept == waiters
\* reset: every waiter is rejected, which its send takes for a time-out.
WaitersReset == {}

\* An unexpected loss: the transport removes its listeners, _handleTransportState the rest.
Lose ==
  /\ current # 0 /\ ~closing
  /\ current' = 0
  /\ listeners' = {} /\ subscription' = NoCall
  /\ waiters' = WaitersReset
  /\ notes' = <<>>
  /\ UNCHANGED <<links, closing, desired, arrived, transactions, call, compiled>>

\* A loss while disconnect() runs is left to it.
LoseWhileClosing ==
  /\ current # 0 /\ closing
  /\ current' = 0
  /\ listeners' = {}
  /\ UNCHANGED <<links, closing, desired, subscription, waiters, call>>
  /\ KeepEvidence

CloseBegins ==
  /\ current # 0 /\ ~closing
  /\ closing' = TRUE
  /\ listeners' = listeners \ {subscription}
  /\ UNCHANGED <<current, links, desired, subscription, waiters, call>>
  /\ KeepEvidence

CloseEnds ==
  /\ closing
  /\ closing' = FALSE /\ current' = 0
  /\ listeners' = {} /\ subscription' = NoCall /\ desired' = FALSE
  /\ waiters' = WaitersReset
  /\ notes' = <<>>
  /\ UNCHANGED <<links, arrived, transactions, call, compiled>>

------------------------------------------------------------------------------
(* A send.                                                                 *)

\* Execution begins when no other one is under way and the connection is still the plan's;
\* otherwise the failure is recorded.  The response is armed before the first write.
MayRun(c) ==
  /\ current = call[c].link
  /\ \A d \in Senders : call[d].pc # "executing"
Run(c) ==
  IF MayRun(c)
  THEN /\ call' = [call EXCEPT ![c].pc = "executing"]
       /\ waiters' = waiters \cup {c}
       /\ UNCHANGED transactions
  ELSE /\ call' = [Shared(c) EXCEPT ![c] = Over]
       /\ transactions' = Recorded(c, FALSE)
       /\ UNCHANGED waiters

\* The early return of enableNotifications
Known == subscription # NoCall
\* _execute up to the await in enableNotifications, which a known subscription skips
Begun ==
  [pc |-> "starting", link |-> current, start |-> Len(notes), since |-> arrived,
   index |-> Len(transactions), alone |-> TRUE, response |-> NoResponse]
BeginSend(c) ==
  /\ c \in Senders /\ call[c].pc = "idle"
  /\ current # 0
  /\ desired' = TRUE
  /\ IF ~Known
     THEN /\ call' = [call EXCEPT ![c] = Begun]
          /\ listeners' = listeners \cup {c}
          /\ UNCHANGED <<waiters, transactions>>
     ELSE /\ IF \A d \in Senders : call[d].pc # "executing"
             THEN /\ call' = [call EXCEPT ![c] = [Begun EXCEPT !.pc = "executing"]]
                  /\ waiters' = waiters \cup {c}
                  /\ UNCHANGED transactions
             ELSE /\ call' = [Shared(c) EXCEPT ![c] = Over]
                  /\ transactions' = LastOf(Append(transactions,
                                                   [by |-> c, ok |-> FALSE, since |-> arrived,
                                                    link |-> current, rx |-> <<>>,
                                                    response |-> NoResponse]), Transactions)
                  /\ UNCHANGED waiters
          /\ UNCHANGED listeners
  /\ UNCHANGED <<subscription, notes, arrived, compiled>> /\ KeepLink

\* A mutant of what happens when startNotifications() settles.
SubscribedAnyway(c) == [subscription |-> c, listeners |-> listeners]
\* The subscription of a connection that has ended is given back.
Subscribed(c) ==
  IF current = call[c].link
  THEN [subscription |-> c, listeners |-> listeners]
  ELSE [subscription |-> subscription, listeners |-> listeners \ {c}]
StartSucceeds(c) ==
  /\ call[c].pc = "starting"
  /\ subscription' = Subscribed(c).subscription
  /\ listeners' = Subscribed(c).listeners
  /\ IF c = Restore
     THEN call' = [call EXCEPT ![c] = Idle] /\ UNCHANGED <<waiters, transactions>>
     ELSE Run(c)
  /\ UNCHANGED <<desired, notes, arrived, compiled>> /\ KeepLink

\* startNotifications() fails: the call rejects, its listener stays.
StartFails(c) ==
  /\ call[c].pc = "starting"
  /\ call' = [call EXCEPT ![c] = IF c = Restore THEN Idle ELSE Over]
  /\ UNCHANGED waiters /\ KeepLink /\ KeepSubscriptions /\ KeepEvidence

\* A notification: each listener records it, and the router resolves the waiters it answers.
Notify(answers) ==
  /\ current # 0 /\ arrived < MaxNotes /\ listeners # {}
  /\ LET note == [link |-> current, number |-> arrived + 1]
         copies == [k \in 1 .. Cardinality(listeners) |-> note]
     IN  /\ notes' = LastOf(notes \o copies, TraceEvents)
         /\ arrived' = arrived + 1
         /\ IF answers
            THEN /\ waiters' = {}
                 /\ call' = [c \in Calls |-> IF c \in waiters
                                             THEN [call[c] EXCEPT !.response = note] ELSE call[c]]
            ELSE UNCHANGED <<waiters, call>>
  /\ UNCHANGED <<transactions, compiled>> /\ KeepLink /\ KeepSubscriptions

\* A mutant of that index.
LinkedBefore(c, list) == IF call[c].index \in DOMAIN list THEN list[call[c].index].by ELSE NoCall
\* The compilation of a send is linked to the transaction at the index its list had before.
LinkedTo(c, list) ==
  IF call[c].index < Len(list) THEN list[call[c].index + 1].by ELSE NoCall

\* The last write was accepted and the waiter settled, or timed out.  A waiter that reset
\* rejected goes on before anything else can happen.
SendReturns(c) ==
  /\ c \in Senders /\ call[c].pc = "executing"
  /\ current = call[c].link \/ (current = 0 /\ links = call[c].link /\ c \notin waiters)
  /\ call' = [Shared(c) EXCEPT ![c] = Over]
  /\ waiters' = waiters \ {c}
  /\ transactions' = Recorded(c, TRUE)
  /\ compiled' = [by |-> c, linked |-> LinkedTo(c, transactions'), alone |-> call[c].alone]
  /\ UNCHANGED <<notes, arrived>> /\ KeepLink /\ KeepSubscriptions

\* A write failed, or was still in the browser when its time was up.
SendFails(c) ==
  /\ c \in Senders /\ call[c].pc = "executing"
  /\ call' = [Shared(c) EXCEPT ![c] = Over]
  /\ waiters' = waiters \ {c}
  /\ transactions' = Recorded(c, FALSE)
  /\ UNCHANGED <<notes, arrived, compiled>> /\ KeepLink /\ KeepSubscriptions

\* read() records its transaction whatever else is under way.
Read ==
  /\ current # 0
  /\ transactions' =
       LastOf(Append(transactions, [by |-> NoCall, ok |-> TRUE, since |-> arrived,
                                    link |-> current, rx |-> <<>>, response |-> NoResponse]),
              Transactions)
  /\ call' = Shared(NoCall)
  /\ UNCHANGED <<notes, arrived, compiled, waiters>> /\ KeepLink /\ KeepSubscriptions

SubscriptionsNext ==
  \/ Establish \/ Lose \/ LoseWhileClosing \/ CloseBegins \/ CloseEnds \/ Read
  \/ \E answers \in BOOLEAN : Notify(answers)
  \/ \E c \in Calls :
       \/ BeginSend(c) \/ StartSucceeds(c) \/ StartFails(c) \/ SendReturns(c) \/ SendFails(c)

SubscriptionsSpec == SubscriptionsInit /\ [][SubscriptionsNext]_subscriptionVars

------------------------------------------------------------------------------
(* Properties.                                                             *)

\* As long as a connection lasts, the subscription the service believes in has its listener:
\* no send waits for answers that nobody listens to (enableNotifications, _handleTransportState
\* and disconnect together).
SubscriptionsAreLive ==
  subscription # NoCall /\ current # 0 /\ ~closing => subscription \in listeners

\* A waiter belongs to a send of the connection that is there: reset leaves no waiter of an
\* older connection that a packet of the next one could answer.
WaitersEndWithTheirConnection ==
  \A c \in waiters : call[c].pc = "executing" /\ (call[c].link = current \/ closing)

\* A transaction that succeeded holds only packets, and a response, that its own connection
\* delivered after it began, although the list it takes them from is emptied and trimmed
\* meanwhile (_execute, _recordTransaction, recordNotification).
TransactionsHoldTheirOwnPackets ==
  \A k \in DOMAIN transactions :
    LET t == transactions[k] IN
    t.ok => \A n \in ToSet(t.rx) \cup ({t.response} \ {NoResponse}) :
              n.link = t.link /\ n.number > t.since

\* When no other call recorded a transaction meanwhile, a compilation is linked to the
\* transaction of its own send, or to none once the list is at its limit (sendPersistentContent
\* indexes a list that _trimTransactions shifts).
CompilationsNameTheirTransaction == compiled.alone => compiled.linked \in {compiled.by, NoCall}

\* Who listens and who waits follows the connection: a subscription believed in has its listener,
\* and no waiter of an older connection is left (SubscriptionsAreLive, WaitersEndWithTheirConnection).
ListenersFollowTheConnection == SubscriptionsAreLive /\ WaitersEndWithTheirConnection

\* What is recorded of a send is its own: the packets, the response and the compilation.
RecordsBelongToTheirSend == TransactionsHoldTheirOwnPackets /\ CompilationsNameTheirTransaction
==============================================================================
