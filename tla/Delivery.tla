------------------------------- MODULE Delivery -------------------------------
(***************************************************************************)
(* What the program promises about a display it writes to, whoever sends,  *)
(* whatever times out and whichever connection comes and goes: the packets *)
(* of a plan reach one display, in order, none twice and none left out,    *)
(* and no packet of another plan comes between them.  A plan may be        *)
(* abandoned anywhere; of the packet that was out at that moment it is not *)
(* known whether it arrives, but no plan begins before that is settled.    *)
(* So a display stores a program only if it got it whole.                  *)
(*                                                                         *)
(* There are no callers here, no connections, authorizations, queues or    *)
(* timers.  Transmission implements this specification.                    *)
(***************************************************************************)
EXTENDS Naturals

CONSTANTS
  Displays,   \* the displays that are written to
  Programs,   \* what a display stores
  MaxPackets  \* bound on the packets of a plan

Transient == "transient"    \* a plan that is executed, not stored
Plans == [to : Displays, program : Programs \cup {Transient}, size : 1 .. MaxPackets]

VARIABLES
  sent,       \* the plan being sent, if any, with the number of packets that arrived
  overdue,    \* an abandoned plan, if any, whose next packet may still arrive
  stores      \* what each display stores
deliveryVars == <<sent, overdue, stores>>

Under(plan, got) == [plan |-> plan, got |-> got]

DeliveryInit ==
  /\ sent = {} /\ overdue = {}
  /\ stores = [d \in Displays |-> "blank"]

\* The next packet of a plan arrives.  The last one completes the program.
Arrives(u) ==
  stores' = IF u.plan.program = Transient THEN stores
            ELSE [stores EXCEPT ![u.plan.to] =
                    IF u.got + 1 = u.plan.size THEN u.plan.program ELSE "partial"]

Begin ==
  /\ sent = {} /\ overdue = {}
  /\ \E plan \in Plans : sent' = {Under(plan, 0)}
  /\ UNCHANGED <<overdue, stores>>

\* A plan ends with its last packet, or later if a response is awaited.
Deliver ==
  \E u \in sent :
    /\ u.got < u.plan.size /\ Arrives(u)
    /\ \/ sent' = {Under(u.plan, u.got + 1)}
       \/ u.got + 1 = u.plan.size /\ sent' = {}
    /\ UNCHANGED overdue

Respond ==
  /\ \E u \in sent : u.got = u.plan.size
  /\ sent' = {} /\ UNCHANGED <<overdue, stores>>

Abandon ==
  \E u \in sent :
    /\ u.got < u.plan.size
    /\ sent' = {} /\ overdue' \in {{}, {u}} /\ UNCHANGED stores

DeliverLate ==
  \E u \in overdue : Arrives(u) /\ overdue' = {} /\ UNCHANGED sent

Lose == overdue # {} /\ overdue' = {} /\ UNCHANGED <<sent, stores>>

DeliveryNext == Begin \/ Deliver \/ Respond \/ Abandon \/ DeliverLate \/ Lose
DeliverySpec == DeliveryInit /\ [][DeliveryNext]_deliveryVars
===============================================================================
