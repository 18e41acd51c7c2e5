----------------------------- MODULE Capabilities -----------------------------
(***************************************************************************)
(* What MatrixSmith offers to do with a display, given a pool of evidence: *)
(* the capabilities of the CoolLEDUX driver for the characterized model    *)
(* (src/drivers/coolledux/index.ts), their assessment and the actions      *)
(* (src/domain/device/assessment.ts, src/drivers/types.ts), and what a     *)
(* request to send content answers (presentation/state/content-send-       *)
(* store.ts).                                                              *)
(*                                                                         *)
(* The target is a resolved profile; how a display gets there, and what is *)
(* offered before, is the subject of Identification.  Reasons, labels and  *)
(* the evidence quoted with an assessment are left out.                    *)
(***************************************************************************)
EXTENDS Claims

\* Of each capability the driver provides, how far it vouches for it.
Provided ==
  [c \in {"device-info", "brightness", "power", "static-frame", "animation", "text", "gif"} |->
     IF c \in {"power", "gif"} THEN "experimental" ELSE "verified"]
CapabilityIds == DOMAIN Provided \cup {"scroll-speed", "display-mode"}

Needed ==
  [c \in CapabilityIds |->
     CASE c = "device-info" -> {"protocol.coolledux", "device-info.query"}
       [] c = "brightness" -> {"protocol.coolledux", "brightness.control"}
       [] c = "power" -> {"protocol.coolledux", "power.control"}
       [] c \in {"static-frame", "text"} -> {"stored-program.upload", "static.strategy"}
       [] c = "animation" -> {"stored-program.upload", "animation.frames",
                              "animation.timing", "animation.tile-sync"}
       [] c = "gif" -> {"stored-program.upload", "gif.playback"}
       [] OTHER -> {}]
\* The content paths an assessment asks the gates about.
ContentPath(c) ==
  CASE c = "static-frame" -> {"image"}
    [] c \in {"text", "animation", "gif"} -> {c}
    [] OTHER -> {}

Missing(c, pool) == {claim \in Needed[c] : ~Authorized(claim, pool)}
\* A driver that provides a capability for this model supports it, and none is destructive.
IsOffered(c, live, pool) ==
  /\ live /\ c \in DOMAIN Provided
  /\ \A p \in ContentPath(c) : Open(p, pool)
  /\ Missing(c, pool) = {}
\* confidenceFor
Confidence(c, pool) ==
  IF \E claim \in Needed[c] : Conflicted(claim, pool) THEN "conflicted"
  ELSE IF c \notin DOMAIN Provided THEN "unknown"
  ELSE IF Provided[c] = "verified" /\ Missing(c, pool) = {} THEN "verified"
  ELSE "experimental"

\* The operations in the order the driver describes them; a description adds no permission.
Operations ==
  <<"device-info", "brightness", "power", "static-frame", "animation", "text", "gif">>
Actions(live, pool) == {c \in DOMAIN Provided : IsOffered(c, live, pool)}
\* recommendedActionId: text, then a still image, then what is there
BestOf(offered) ==
  CASE "text" \in offered -> "text"
    [] "text" \notin offered /\ "static-frame" \in offered -> "static-frame"
    [] OTHER -> Append(Operations, "nothing")
                  [First({n \in DOMAIN Operations : Operations[n] \in offered}
                           \cup {Len(Operations) + 1})]
RecommendedAction(live, pool) == BestOf(Actions(live, pool))

\* _requestContentSend: the gate, then the word of the plan
SendAnswer(path, pool) ==
  IF ~Open(path, pool) THEN "refused" ELSE IF path = "gif" THEN "asks" ELSE "sent"
===============================================================================
