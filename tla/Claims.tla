-------------------------------- MODULE Claims --------------------------------
(***************************************************************************)
(* What MatrixSmith may conclude from evidence, and what a conclusion      *)
(* authorizes: src/investigation/claim-foundation.ts and claims.ts (claims *)
(* and their resolution), static-viability.ts (the ways to show a still    *)
(* image), gating.ts (which content may be sent) and session-behavior.ts.  *)
(*                                                                         *)
(* A piece of evidence is a record [claim, status, scope, hold, shows, at]:*)
(* hold is the measured time an image stayed still, against the required   *)
(* fifteen seconds; shows is the outcome it names (details); at is its     *)
(* place in the investigation, 0 for what ships with the program.  A pool  *)
(* of evidence is a set of them, ordered by at.  Labels, summaries and     *)
(* provenance are left out.                                                *)
(***************************************************************************)
EXTENDS Naturals, Sequences

Statuses == {"rejected", "unresolved", "verified", "source-supported", "unknown"}
Scopes == {"current-session", "previous-local-session", "imported-external",
           "built-in-profile", "source-reference"}
Holds == {"none", "short", "enough"}

------------------------------------------------------------------------------
(* The claims, by the claim each of them depends on.                       *)
Transport == {"transport.bluetooth", "recovery.manual-reset"}
Identified == {"protocol.coolledux"}
Answering == {"device-info.query", "brightness.control", "power.control",
              "stored-program.upload"}
Uploading == {"stored-program.receipts", "raster.tiling", "graffiti.initial-render",
              "animation.frames", "pixel.channel-map", "static.strategy",
              "gif.playback", "power-cycle.persistence"}
Rendering == {"graffiti.playback-stability", "graffiti.black-semantics",
              "graffiti.color-mapping"}
Animating == {"animation.timing", "animation.tile-sync", "animation.autonomous-loop",
              "animation.black-semantics", "animation.static-single-frame",
              "animation.static-identical-pair"}
Mapped == {"pixel.encoder-correctness", "pixel.fourth-channel", "pixel.color-calibration"}
Showing == {"text.rendering", "image.rendering"}
ClaimIds == Transport \cup Identified \cup Answering \cup Uploading \cup Rendering
            \cup Animating \cup Mapped \cup Showing
            \cup {"raster.orientation", "pixel.white-channel"}

Prerequisites(c) ==
  CASE c \in Identified -> {"transport.bluetooth"}
    [] c \in Answering -> {"protocol.coolledux"}
    [] c \in Uploading -> {"stored-program.upload"}
    [] c \in Rendering -> {"graffiti.initial-render"}
    [] c \in Animating -> {"animation.frames"}
    [] c \in Mapped -> {"pixel.channel-map"}
    [] c \in Showing -> {"static.strategy"}
    [] c = "raster.orientation" -> {"raster.tiling"}
    [] c = "pixel.white-channel" -> {"pixel.fourth-channel"}
    [] OTHER -> {}

\* contributesTo names one claim only, static.strategy
Contributing == {"graffiti.playback-stability", "graffiti.black-semantics",
                 "animation.black-semantics", "animation.static-single-frame",
                 "animation.static-identical-pair", "pixel.channel-map",
                 "pixel.encoder-correctness"}

------------------------------------------------------------------------------
(* Resolution of one claim from its own evidence.                          *)
ScopePriority ==
  [s \in Scopes |-> CASE s = "current-session" -> 50
                      [] s = "previous-local-session" -> 40
                      [] s = "imported-external" -> 30
                      [] s = "built-in-profile" -> 20
                      [] s = "source-reference" -> 10]
\* A mutant in which a later yes papers over a contradiction.
OptimisticPriority ==
  [s \in Statuses |-> CASE s = "verified" -> 50
                        [] s = "rejected" -> 40
                        [] s = "unresolved" -> 30
                        [] s = "source-supported" -> 20
                        [] s = "unknown" -> 10]
StatusPriority ==
  [s \in Statuses |-> CASE s = "rejected" -> 50
                        [] s = "unresolved" -> 40
                        [] s = "verified" -> 30
                        [] s = "source-supported" -> 20
                        [] s = "unknown" -> 10]

About(c, pool) == {e \in pool : e.claim = c}
\* The order of the sorted entries; the sort is stable, so the older entry stays in front.
Outranks(e, f) ==
  \/ ScopePriority[e.scope] > ScopePriority[f.scope]
  \/ /\ ScopePriority[e.scope] = ScopePriority[f.scope]
     /\ \/ StatusPriority[e.status] > StatusPriority[f.status]
        \/ StatusPriority[e.status] = StatusPriority[f.status] /\ e.at <= f.at
Foremost(entries) == CHOOSE e \in entries : \A f \in entries : Outranks(e, f)
DecidedBy(c, pool) == Foremost(About(c, pool))
StatusOf(entries) == IF entries = {} THEN "unknown" ELSE Foremost(entries).status
Decided(c, pool) == StatusOf(About(c, pool))
\* A rejected prerequisite takes a verification back.  Whether a claim is rejected does not
\* depend on its own prerequisites, so the recursion of the code ends after one step.
Blocked(c, pool) == \E p \in Prerequisites(c) : Decided(p, pool) = "rejected"
TakenBack(status, blocked) == IF status = "verified" /\ blocked THEN "unresolved" ELSE status
AtomicStatus(c, pool) == TakenBack(Decided(c, pool), Blocked(c, pool))

------------------------------------------------------------------------------
(* Trust: only the shipped profile and this physical session authorize.    *)
TrustedScopes == {"current-session", "built-in-profile"}
\* A mutant that trusts the sessions of the past as well.
PastIsTrusted(pool) ==
  {e \in pool : e.scope \in TrustedScopes \cup {"previous-local-session"}}
Trusted(pool) == {e \in pool : e.scope \in TrustedScopes}
TrustBasis(c, pool) == DecidedBy(c, Trusted(pool))

\* historicalConflict
Disagrees(e, status) ==
  \/ status = "verified" /\ e.status \in {"rejected", "unresolved"}
  \/ status = "rejected" /\ e.status = "verified"
Conflicts(c, status, pool) ==
  \E e \in About(c, pool) \ Trusted(pool) : Disagrees(e, status)

------------------------------------------------------------------------------
(* The ways to show a still image, in the order they are preferred.        *)
Strategies == <<"graffiti", "animation-single-frame", "animation-identical-frames">>
NoStrategy == "none"
NoClaim == "none"

AnimationCommon ==
  <<"stored-program.upload", "animation.frames", "animation.tile-sync",
    "animation.black-semantics", "pixel.channel-map", "pixel.encoder-correctness">>
Requirements ==
  [s \in {Strategies[k] : k \in 1 .. 3} |->
     CASE s = "graffiti" ->
            <<"stored-program.upload", "raster.tiling", "raster.orientation",
              "graffiti.initial-render", "graffiti.playback-stability",
              "graffiti.black-semantics", "pixel.channel-map",
              "pixel.encoder-correctness">>
       [] s = "animation-single-frame" ->
            Append(AnimationCommon, "animation.static-single-frame")
       [] s = "animation-identical-frames" ->
            Append(AnimationCommon, "animation.static-identical-pair")]
RequiredBy(s) == {Requirements[s][k] : k \in DOMAIN Requirements[s]}
RequirementClaims == UNION {RequiredBy(s) : s \in DOMAIN Requirements}
HoldClaims == {"graffiti.playback-stability", "animation.static-single-frame",
               "animation.static-identical-pair"}

\* requirementState: a verification with a measured hold below the required one stays open,
\* one without any measured hold does not.
StateOf(status, tooShort) ==
  CASE status = "rejected" -> "failed"
    [] status = "verified" /\ ~tooShort -> "met"
    [] OTHER -> "open"
RequirementState(c, trusted) ==
  StateOf(AtomicStatus(c, trusted), c \in HoldClaims /\ DecidedBy(c, trusted).hold = "short")
RequirementStates(s, pool) ==
  LET trusted == Trusted(pool)
  IN  {RequirementState(c, trusted) : c \in RequiredBy(s)}
VerdictOn(states) ==
  IF "failed" \in states THEN "not-viable" ELSE IF "open" \in states THEN "open" ELSE "viable"
Verdict(s, pool) == VerdictOn(RequirementStates(s, pool))

\* The least of some places, 0 when there is none.
First(places) ==
  IF places = {} THEN 0 ELSE CHOOSE k \in places : \A j \in places : k <= j
Selected(pool) ==
  Append(Strategies, NoStrategy)
    [First({n \in 1 .. 3 : Verdict(Strategies[n], pool) = "viable"} \cup {4})]
\* The place of the strategy to pursue, 4 when there is none left.
Pursued(pool) ==
  First({n \in 1 .. 3 : Verdict(Strategies[n], pool) # "not-viable"} \cup {4})
NeededBy(place) == IF place = 4 THEN <<>> ELSE Requirements[Strategies[place]]
FirstOpen(needed, trusted) ==
  Append(needed, NoClaim)
    [First({n \in DOMAIN needed : RequirementState(needed[n], trusted) = "open"}
             \cup {Len(needed) + 1})]
NextOpenRequirement(pool) == FirstOpen(NeededBy(Pursued(pool)), Trusted(pool))

------------------------------------------------------------------------------
(* The claim derived from them, and what the two kinds of resolution say.  *)
StrategyStatus(pool) ==
  CASE Selected(pool) # NoStrategy -> "verified"
    [] Pursued(pool) = 4 -> "rejected"
    [] OTHER -> IF \E e \in pool : e.claim \in RequirementClaims THEN "unresolved"
                ELSE "unknown"
\* claimState: all the evidence; operationalTrust of claims.ts: the trusted part of it
ClaimStatus(c, pool) ==
  IF c = "static.strategy" THEN StrategyStatus(pool) ELSE AtomicStatus(c, pool)
OperationalStatus(c, pool) == ClaimStatus(c, Trusted(pool))
Authorized(c, pool) == OperationalStatus(c, pool) = "verified"
Conflicted(c, pool) == Conflicts(c, OperationalStatus(c, pool), pool)

(* Content gates.                                                          *)
Paths == {"text", "image", "animation", "gif"}
PathRequirements ==
  [p \in Paths |->
     CASE p \in {"text", "image"} -> {"stored-program.upload", "static.strategy"}
       [] p = "animation" -> {"stored-program.upload", "animation.frames",
                              "animation.timing", "animation.tile-sync"}
       [] p = "gif" -> {"stored-program.upload", "gif.playback"}]
Open(p, pool) == \A c \in PathRequirements[p] : Authorized(c, pool)
OpenPaths(pool) == {p \in Paths : Open(p, pool)}

\* resolveSessionBehavior: what this session saw a black pixel do
SessionBlack(pool) ==
  IF Authorized("graffiti.black-semantics", pool)
     /\ TrustBasis("graffiti.black-semantics", pool).scope = "current-session"
  THEN TrustBasis("graffiti.black-semantics", pool).shows ELSE "unseen"
===============================================================================
