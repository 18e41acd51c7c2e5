------------------------------ MODULE MCEvidence ------------------------------
(* Small instances of Characterization for TLC. *)
EXTENDS Characterization, TLC
\* The tests whose results bear on how a still image is shown.
StillImageTests == Tests \ {"color-white", "normal-image-smoke"}
\* The tests of the core plan.
PlanTests == {"graffiti-timing", "graffiti-staytime", "graffiti-black",
              "animation-static", "pixel-channels"}
==============================================================================
