------------------------------- MODULE Editor --------------------------------
(***************************************************************************)
(* The image of the content editor (content-editor-store.ts): files that   *)
(* are decoded, processed and shown while the user chooses other files and *)
(* other settings, and workspaces change underneath.  A GIF has one await  *)
(* and the same checks after it; it is left out.                           *)
(*                                                                         *)
(* A call is the awaits it goes through: the import of the image code, the *)
(* decoding of the source, and, for the "legacy" mode, a second decoding   *)
(* that fits the picture.  Its version and workspace are compared with the *)
(* latest ones after each await.  What is sent is what is shown            *)
(* (requestSendImage).                                                     *)
(***************************************************************************)
EXTENDS Naturals, FiniteSets

CONSTANTS
  Files,        \* image files
  Loads,        \* names for the calls under way
  MaxChoices    \* bound on what the user chooses
ASSUME EditorAssumption == MaxChoices \in Nat

VARIABLES
  choices,     \* choices so far
  wanted,      \* (history) the image file chosen last, in this workspace
  settings,    \* [mode, fit]
  source,      \* the decoded source and its file, None before the first
  image,       \* what the preview shows, None before the first
  version,     \* _imageVersion
  workspace,   \* the active workspace
  profile,     \* a display is identified
  job,         \* the calls
  spoilt       \* (history) since the last file was chosen, another choice overtook it, a call
               \* failed or the workspace changed
editorVars == <<choices, wanted, settings, source, image, version, workspace, profile, job, spoilt>>

------------------------------------------------------------------------------
None == "none"
Modes == {"legacy", "processed"}
Fits == {"contain", "cover"}
Settings == [mode : Modes, fit : Fits]
\* fit is what the second decoding of a legacy picture was asked for.
NoJob == [stage |-> "idle", kind |-> "load", file |-> None, version |-> 0, workspace |-> 0,
          fit |-> "contain"]
Jobs == [stage : {"idle", "importing", "decoding", "fitting"}, kind : {"load", "reprocess"},
         file : Files \cup {None}, version : 0 .. MaxChoices, workspace : 0 .. MaxChoices,
         fit : Fits]
Images == [file : Files, mode : Modes, fit : Fits]
NoImage == [file |-> None, mode |-> "legacy", fit |-> "contain"]

EditorTypeOK ==
  /\ choices \in 0 .. MaxChoices
  /\ wanted \in Files \cup {None} /\ source \in Files \cup {None}
  /\ settings \in Settings /\ image \in Images \cup {NoImage}
  /\ version \in 0 .. MaxChoices /\ workspace \in 0 .. MaxChoices
  /\ profile \in BOOLEAN /\ spoilt \in BOOLEAN
  /\ job \in [Loads -> Jobs]

EditorInit ==
  /\ choices = 0 /\ wanted = None
  /\ settings \in [mode : Modes, fit : {"contain"}]
  /\ source = None /\ image = NoImage
  /\ version = 0 /\ workspace = 0 /\ profile = TRUE
  /\ job = [c \in Loads |-> NoJob]
  /\ spoilt = FALSE

Running == {c \in Loads : job[c].stage # "idle"}
Choose == choices < MaxChoices /\ choices' = choices + 1
Set(c, value) == job' = [job EXCEPT ![c] = value]
End(c) == Set(c, NoJob)
KeepShown == UNCHANGED <<source, image>>

\* A mutant that forgets the version.
FreshWorkspace(c) == job[c].workspace = workspace
\* The check after each await
Fresh(c) == job[c].version = version /\ job[c].workspace = workspace

Loading(f, v) == [NoJob EXCEPT !.stage = "importing", !.file = f, !.version = v,
                               !.workspace = workspace]
\* loadImage up to the import
LoadImage(c, f) ==
  /\ Choose /\ job[c].stage = "idle"
  /\ version' = version + 1
  /\ Set(c, Loading(f, version'))
  /\ wanted' = f /\ spoilt' = FALSE
  /\ UNCHANGED <<settings, workspace, profile>> /\ KeepShown
\* setImageFit: the file is loaded again with the new fit.
SetFit(c, f) ==
  /\ Choose /\ job[c].stage = "idle" /\ f # settings.fit
  /\ settings' = [settings EXCEPT !.fit = f]
  /\ IF source # None
     THEN /\ version' = version + 1
          /\ Set(c, Loading(source, version'))
          /\ spoilt' = (spoilt \/ Running # {})
     ELSE /\ spoilt' = (spoilt \/ Running # {})
          /\ UNCHANGED <<version, job>>
  /\ UNCHANGED <<wanted, workspace, profile>> /\ KeepShown
\* setImageProcessing: the source there is, if any, is processed again.  (No view calls
\* resetContentSettings, which would not process it.)
SetMode(c, m) ==
  /\ Choose /\ job[c].stage = "idle" /\ m # settings.mode
  /\ settings' = [settings EXCEPT !.mode = m]
  /\ IF source # None
     THEN Set(c, [NoJob EXCEPT !.stage = "importing", !.kind = "reprocess"])
     ELSE UNCHANGED job
  /\ spoilt' = (spoilt \/ Running # {})
  /\ UNCHANGED <<wanted, version, workspace, profile>> /\ KeepShown

\* The processed picture is shown in the step that makes it; a legacy one is fitted first.
Show(c, f, fit) ==
  /\ source' = f
  /\ image' = [file |-> f, fit |-> fit,
               mode |-> IF job[c].stage = "fitting" THEN "legacy" ELSE settings.mode]
  /\ End(c)
Fit(c, f) == Set(c, [job[c] EXCEPT !.stage = "fitting", !.file = f, !.version = version',
                                   !.workspace = workspace, !.fit = settings.fit])
Imported(c) ==
  /\ job[c].stage = "importing"
  /\ CASE job[c].kind = "load" ->
            /\ UNCHANGED version /\ KeepShown
            /\ IF profile THEN Set(c, [job[c] EXCEPT !.stage = "decoding"]) /\ UNCHANGED spoilt
               ELSE End(c) /\ spoilt' = TRUE
       [] job[c].kind = "reprocess" /\ (~profile \/ source = None) ->
            End(c) /\ spoilt' = TRUE /\ UNCHANGED version /\ KeepShown
       [] job[c].kind = "reprocess" /\ profile /\ source # None ->
            /\ version' = version + 1
            /\ spoilt' = (spoilt \/ Running # {c})
            /\ IF settings.mode = "legacy"
               THEN Fit(c, source) /\ KeepShown
               ELSE Show(c, source, settings.fit)
  /\ UNCHANGED <<choices, wanted, settings, workspace, profile>>
Decoded(c) ==
  /\ job[c].stage = "decoding"
  /\ UNCHANGED <<choices, wanted, settings, version, workspace, profile, spoilt>>
  /\ IF ~Fresh(c) THEN End(c) /\ KeepShown
     ELSE IF settings.mode = "legacy"
          THEN Fit(c, job[c].file) /\ KeepShown
          ELSE Show(c, job[c].file, settings.fit)
Fitted(c) ==
  /\ job[c].stage = "fitting"
  /\ IF Fresh(c) THEN Show(c, job[c].file, job[c].fit) ELSE End(c) /\ KeepShown
  /\ UNCHANGED <<choices, wanted, settings, version, workspace, profile, spoilt>>
\* The file is too large, cannot be decoded, or the code cannot be loaded.
JobFails(c) ==
  /\ job[c].stage # "idle"
  /\ End(c) /\ spoilt' = TRUE
  /\ UNCHANGED <<choices, wanted, settings, source, image, version, workspace, profile>>

\* A bundle is opened, or the live display returned to: the store stays and shows what it did.
SwitchWorkspace ==
  /\ Choose
  /\ workspace' = workspace + 1 /\ profile' \in BOOLEAN
  /\ spoilt' = (spoilt \/ Running # {})
  /\ UNCHANGED <<wanted, settings, version, job>> /\ KeepShown
\* dispose
Dispose ==
  /\ Choose
  /\ version' = version + 1
  /\ source' = None /\ spoilt' = TRUE
  /\ UNCHANGED <<wanted, settings, image, workspace, profile, job>>

EditorNext ==
  \/ \E c \in Loads :
       \/ \E f \in Files : LoadImage(c, f)
       \/ \E f \in Fits : SetFit(c, f)
       \/ \E m \in Modes : SetMode(c, m)
       \/ Imported(c) \/ Decoded(c) \/ Fitted(c) \/ JobFails(c)
  \/ SwitchWorkspace \/ Dispose
EditorSpec == EditorInit /\ [][EditorNext]_editorVars

------------------------------------------------------------------------------
(* Properties.                                                             *)

\* When nothing is under way, the picture that would be sent is the file chosen last with the
\* settings shown beside it, unless a call failed or the user changed a setting while the file
\* was still being decoded (the version and workspace checks of loadImage and _reprocessImage).
ChosenImageIsShown ==
  Running = {} /\ ~spoilt /\ wanted # None =>
    image = [file |-> wanted, mode |-> settings.mode, fit |-> settings.fit]
==============================================================================
