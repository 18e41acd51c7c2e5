------------------------------- MODULE MCDisplay -------------------------------
(***************************************************************************)
(* The machines between the program and one display that share no state    *)
(* with each other, side by side: a behaviour is one of part, the others   *)
(* rest.                                                                   *)
(***************************************************************************)
EXTENDS Identification, Diagnostics, LzssTree, Upload

VARIABLE part

vars == <<part, identificationVars, diagnosticsVars, lzssVars, uploadVars>>

\* Displays that are, and that only look like, the characterized one
D(name, manufacturer, shape, speaks) ==
  [name |-> name, manufacturer |-> manufacturer, shape |-> shape, speaks |-> speaks]
MCDisplays ==
  {D("iledhat", "31AE", "exact", "coolledux"),
   D("iledhat", "another", "exact", "coolledx"),
   D("iledhat", "none", "partial", "coolledux"),
   D("coolled", "none", "exact", "coolledux"),
   D("coolled", "none", "exact", "coolledx")}

\* Pixels at the steps of the transfer curve and of the CoolLEDX threshold
Off == <<0, 47, 0>>
Lit == <<255, 238, 237>>
Mid == <<48, 127, 128>>
FrameOf(cells) ==
  [at \in (0 .. Width - 1) \X (0 .. Height - 1) |-> cells[at[1] * Height + at[2] + 1]]
FirstFrame == FrameOf(<<Off, Lit, Mid, Off, Lit, Off>>)
SecondFrame == FrameOf(<<Lit, Lit, Off, Mid, Off, Mid>>)
MCContents ==
  {[type |-> "ShowFrame", width |-> 3, frames |-> <<FirstFrame>>],
   [type |-> "ShowFrame", width |-> 2, frames |-> <<SecondFrame>>],
   [type |-> "ShowAnimation", width |-> 3, frames |-> <<SecondFrame, FirstFrame>>],
   [type |-> "ShowDiagnostic", kind |-> "graffiti", width |-> 3, frames |-> <<FirstFrame>>],
   [type |-> "ShowGif", width |-> 2, frames |-> <<<<"g", "i", "f">>>>]}

Init ==
  /\ part \in {"identification", "diagnostics", "compressor", "upload"}
  /\ part = "compressor" \/ data = <<0>>
  /\ part = "upload" \/ device = [driver |-> "coolledux", black |-> "white-sentinel"]
  /\ part = "diagnostics" \/ brightness = CHOOSE level \in Levels : TRUE
  /\ IdentificationInit /\ DiagnosticsInit /\ LzssTreeInit /\ UploadInit
Next ==
  /\ UNCHANGED part
  /\ \/ /\ part = "identification" /\ IdentificationNext
        /\ UNCHANGED <<diagnosticsVars, lzssVars, uploadVars>>
     \/ /\ part = "diagnostics" /\ DiagnosticsNext
        /\ UNCHANGED <<identificationVars, lzssVars, uploadVars>>
     \/ /\ part = "compressor" /\ LzssTreeNext
        /\ UNCHANGED <<identificationVars, diagnosticsVars, uploadVars>>
     \/ /\ part = "upload" /\ UploadNext
        /\ UNCHANGED <<identificationVars, diagnosticsVars, lzssVars>>
Spec == Init /\ [][Next]_vars /\ DiagnosticsFairness
===============================================================================
