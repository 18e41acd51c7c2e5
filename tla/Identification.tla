----------------------------- MODULE Identification -----------------------------
(***************************************************************************)
(* Which display is connected: matching a fingerprint against the drivers  *)
(* and the characterized profile (src/src/drivers/registry.ts, drivers/    *)
(* coolled/common, profiles/known-profiles.ts), the read-only family probe *)
(* (application/services/transmission-service.ts), the confirmed geometry  *)
(* (diagnostics-service.ts), the readiness that decides what the interface *)
(* offers (domain/device/assessment.ts), and the content that is planned   *)
(* for the display and sent later.  Displays, links and the browser's      *)
(* advertisements come and go at any of the awaits.                        *)
(***************************************************************************)
EXTENDS Naturals, FiniteSets

CONSTANTS
  Displays,     \* each with its GATT shape, the maker it advertises, and what it speaks
  Geometries,   \* sizes a user may confirm, the characterized one among them
  Characterized,
  MaxLinks      \* bound on the connections

Names == {"iledhat", "coolled", "other"}
Manufacturers == {"none", "31AE", "another"}
\* FFF0 and FFF1: neither, the service only, FFF1 without its properties, the exact shape
Shapes == {"none", "service", "partial", "exact"}
ASSUME IdentificationAssumption ==
  /\ MaxLinks \in Nat /\ Characterized \in Geometries /\ "none" \notin Geometries
  /\ Displays \subseteq [name : Names, manufacturer : Manufacturers, shape : Shapes,
                         speaks : {"coolledux", "coolledx", "other"}]

VARIABLES
  link,         \* generation of the open connection, 0 for none
  links,        \* connections so far
  display,      \* the display it goes to
  fingerprint,  \* session.fingerprint
  selection,    \* session.selection
  profile,      \* session.profile
  resolution,   \* session.protocolResolution
  source,       \* session.source
  probe,        \* the probe in flight
  watched,      \* connections whose advertisement is still awaited
  planned,      \* content waiting for its confirmation
  confirmed,    \* (history) the size last confirmed on this connection
  sent          \* (history) the last content written
identificationVars == <<link, links, display, fingerprint, selection, profile, resolution,
                        source, probe, watched, planned, confirmed, sent>>

------------------------------------------------------------------------------
(* Matching.                                                               *)

Drivers == {"coolledux", "coolledx"}
NoDisplay == [name |-> "none", manufacturer |-> "none", shape |-> "none", speaks |-> "none"]
\* What enumerating the services of a display yields, or its log: name and services.  The
\* advertised services are empty and there is no manufacturerDataHex; what an advertisement
\* says later is kept apart, in observed.
Enumerated(d) ==
  [of |-> d, advertised |-> FALSE, manufacturer |-> "none", observed |-> "none", geometry |-> "none"]
NoFingerprint == Enumerated(NoDisplay)
Fingerprints == [of : Displays, advertised : BOOLEAN, manufacturer : Manufacturers,
                 observed : Manufacturers, geometry : Geometries \cup {"none"}]
                \cup {NoFingerprint}

\* matchCoolLedGatt: nothing of what was observed counts.
GattScore(f) ==
  LET name == f.of.name
      shape == f.of.shape
      raw == (CASE name = "iledhat" -> 15 [] name = "coolled" -> 5 [] OTHER -> 0)
             + (IF f.advertised THEN 10 ELSE 0)
             + (IF f.manufacturer = "31AE" THEN 25 ELSE 0)
             + (IF shape = "none" THEN 0 ELSE 15)
             + (IF shape \in {"partial", "exact"} THEN 15 ELSE 0)
             + (IF shape = "exact" THEN 25 ELSE 0)
      lost == IF shape = "partial" THEN 25 ELSE 0
  IN  IF raw < lost THEN 0 ELSE IF raw - lost > 100 THEN 100 ELSE raw - lost
GattConfidence(f) ==
  IF GattScore(f) >= 90 /\ f.of.shape # "partial" THEN "exact"
  ELSE IF GattScore(f) >= 70 /\ f.of.shape # "partial" THEN "strong"
  ELSE IF GattScore(f) >= 40 THEN "candidate"
  ELSE IF GattScore(f) > 0 THEN "weak"
  ELSE "none"

\* evaluateKnownProfile: the name and FFF1 are there; nothing the fingerprint carries disagrees.
Contradicted(f) ==
  \/ f.of.shape = "partial" \/ f.manufacturer = "another"
  \/ f.geometry \notin {"none", Characterized}
\* A mutant that lets the other evidence outvote a disagreement.
ContradictedBySize(f) == f.geometry \notin {"none", Characterized}
Recognized(f) ==
  f.of.name = "iledhat" /\ f.of.shape \in {"partial", "exact"} /\ ~Contradicted(f)

\* applyKnownProfileDisposition: the characterized profile rules CoolLEDX out.
Match(driver, f) ==
  IF ~Recognized(f) THEN [score |-> GattScore(f), confidence |-> GattConfidence(f)]
  ELSE IF driver = "coolledux" THEN [score |-> 100, confidence |-> "exact"]
  ELSE [score |-> 0, confidence |-> "none"]
NoMatch == [d \in Drivers |-> [score |-> 0, confidence |-> "none"]]
NoSelection == [selected |-> "none", ambiguous |-> FALSE, matches |-> NoMatch]

\* DriverRegistry.match and resolve
Selected(f) ==
  LET m == [d \in Drivers |-> Match(d, f)]
      tie == m["coolledux"].score = m["coolledx"].score /\ m["coolledux"].score > 0
      best == IF m["coolledux"].score > m["coolledx"].score THEN "coolledux" ELSE "coolledx"
  IN  [selected |-> IF ~tie /\ m[best].confidence \in {"strong", "exact"} THEN best ELSE "none",
       ambiguous |-> tie, matches |-> m]
Resolved(f) ==
  [selected |-> "coolledux", ambiguous |-> FALSE,
   matches |-> [d \in Drivers |-> IF d = "coolledux" THEN [score |-> 100, confidence |-> "exact"]
                                                     ELSE Match(d, f)]]

NoProfile == [kind |-> "none", geometry |-> "none"]
Profiles == {NoProfile, [kind |-> "known", geometry |-> Characterized]}
            \cup [kind : {"provisional"}, geometry : Geometries]
ResolveProfile(f) ==
  IF Recognized(f) THEN [kind |-> "known", geometry |-> Characterized] ELSE NoProfile

------------------------------------------------------------------------------
(* The target and what may be done with it.                                *)

TargetKind ==
  IF fingerprint = NoFingerprint THEN "none"
  ELSE IF selection.selected = "none" THEN "unresolved"
  ELSE CASE profile.kind = "provisional" -> "provisional"
         [] profile.kind = "known" -> "profile-resolved"
         [] profile.kind = "none" /\ resolution # "none" -> "protocol-identified"
         [] OTHER -> "unresolved"
CanPlan == TargetKind \in {"provisional", "profile-resolved"}
Live == source = "live" /\ link # 0
\* Device information is available wherever there is a profile.
Readiness ==
  CASE TargetKind = "none" -> "no-device"
    [] TargetKind # "none" /\ ~Live -> "offline"
    [] Live /\ TargetKind = "unresolved" -> "needs-identification"
    [] Live /\ TargetKind = "protocol-identified" /\ fingerprint.geometry = "none" -> "needs-geometry"
    [] Live /\ CanPlan -> "ready"
    [] OTHER -> "limited"
\* diagnosticTools: only CoolLEDUX has any.
ToolsAvailable ==
  fingerprint # NoFingerprint /\ source = "live" /\ Match("coolledux", fingerprint).score > 0
\* SafetyPolicy.authorize of a probe
MayProbe ==
  /\ Live /\ selection.matches["coolledux"].confidence \in {"candidate", "strong", "exact"}
  /\ fingerprint.of.shape = "exact"
\* A mutant that does not compare the profile of the plan.
MaySendAnyProfile(plan) ==
  /\ Live /\ ~selection.ambiguous /\ selection.selected = "coolledux"
\* SafetyPolicy.authorize of an operation
MaySend(plan) ==
  /\ Live /\ plan.link = link
  /\ ~selection.ambiguous /\ selection.selected = "coolledux"
  /\ plan.profile = profile
  /\ selection.matches["coolledux"].confidence \in {"strong", "exact"}

------------------------------------------------------------------------------
NoProbe == [pc |-> "idle", link |-> 0, profile |-> NoProfile]
NoPlan == [link |-> 0, profile |-> NoProfile]
NothingSent == [to |-> NoDisplay, profile |-> NoProfile, confirmed |-> "none"]

IdentificationTypeOK ==
  /\ links \in 0 .. MaxLinks /\ link \in {0, links} /\ display \in Displays \cup {NoDisplay}
  /\ fingerprint \in Fingerprints /\ profile \in Profiles
  /\ selection \in [selected : Drivers \cup {"none"}, ambiguous : BOOLEAN,
                    matches : [Drivers -> [score : 0 .. 100,
                      confidence : {"none", "weak", "candidate", "strong", "exact"}]]]
  /\ resolution \in {"none", "live-probe"} /\ source \in {"live", "imported"}
  /\ probe \in [pc : {"idle", "subscribing", "waiting"}, link : 0 .. MaxLinks, profile : Profiles]
  /\ watched \subseteq 1 .. MaxLinks
  /\ planned \in [link : 0 .. MaxLinks, profile : Profiles]
  /\ (profile # NoProfile => fingerprint # NoFingerprint)
  /\ (link = 0 <=> display = NoDisplay)

IdentificationInit ==
  /\ link = 0 /\ links = 0 /\ display = NoDisplay
  /\ fingerprint = NoFingerprint /\ selection = NoSelection /\ profile = NoProfile
  /\ resolution = "none" /\ source = "live"
  /\ probe = NoProbe /\ watched = {} /\ planned = NoPlan
  /\ confirmed = "none" /\ sent = NothingSent

ApplyFingerprint(f, from) ==
  /\ fingerprint' = f /\ source' = from
  /\ selection' = Selected(f) /\ profile' = ResolveProfile(f)
\* A mutant of clearConnection that forgets to forget the probe's result.
KeepResolution == UNCHANGED resolution
ClearResolution == resolution' = "none"

Connect(d) ==
  /\ link = 0 /\ links < MaxLinks
  /\ links' = links + 1 /\ link' = links' /\ display' = d
  /\ ClearResolution
  /\ ApplyFingerprint(Enumerated(d), "live")
  /\ watched' = watched \cup {links'}
  /\ confirmed' = "none"
  /\ UNCHANGED <<probe, planned, sent>>

\* disconnect() or a lost link: clearConnection, and the waiters are rejected.
LoseLink ==
  /\ link # 0 /\ link' = 0 /\ display' = NoDisplay
  /\ fingerprint' = NoFingerprint /\ selection' = NoSelection /\ profile' = NoProfile
  /\ ClearResolution
  /\ probe' = IF probe.pc = "waiting" THEN NoProbe ELSE probe
  /\ confirmed' = "none"
  /\ UNCHANGED <<links, source, watched, planned, sent>>

\* _enrichAdvertisementEvidence: the transport's fingerprint, which now has the observation,
\* replaces the session's if the connection is still the same.  It is not matched again.
AdvertisementArrives ==
  \E g \in watched :
    /\ watched' = watched \ {g}
    /\ fingerprint' = IF g = link /\ source = "live"
                      THEN [Enumerated(display) EXCEPT !.observed = display.manufacturer]
                      ELSE fingerprint
    /\ UNCHANGED <<link, links, display, selection, profile, resolution, source, probe, planned,
                   confirmed, sent>>

\* importExternalLog: a live session keeps its display.
ImportLog(d) ==
  /\ ~(source = "live" /\ fingerprint # NoFingerprint)
  /\ ClearResolution
  /\ ApplyFingerprint(Enumerated(d), "imported")
  /\ UNCHANGED <<link, links, display, probe, watched, planned, confirmed, sent>>

\* A capture without a recognizable display
ImportPackets ==
  /\ ~(source = "live" /\ fingerprint # NoFingerprint)
  /\ ClearResolution /\ source' = "imported"
  /\ fingerprint' = NoFingerprint /\ selection' = NoSelection /\ profile' = NoProfile
  /\ UNCHANGED <<link, links, display, probe, watched, planned, confirmed, sent>>

KeepSession == UNCHANGED <<link, links, display, fingerprint, source, watched, planned, confirmed, sent>>
KeepIdentity == UNCHANGED <<selection, profile, resolution>>
\* probe() up to its first await
BeginProbe ==
  /\ probe = NoProbe /\ ToolsAvailable /\ MayProbe
  /\ probe' = [pc |-> "subscribing", link |-> link, profile |-> ResolveProfile(fingerprint)]
  /\ KeepSession /\ KeepIdentity
\* enableDriverNotifications settles; execute() compares the target again.
ProbeSubscribed ==
  /\ probe.pc = "subscribing"
  /\ probe' = IF probe.link = link THEN [probe EXCEPT !.pc = "waiting"] ELSE NoProbe
  /\ KeepSession /\ KeepIdentity
ProbeFails ==
  /\ probe.pc # "idle" /\ probe' = NoProbe
  /\ KeepSession /\ KeepIdentity
\* A device-info response: _resolveProtocol with the profile read before the awaits
ProbeAnswered ==
  /\ probe.pc = "waiting" /\ display.speaks = "coolledux"
  /\ selection' = Resolved(fingerprint)
  /\ profile' = probe.profile
  /\ resolution' = "live-probe"
  /\ probe' = NoProbe
  /\ KeepSession

\* confirmProvisionalGeometry, which the interface offers when a size is needed
ConfirmGeometry(g) ==
  /\ Readiness = "needs-geometry"
  /\ fingerprint' = [fingerprint EXCEPT !.geometry = g]
  /\ profile' = [kind |-> "provisional", geometry |-> g]
  /\ confirmed' = g
  /\ UNCHANGED <<link, links, display, selection, resolution, source, probe, watched, planned, sent>>

PlanContent ==
  /\ planned = NoPlan /\ Live /\ CanPlan
  /\ planned' = [link |-> link, profile |-> profile]
  /\ UNCHANGED <<link, links, display, fingerprint, source, probe, watched, confirmed, sent>>
  /\ KeepIdentity
SendContent ==
  /\ planned # NoPlan /\ planned' = NoPlan
  /\ sent' = IF MaySend(planned)
             THEN [to |-> display, profile |-> planned.profile, confirmed |-> confirmed] ELSE sent
  /\ UNCHANGED <<link, links, display, fingerprint, source, probe, watched, confirmed>>
  /\ KeepIdentity

IdentificationNext ==
  \/ \E d \in Displays : Connect(d) \/ ImportLog(d)
  \/ ImportPackets \/ LoseLink \/ AdvertisementArrives
  \/ BeginProbe \/ ProbeSubscribed \/ ProbeFails \/ ProbeAnswered
  \/ \E g \in Geometries : ConfirmGeometry(g)
  \/ PlanContent \/ SendContent
IdentificationSpec == IdentificationInit /\ [][IdentificationNext]_identificationVars

------------------------------------------------------------------------------
\* Content is written only to a display of the size it was rendered for: one of the name and the
\* exact GATT shape of the characterized display, or the size confirmed on this very connection,
\* after this very display answered the probe (authorize compares the profile and the target of
\* the plan when it is sent; clearConnection and resolveProfile between displays).
ContentFitsTheDisplay ==
  sent # NothingSent =>
    CASE sent.profile.kind = "known" -> sent.to.name = "iledhat" /\ sent.to.shape = "exact"
      [] sent.profile.kind = "provisional" ->
           sent.to.speaks = "coolledux" /\ sent.profile.geometry = sent.confirmed
      [] OTHER -> FALSE

\* A protocol counts as identified only while the display that answered is connected, never for
\* one that merely looks like it or for an imported record (_resolveProtocol, clearConnection).
IdentifiedDisplaysAnswered ==
  resolution # "none" => link # 0 /\ source = "live" /\ display.speaks = "coolledux"

\* What a display is taken for was found out from this very display.
IdentityIsEarned == ContentFitsTheDisplay /\ IdentifiedDisplaysAnswered

\* "any EXPLICIT contradiction - a different geometry, a different manufacturer, the wrong
\* characteristic properties - withdraws recognition entirely" (known-profiles.ts:17-20): a display
\* whose advertisement names another maker does not count as the characterized one.
DisagreementsWithdrawRecognition == fingerprint.observed = "another" => profile.kind # "known"

\* "Display size confirmed as ... Bounded family tests are now available" (connection-store.ts):
\* once the size is confirmed, content can be planned until the connection ends.
ConfirmedSizeIsUsable == confirmed # "none" => CanPlan
==================================================================================
