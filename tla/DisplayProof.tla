----------------------------- MODULE DisplayProof -----------------------------
(***************************************************************************)
(* Proofs about Identification, Diagnostics and Upload: for any displays,  *)
(* sizes and connections, any levels and runs, and any content.            *)
(***************************************************************************)
EXTENDS Identification, Diagnostics, Upload, FiniteSetTheorems, SequenceTheorems,
        WellFoundedInduction, TLAPS

------------------------------------------------------------------------------
(* Matching.                                                               *)

Confidences == {"none", "weak", "candidate", "strong", "exact"}
MatchType == [score : 0 .. 100, confidence : Confidences]
SelectionType ==
  [selected : Drivers \cup {"none"}, ambiguous : BOOLEAN, matches : [Drivers -> MatchType]]

LEMMA ScoreType == \A f : GattScore(f) \in 0 .. 100
<1>. SUFFICES ASSUME NEW f PROVE GattScore(f) \in 0 .. 100
  OBVIOUS
<1>. DEFINE
  name == f.of.name
  shape == f.of.shape
  a == CASE name = "iledhat" -> 15 [] name = "coolled" -> 5 [] OTHER -> 0
  b == IF f.advertised THEN 10 ELSE 0
  c == IF f.manufacturer = "31AE" THEN 25 ELSE 0
  e == IF shape = "none" THEN 0 ELSE 15
  g == IF shape \in {"partial", "exact"} THEN 15 ELSE 0
  h == IF shape = "exact" THEN 25 ELSE 0
  lost == IF shape = "partial" THEN 25 ELSE 0
<1>1. /\ a \in Nat /\ b \in Nat /\ c \in Nat /\ e \in Nat /\ g \in Nat /\ h \in Nat
      /\ lost \in Nat
  OBVIOUS
<1>2. GattScore(f) =
        IF a + b + c + e + g + h < lost THEN 0
        ELSE IF a + b + c + e + g + h - lost > 100 THEN 100 ELSE a + b + c + e + g + h - lost
  BY DEF GattScore
<1>. HIDE DEF a, b, c, e, g, h, lost
<1>. QED
  BY <1>1, <1>2

LEMMA MatchesTyped == \A driver, f : Match(driver, f) \in MatchType
<1>1. \A f : GattConfidence(f) \in Confidences
  BY DEF GattConfidence, Confidences
<1>. QED
  BY <1>1, ScoreType DEF Match, MatchType, Confidences

LEMMA SelectedTyped ==
  \A f : Selected(f) \in SelectionType /\ Resolved(f) \in SelectionType
<1>. SUFFICES ASSUME NEW f PROVE Selected(f) \in SelectionType /\ Resolved(f) \in SelectionType
  OBVIOUS
<1>1. [score |-> 100, confidence |-> "exact"] \in MatchType
  BY DEF MatchType, Confidences
<1>2. Resolved(f) \in SelectionType
  <2>. DEFINE m == [d \in Drivers |-> IF d = "coolledux"
                                       THEN [score |-> 100, confidence |-> "exact"]
                                       ELSE Match(d, f)]
  <2>1. m \in [Drivers -> MatchType]
    BY <1>1, MatchesTyped
  <2>2. Resolved(f) = [selected |-> "coolledux", ambiguous |-> FALSE, matches |-> m]
    BY DEF Resolved
  <2>. HIDE DEF m
  <2>. QED
    BY <2>1, <2>2 DEF SelectionType, Drivers
<1>3. Selected(f) \in SelectionType
  <2>. DEFINE
    m == [d \in Drivers |-> Match(d, f)]
    tie == m["coolledux"].score = m["coolledx"].score /\ m["coolledux"].score > 0
    best == IF m["coolledux"].score > m["coolledx"].score THEN "coolledux" ELSE "coolledx"
    one == IF ~tie /\ m[best].confidence \in {"strong", "exact"} THEN best ELSE "none"
  <2>1. m \in [Drivers -> MatchType]
    BY MatchesTyped
  <2>2. one \in Drivers \cup {"none"} /\ tie \in BOOLEAN
    BY DEF Drivers
  <2>3. Selected(f) = [selected |-> one, ambiguous |-> tie, matches |-> m]
    BY DEF Selected
  <2>. HIDE DEF m, tie, one
  <2>. QED
    BY <2>1, <2>2, <2>3 DEF SelectionType
<1>. QED
  BY <1>2, <1>3

\* A display of the name and the GATT shape of the characterized one
LooksCharacterized(d) == d.name = "iledhat" /\ d.shape = "exact"
LEMMA ResolvedProfile ==
  \A f : \/ ResolveProfile(f) = NoProfile
         \/ /\ ResolveProfile(f) = [kind |-> "known", geometry |-> Characterized]
            /\ LooksCharacterized(f.of)
BY DEF ResolveProfile, Recognized, Contradicted, LooksCharacterized

LEMMA NoDisplayIsNone == NoDisplay \notin Displays /\ ResolveProfile(NoFingerprint) = NoProfile
BY IdentificationAssumption
DEF NoDisplay, NoFingerprint, Enumerated, ResolveProfile, Recognized, Names

\* What a display is enumerated as is about it, and is nothing only of no display.
LEMMA EnumeratedFacts ==
  ASSUME NEW d \in Displays
  PROVE  /\ Enumerated(d).of = d
         /\ \A m \in Manufacturers :
              LET f == [Enumerated(d) EXCEPT !.observed = m]
              IN  f.of = d /\ f \in Fingerprints /\ f # NoFingerprint
         /\ Enumerated(d) \in Fingerprints /\ Enumerated(d) # NoFingerprint
BY NoDisplayIsNone DEF Enumerated, Fingerprints, NoFingerprint, Manufacturers

------------------------------------------------------------------------------
(* Type correctness of the identification.                                 *)

\* Why a target is what it is
LEMMA TargetFacts ==
  /\ CanPlan => fingerprint # NoFingerprint /\ profile.kind \in {"known", "provisional"}
  /\ Readiness = "needs-geometry" => Live /\ resolution # "none" /\ fingerprint # NoFingerprint
<1>1. TargetKind \in {"provisional", "profile-resolved"} =>
        fingerprint # NoFingerprint /\ profile.kind \in {"known", "provisional"}
  BY DEF TargetKind
<1>2. TargetKind = "protocol-identified" => resolution # "none" /\ fingerprint # NoFingerprint
  BY DEF TargetKind
<1>3. Readiness = "needs-geometry" => Live /\ TargetKind = "protocol-identified"
  BY DEF Readiness
<1>. QED
  BY <1>1, <1>2, <1>3 DEF CanPlan

\* What the session holds while a link is open is about the display at its end.
Linked ==
  /\ link # 0 => source = "live" /\ fingerprint.of = display
  /\ source = "live" /\ link = 0 => fingerprint = NoFingerprint
  /\ probe.pc # "idle" => probe.link \in 1 .. links
  /\ probe.pc = "waiting" => link # 0 /\ probe.link = link
  /\ planned # NoPlan => planned.profile.kind \in {"known", "provisional"}

LEMMA IdentificationTypeStep ==
  ASSUME IdentificationTypeOK, Linked, [IdentificationNext]_identificationVars
  PROVE  IdentificationTypeOK'
<1>. DEFINE
  T1(k, n, d) == n \in 0 .. MaxLinks /\ k \in {0, n} /\ d \in Displays \cup {NoDisplay}
                 /\ (k = 0 <=> d = NoDisplay)
  T2(f, p) == f \in Fingerprints /\ p \in Profiles /\ (p # NoProfile => f # NoFingerprint)
  T3(r) == r \in [pc : {"idle", "subscribing", "waiting"}, link : 0 .. MaxLinks, profile : Profiles]
  T4(p) == p \in [link : 0 .. MaxLinks, profile : Profiles]
<1>0. /\ T1(link, links, display) /\ T2(fingerprint, profile) /\ T3(probe) /\ T4(planned)
      /\ selection \in SelectionType
      /\ resolution \in {"none", "live-probe"} /\ source \in {"live", "imported"}
      /\ watched \subseteq 1 .. MaxLinks /\ MaxLinks \in Nat
  BY IdentificationAssumption
  DEF IdentificationTypeOK, SelectionType, MatchType, Confidences
<1>1. ASSUME T1(link', links', display'), T2(fingerprint', profile'), T3(probe'), T4(planned'),
             selection' \in SelectionType,
             resolution' \in {"none", "live-probe"}, source' \in {"live", "imported"},
             watched' \subseteq 1 .. MaxLinks
      PROVE  IdentificationTypeOK'
  BY <1>1 DEF IdentificationTypeOK, SelectionType, MatchType, Confidences
<1>2. NoProfile \in Profiles /\ \A f : ResolveProfile(f) \in Profiles
  BY DEF Profiles, ResolveProfile
<1>3. T3(NoProbe) /\ T4(NoPlan)
  BY <1>0, <1>2 DEF NoProbe, NoPlan
<1>4. \A d \in Displays : Enumerated(d) \in Fingerprints
  BY EnumeratedFacts
<1>5. ASSUME NEW f \in Fingerprints, NEW from \in {"live", "imported"}, ApplyFingerprint(f, from)
      PROVE  /\ T2(fingerprint', profile') /\ selection' \in SelectionType
             /\ source' \in {"live", "imported"}
  BY <1>2, <1>5, SelectedTyped, NoDisplayIsNone DEF ApplyFingerprint
<1>6. ASSUME NEW d \in Displays, Connect(d)
      PROVE  IdentificationTypeOK'
  <2>1. Enumerated(d) \in Fingerprints /\ ApplyFingerprint(Enumerated(d), "live")
    BY <1>4, <1>6 DEF Connect
  <2>2. /\ T2(fingerprint', profile') /\ selection' \in SelectionType
        /\ source' \in {"live", "imported"}
    BY <1>5, <2>1
  <2>3. T1(link', links', display') /\ watched' \subseteq 1 .. MaxLinks
    BY <1>0, <1>6, NoDisplayIsNone DEF Connect
  <2>. QED
    BY <1>0, <1>1, <1>6, <2>2, <2>3 DEF Connect, ClearResolution
<1>7. CASE LoseLink
  <2>1. T1(link', links', display') /\ T3(probe')
    BY <1>0, <1>3, <1>7 DEF LoseLink
  <2>2. T2(fingerprint', profile')
    BY <1>2, <1>7 DEF LoseLink, Fingerprints
  <2>3. selection' \in SelectionType
    BY <1>7 DEF LoseLink, NoSelection, SelectionType, NoMatch, MatchType, Confidences
  <2>. QED
    BY <1>0, <1>1, <1>7, <2>1, <2>2, <2>3 DEF LoseLink, ClearResolution
<1>8. CASE AdvertisementArrives
  <2>1. PICK g \in watched :
          /\ watched' = watched \ {g}
          /\ fingerprint' = IF g = link /\ source = "live"
                            THEN [Enumerated(display) EXCEPT !.observed = display.manufacturer]
                            ELSE fingerprint
          /\ UNCHANGED <<link, links, display, selection, profile, resolution, source, probe,
                         planned, confirmed, sent>>
    BY <1>8 DEF AdvertisementArrives
  <2>2. g = link => display \in Displays /\ display.manufacturer \in Manufacturers
    BY <1>0, IdentificationAssumption
  <2>3. T2(fingerprint', profile')
    BY <1>0, <2>1, <2>2, EnumeratedFacts
  <2>. QED
    BY <1>0, <1>1, <2>1, <2>3
<1>9. ASSUME NEW d \in Displays, ImportLog(d)
      PROVE  IdentificationTypeOK'
  <2>1. Enumerated(d) \in Fingerprints /\ ApplyFingerprint(Enumerated(d), "imported")
    BY <1>4, <1>9 DEF ImportLog
  <2>2. /\ T2(fingerprint', profile') /\ selection' \in SelectionType
        /\ source' \in {"live", "imported"}
    BY <1>5, <2>1
  <2>. QED
    BY <1>0, <1>1, <1>9, <2>2 DEF ImportLog, ClearResolution
<1>10. CASE ImportPackets
  <2>1. T2(fingerprint', profile')
    BY <1>2, <1>10 DEF ImportPackets, Fingerprints
  <2>2. selection' \in SelectionType
    BY <1>10 DEF ImportPackets, NoSelection, SelectionType, NoMatch, MatchType, Confidences
  <2>. QED
    BY <1>0, <1>1, <1>10, <2>1, <2>2 DEF ImportPackets, ClearResolution
<1>11. CASE BeginProbe \/ ProbeSubscribed \/ ProbeFails
  <2>1. T3(probe')
    <3>1. CASE BeginProbe
      BY <1>0, <1>2, <3>1 DEF BeginProbe
    <3>2. CASE ProbeSubscribed
      BY <1>0, <1>3, <3>2 DEF ProbeSubscribed
    <3>3. CASE ProbeFails
      BY <1>3, <3>3 DEF ProbeFails
    <3>. QED
      BY <1>11, <3>1, <3>2, <3>3
  <2>2. UNCHANGED <<link, links, display, fingerprint, source, watched, planned, confirmed, sent,
                    selection, profile, resolution>>
    BY <1>11 DEF BeginProbe, ProbeSubscribed, ProbeFails, KeepSession, KeepIdentity
  <2>. QED
    BY <1>0, <1>1, <2>1, <2>2
<1>12. CASE ProbeAnswered
  <2>1. display.speaks = "coolledux" /\ UNCHANGED <<link, links, display, fingerprint, source,
                                                     watched, planned, confirmed, sent>>
    BY <1>12 DEF ProbeAnswered, KeepSession
  <2>2. link # 0
    BY <1>12 DEF ProbeAnswered, Linked
  <2>3. fingerprint # NoFingerprint
    BY <1>0, <2>2, NoDisplayIsNone DEF Linked, NoFingerprint, Enumerated
  <2>4. T2(fingerprint', profile') /\ T3(probe')
    BY <1>0, <1>3, <1>12, <2>1, <2>3 DEF ProbeAnswered
  <2>. QED
    BY <1>0, <1>1, <1>12, <2>1, <2>4, SelectedTyped DEF ProbeAnswered
<1>13. ASSUME NEW g \in Geometries, ConfirmGeometry(g)
       PROVE  IdentificationTypeOK'
  <2>1. fingerprint # NoFingerprint
    BY <1>13, TargetFacts DEF ConfirmGeometry
  <2>2. T2(fingerprint', profile')
    <3>1. [kind |-> "provisional", geometry |-> g] \in Profiles
      BY DEF Profiles
    <3>2. /\ fingerprint' = [fingerprint EXCEPT !.geometry = g] /\ fingerprint.of \in Displays
          /\ fingerprint' \in Fingerprints /\ fingerprint'.of = fingerprint.of
      BY <1>0, <1>13, <2>1 DEF ConfirmGeometry, Fingerprints
    <3>3. fingerprint' \in Fingerprints \ {NoFingerprint}
      BY <3>2, NoDisplayIsNone DEF NoFingerprint, Enumerated
    <3>. QED
      BY <1>13, <3>1, <3>3 DEF ConfirmGeometry
  <2>. QED
    BY <1>0, <1>1, <1>13, <2>2 DEF ConfirmGeometry
<1>14. CASE PlanContent
  <2>1. T4(planned')
    BY <1>0, <1>14 DEF PlanContent
  <2>. QED
    BY <1>0, <1>1, <1>14, <2>1 DEF PlanContent, KeepIdentity
<1>15. CASE SendContent
  BY <1>0, <1>1, <1>3, <1>15 DEF SendContent, KeepIdentity
<1>16. CASE UNCHANGED identificationVars
  BY <1>0, <1>1, <1>16 DEF identificationVars
<1>. QED
  BY <1>6, <1>7, <1>8, <1>9, <1>10, <1>11, <1>12, <1>13, <1>14, <1>15, <1>16
  DEF IdentificationNext

LEMMA LinkedStep ==
  ASSUME IdentificationTypeOK, Linked, [IdentificationNext]_identificationVars
  PROVE  Linked'
<1>0. /\ links \in Nat /\ link \in {0, links}
      /\ probe.pc \in {"idle", "subscribing", "waiting"}
      /\ link # 0 => display \in Displays /\ fingerprint # NoFingerprint
  <2>1. links \in 0 .. MaxLinks /\ MaxLinks \in Nat /\ link \in {0, links}
    BY IdentificationAssumption DEF IdentificationTypeOK
  <2>2. /\ probe.pc \in {"idle", "subscribing", "waiting"}
        /\ link # 0 => display \in Displays
    BY DEF IdentificationTypeOK
  <2>3. link # 0 => fingerprint # NoFingerprint
    BY <2>2, NoDisplayIsNone DEF Linked, NoFingerprint, Enumerated
  <2>. QED
    BY <2>1, <2>2, <2>3
<1>1. ASSUME NEW d \in Displays, Connect(d)
      PROVE  Linked'
  <2>1. /\ link = 0 /\ links' = links + 1 /\ link' = links + 1 /\ display' = d
        /\ fingerprint'.of = d /\ source' = "live"
        /\ UNCHANGED <<probe, planned>>
    BY <1>1, EnumeratedFacts DEF Connect, ApplyFingerprint
  <2>2. probe.pc # "waiting" /\ link' # 0
    BY <1>0, <2>1 DEF Linked
  <2>3. probe.pc # "idle" => probe.link \in 1 .. links + 1
    BY <1>0 DEF Linked
  <2>. QED
    BY <2>1, <2>2, <2>3 DEF Linked
<1>2. CASE LoseLink
  BY <1>0, <1>2 DEF LoseLink, Linked, NoProbe
<1>3. CASE AdvertisementArrives
  <2>1. /\ UNCHANGED <<link, links, display, source, probe, planned>>
        /\ \/ UNCHANGED fingerprint
           \/ link \in watched /\ fingerprint'.of = display
    BY <1>3 DEF AdvertisementArrives, Enumerated
  <2>2. 0 \notin watched
    BY IdentificationAssumption DEF IdentificationTypeOK
  <2>. QED
    BY <2>1, <2>2 DEF Linked
<1>4. CASE ImportPackets \/ \E d \in Displays : ImportLog(d)
  <2>1. /\ ~(source = "live" /\ fingerprint # NoFingerprint) /\ source' = "imported"
        /\ UNCHANGED <<link, links, display, probe, planned>>
    BY <1>4 DEF ImportPackets, ImportLog, ApplyFingerprint
  <2>2. link = 0
    BY <1>0, <2>1 DEF Linked
  <2>. QED
    BY <2>1, <2>2 DEF Linked
<1>5. CASE BeginProbe
  <2>1. /\ Live
        /\ probe' = [pc |-> "subscribing", link |-> link,
                     profile |-> ResolveProfile(fingerprint)]
        /\ UNCHANGED <<link, links, display, fingerprint, source, planned>>
    BY <1>5 DEF BeginProbe, MayProbe, KeepSession
  <2>2. link \in 1 .. links
    BY <1>0, <2>1 DEF Live
  <2>. QED
    BY <2>1, <2>2 DEF Linked
<1>6. CASE ProbeSubscribed
  <2>1. /\ probe.pc = "subscribing"
        /\ probe' = IF probe.link = link THEN [probe EXCEPT !.pc = "waiting"] ELSE NoProbe
        /\ UNCHANGED <<link, links, display, fingerprint, source, planned>>
    BY <1>6 DEF ProbeSubscribed, KeepSession
  <2>2. probe' = NoProbe \/ (probe'.pc = "waiting" /\ probe'.link = link /\ probe.link = link)
    BY <2>1 DEF IdentificationTypeOK
  <2>3. probe.link \in 1 .. links
    BY <2>1 DEF Linked
  <2>. QED
    BY <1>0, <2>1, <2>2, <2>3 DEF Linked, NoProbe
<1>7. CASE ProbeFails \/ ProbeAnswered
  <2>1. probe' = NoProbe /\ UNCHANGED <<link, links, display, fingerprint, source, planned>>
    BY <1>7 DEF ProbeFails, ProbeAnswered, KeepSession
  <2>. QED
    BY <2>1 DEF Linked, NoProbe
<1>8. ASSUME NEW g \in Geometries, ConfirmGeometry(g)
      PROVE  Linked'
  <2>1. /\ fingerprint # NoFingerprint /\ Live
        /\ fingerprint' = [fingerprint EXCEPT !.geometry = g]
        /\ UNCHANGED <<link, links, display, source, probe, planned>>
    BY <1>8, TargetFacts DEF ConfirmGeometry
  <2>2. fingerprint'.of = fingerprint.of
    BY <2>1 DEF IdentificationTypeOK, Fingerprints, NoFingerprint, Enumerated
  <2>. QED
    BY <2>1, <2>2 DEF Linked, Live
<1>9. CASE PlanContent
  <2>1. profile.kind \in {"known", "provisional"}
    BY <1>9, TargetFacts DEF PlanContent
  <2>2. /\ planned' = [link |-> link, profile |-> profile]
        /\ UNCHANGED <<link, links, display, fingerprint, source, probe>>
    BY <1>9 DEF PlanContent
  <2>. QED
    BY <2>1, <2>2 DEF Linked
<1>10. CASE SendContent
  BY <1>10 DEF SendContent, Linked
<1>11. CASE UNCHANGED identificationVars
  BY <1>11 DEF identificationVars, Linked
<1>. QED
  BY <1>1, <1>2, <1>3, <1>4, <1>5, <1>6, <1>7, <1>8, <1>9, <1>10, <1>11 DEF IdentificationNext

LEMMA LinkedStart == IdentificationInit => IdentificationTypeOK /\ Linked
<1>. SUFFICES ASSUME IdentificationInit PROVE IdentificationTypeOK /\ Linked
  OBVIOUS
<1>1. NoSelection \in SelectionType
  BY DEF NoSelection, SelectionType, NoMatch, MatchType, Confidences
<1>2. 0 \in 0 .. MaxLinks /\ NoProfile \in Profiles /\ NoFingerprint \in Fingerprints
  BY IdentificationAssumption DEF Profiles, Fingerprints
<1>3. IdentificationTypeOK
  BY <1>1, <1>2
  DEF IdentificationInit, IdentificationTypeOK, SelectionType, MatchType, Confidences,
      NoProbe, NoPlan
<1>. QED
  BY <1>3 DEF IdentificationInit, Linked, NoProbe

\* Every variable of the identification keeps to its states, and what the session holds while a
\* link is open is about the display at its end (transmission-service.ts, session-state.ts).
THEOREM IdentificationTypeCorrect == IdentificationSpec => [](IdentificationTypeOK /\ Linked)
<1>1. ASSUME IdentificationTypeOK /\ Linked, [IdentificationNext]_identificationVars
      PROVE  (IdentificationTypeOK /\ Linked)'
  BY <1>1, IdentificationTypeStep, LinkedStep
<1>. QED
  BY <1>1, LinkedStart, PTL DEF IdentificationSpec

------------------------------------------------------------------------------
(* What a display is taken for.                                            *)

\* The profile in use and the one a probe under way will bring back are of the display connected.
ProfileFits(p, d, size) ==
  \/ p.kind = "none"
  \/ p.kind = "known" /\ LooksCharacterized(d)
  \/ p.kind = "provisional" /\ d.speaks = "coolledux" /\ p.geometry = size
Earned ==
  /\ link # 0 => ProfileFits(profile, display, confirmed)
  /\ probe.pc # "idle" /\ probe.link = link =>
       probe.profile.kind # "provisional" /\ ProfileFits(probe.profile, display, confirmed)
  /\ IdentifiedDisplaysAnswered
  /\ ContentFitsTheDisplay
EarnedInv == IdentificationTypeOK /\ Linked /\ Earned

\* What was found out about the display is a characterized profile or nothing.
LEMMA ResolvedFits ==
  \A f, size : /\ ResolveProfile(f).kind # "provisional"
               /\ ProfileFits(ResolveProfile(f), f.of, size)
BY ResolvedProfile DEF ProfileFits, NoProfile

\* A profile that was not confirmed fits whatever size is confirmed.
LEMMA UnconfirmedFits ==
  \A p, d, a, b : p.kind # "provisional" /\ ProfileFits(p, d, a) => ProfileFits(p, d, b)
BY DEF ProfileFits

LEMMA EarnedStep ==
  ASSUME EarnedInv, [IdentificationNext]_identificationVars
  PROVE  Earned'
<1>0. /\ IdentificationTypeOK /\ Linked /\ Earned
      /\ links \in Nat /\ link \in {0, links}
      /\ probe.pc # "idle" => probe.link \in 1 .. links
      /\ link # 0 => fingerprint # NoFingerprint
  <2>1. links \in 0 .. MaxLinks /\ MaxLinks \in Nat /\ link \in {0, links}
    BY IdentificationAssumption DEF EarnedInv, IdentificationTypeOK
  <2>2. link # 0 => fingerprint # NoFingerprint
    BY NoDisplayIsNone DEF EarnedInv, IdentificationTypeOK, Linked, NoFingerprint, Enumerated
  <2>. QED
    BY <2>1, <2>2 DEF EarnedInv, Linked
<1>1. UNCHANGED sent => ContentFitsTheDisplay'
  BY <1>0 DEF Earned, ContentFitsTheDisplay
<1>2. ASSUME UNCHANGED <<link, display, profile, probe, confirmed, resolution, source, sent>>
      PROVE  Earned'
  BY <1>0, <1>1, <1>2 DEF Earned, IdentifiedDisplaysAnswered
<1>3. ASSUME NEW d \in Displays, Connect(d)
      PROVE  Earned'
  <2>. DEFINE f == Enumerated(d)
  <2>1. /\ link' = links + 1 /\ display' = d /\ profile' = ResolveProfile(f)
        /\ resolution' = "none" /\ confirmed' = "none" /\ UNCHANGED <<probe, sent>>
    BY <1>3 DEF Connect, ApplyFingerprint, ClearResolution
  <2>2. ProfileFits(profile', display', confirmed')
    <3>1. f.of = d
      BY EnumeratedFacts
    <3>. HIDE DEF f
    <3>2. ProfileFits(ResolveProfile(f), f.of, "none")
      BY ResolvedFits
    <3>. QED
      BY <2>1, <3>1, <3>2
  <2>3. probe.pc # "idle" => probe.link # links + 1
    BY <1>0
  <2>. QED
    BY <1>1, <2>1, <2>2, <2>3 DEF Earned, IdentifiedDisplaysAnswered
<1>4. CASE LoseLink
  <2>1. /\ link' = 0 /\ resolution' = "none" /\ UNCHANGED sent
        /\ probe' = IF probe.pc = "waiting" THEN NoProbe ELSE probe
    BY <1>4 DEF LoseLink, ClearResolution
  <2>2. probe'.pc # "idle" => probe'.link # 0
    BY <1>0, <2>1 DEF NoProbe
  <2>. QED
    BY <1>1, <2>1, <2>2 DEF Earned, IdentifiedDisplaysAnswered
<1>5. CASE AdvertisementArrives
  BY <1>2, <1>5 DEF AdvertisementArrives
<1>6. CASE ImportPackets \/ \E d \in Displays : ImportLog(d)
  <2>1. /\ ~(source = "live" /\ fingerprint # NoFingerprint) /\ resolution' = "none"
        /\ UNCHANGED <<link, probe, sent>>
    BY <1>6 DEF ImportPackets, ImportLog, ClearResolution
  <2>2. link = 0
    BY <1>0, <2>1 DEF Linked
  <2>. QED
    BY <1>0, <1>1, <2>1, <2>2 DEF Earned, IdentifiedDisplaysAnswered
<1>7. CASE BeginProbe
  <2>1. /\ Live /\ probe' = [pc |-> "subscribing", link |-> link,
                             profile |-> ResolveProfile(fingerprint)]
        /\ UNCHANGED <<link, display, profile, confirmed, resolution, source, sent>>
    BY <1>7 DEF BeginProbe, MayProbe, KeepSession, KeepIdentity
  <2>2. fingerprint.of = display
    BY <1>0, <2>1 DEF Linked, Live
  <2>3. /\ ResolveProfile(fingerprint).kind # "provisional"
        /\ ProfileFits(ResolveProfile(fingerprint), display, confirmed)
    BY <2>2, ResolvedFits
  <2>4. probe'.profile = ResolveProfile(fingerprint)
    BY <2>1
  <2>. QED
    BY <1>0, <1>1, <2>1, <2>3, <2>4 DEF Earned, IdentifiedDisplaysAnswered
<1>8. CASE ProbeSubscribed \/ ProbeFails
  <2>1. UNCHANGED <<link, display, profile, confirmed, resolution, source, sent>>
    BY <1>8 DEF ProbeSubscribed, ProbeFails, KeepSession, KeepIdentity
  <2>2. probe' = NoProbe \/ (/\ probe'.profile = probe.profile /\ probe'.link = probe.link
                             /\ probe.pc # "idle")
    BY <1>0, <1>8 DEF ProbeSubscribed, ProbeFails, IdentificationTypeOK
  <2>. QED
    BY <1>0, <1>1, <2>1, <2>2 DEF Earned, IdentifiedDisplaysAnswered, NoProbe
<1>9. CASE ProbeAnswered
  <2>1. /\ probe.pc = "waiting" /\ display.speaks = "coolledux" /\ profile' = probe.profile
        /\ probe' = NoProbe /\ UNCHANGED <<link, display, confirmed, source, sent>>
    BY <1>9 DEF ProbeAnswered, KeepSession
  <2>2. link # 0 /\ probe.link = link /\ source = "live"
    BY <1>0, <2>1 DEF Linked
  <2>3. ProfileFits(profile', display', confirmed')
    BY <1>0, <2>1, <2>2 DEF Earned
  <2>. QED
    BY <1>1, <2>1, <2>2, <2>3 DEF Earned, IdentifiedDisplaysAnswered, NoProbe
<1>10. ASSUME NEW g \in Geometries, ConfirmGeometry(g)
       PROVE  Earned'
  <2>1. /\ resolution # "none" /\ profile' = [kind |-> "provisional", geometry |-> g]
        /\ confirmed' = g /\ UNCHANGED <<link, display, probe, resolution, source, sent>>
    BY <1>10, TargetFacts DEF ConfirmGeometry
  <2>2. display.speaks = "coolledux"
    BY <1>0, <2>1 DEF Earned, IdentifiedDisplaysAnswered
  <2>3. ProfileFits(profile', display', confirmed')
    BY <2>1, <2>2 DEF ProfileFits
  <2>4. probe.pc # "idle" /\ probe.link = link =>
          probe.profile.kind # "provisional" /\ ProfileFits(probe.profile, display, g)
    BY <1>0, UnconfirmedFits DEF Earned
  <2>. QED
    BY <1>0, <1>1, <2>1, <2>3, <2>4 DEF Earned, IdentifiedDisplaysAnswered
<1>11. CASE PlanContent
  BY <1>2, <1>11 DEF PlanContent, KeepIdentity
<1>12. CASE SendContent
  <2>1. UNCHANGED <<link, display, profile, probe, confirmed, resolution, source>>
    BY <1>12 DEF SendContent, KeepIdentity
  <2>2. ContentFitsTheDisplay'
    <3>1. CASE ~MaySend(planned)
      <4>1. UNCHANGED sent
        BY <1>12, <3>1 DEF SendContent
      <4>. QED
        BY <1>1, <4>1
    <3>2. CASE MaySend(planned)
      <4>1. /\ planned # NoPlan /\ link # 0 /\ planned.profile = profile
            /\ sent' = [to |-> display, profile |-> planned.profile, confirmed |-> confirmed]
        BY <1>12, <3>2 DEF SendContent, MaySend, Live
      <4>2. profile.kind \in {"known", "provisional"} /\ ProfileFits(profile, display, confirmed)
        BY <1>0, <4>1 DEF Linked, Earned
      <4>3. /\ sent'.to = display /\ sent'.profile = profile /\ sent'.confirmed = confirmed
        BY <4>1
      <4>. QED
        BY <4>2, <4>3 DEF ContentFitsTheDisplay, ProfileFits, LooksCharacterized
    <3>. QED
      BY <3>1, <3>2
  <2>. QED
    BY <1>0, <2>1, <2>2 DEF Earned, IdentifiedDisplaysAnswered
<1>13. CASE UNCHANGED identificationVars
  BY <1>2, <1>13 DEF identificationVars
<1>. QED
  BY <1>3, <1>4, <1>5, <1>6, <1>7, <1>8, <1>9, <1>10, <1>11, <1>12, <1>13
  DEF IdentificationNext

\* What a display is taken for was found out from this very display, for any displays, sizes and
\* connections: content goes only to a display of the characterized name and shape, or to one that
\* answered the probe and whose size was confirmed on this connection, and a protocol counts as identified only
\* while the display that answered is connected (SafetyPolicy.authorize, _resolveProtocol,
\* clearConnection and confirmProvisionalGeometry, at every interleaving of their awaits).
THEOREM IdentityIsAlwaysEarned == IdentificationSpec => []IdentityIsEarned
<1>1. IdentificationInit => EarnedInv
  BY LinkedStart
  DEF EarnedInv, Earned, IdentificationInit, NoProbe, IdentifiedDisplaysAnswered,
      ContentFitsTheDisplay
<1>2. ASSUME EarnedInv, [IdentificationNext]_identificationVars
      PROVE  EarnedInv'
  BY <1>2, IdentificationTypeStep, LinkedStep, EarnedStep DEF EarnedInv
<1>3. EarnedInv => IdentityIsEarned
  BY DEF EarnedInv, Earned, IdentityIsEarned
<1>. QED
  BY <1>1, <1>2, <1>3, PTL DEF IdentificationSpec

------------------------------------------------------------------------------
(* Diagnostics: what is known of a run while it waits.                     *)

LaterSteps == {"set-test", "verify-test", "restore", "verify-restore"}
Phases == Steps \cup {"idle", "enabling refresh", "enabling baseline"}
Baselines == AllLevels \cup {None}
Statuses == {"passed", "failed", "restore-failed"}
CallType == [by : {"none", "run", "user"}, kind : {"none", "device-info", "command-echo"}]
RunType == [pc : Phases, baseline : Baselines, failed : BOOLEAN, link : 0 .. MaxConnections]
OutcomeType == [status : Statuses \cup {"none"}, baseline : Baselines, left : Baselines]

\* Only a run that has read the brightness sets, verifies or restores anything.
BaselineKnown == run.pc \in LaterSteps => run.baseline \in AllLevels
DiagnosticsTyped == DiagnosticsTypeOK /\ BaselineKnown

\* After a response or a time-out a run goes on with the next command, or stops.
Goes ==
  \E step \in Steps, b \in Baselines, failed \in BOOLEAN :
    (step \in LaterSteps => b \in AllLevels) /\ Written(step, b, failed)
HonestStatus(status, b, level) ==
  status \in {"passed", "failed"} => b = None \/ (run.pc = "verify-restore" /\ level = b)
StopsWith(step, status, b, level) ==
  /\ step \in LaterSteps => b \in AllLevels
  /\ HonestStatus(status, b, level)
  /\ Concluded(status, b) /\ (Refused \/ TimedOut(step, b))
Stops(level) ==
  \E step \in Steps, status \in Statuses, b \in Baselines : StopsWith(step, status, b, level)

LEMMA LevelFacts ==
  /\ None \notin AllLevels /\ AllLevels \subseteq Baselines /\ None \in Baselines
  /\ \A b : chooseTestBrightness(b) \in AllLevels
BY DiagnosticsAssumption DEF None, AllLevels, Baselines, chooseTestBrightness

LEMMA CommandTyped ==
  ASSUME NEW step \in Steps, NEW b \in Baselines, step \in LaterSteps => b \in AllLevels
  PROVE  CommandOf(step, b) \in Commands
<1>1. CASE step = "set-test"
  BY <1>1, LevelFacts DEF CommandOf, Commands
<1>2. CASE step = "restore"
  BY <1>2 DEF CommandOf, Commands, LaterSteps
<1>3. CASE step # "set-test" /\ step # "restore"
  <2>1. CommandOf(step, b) = [kind |-> "query", level |-> None]
    BY <1>3 DEF CommandOf
  <2>. QED
    BY <2>1 DEF Commands
<1>. QED
  BY <1>1, <1>2, <1>3

LEMMA Stopping ==
  ASSUME NEW step \in Steps, NEW status \in Statuses, NEW b \in Baselines, NEW level,
         StopsWith(step, status, b, level)
  PROVE  Stops(level)
BY DEF Stops

LEMMA UnwrittenStops ==
  ASSUME NEW step \in Steps, NEW status \in Statuses, NEW b \in Baselines, NEW level,
         step \in LaterSteps => b \in AllLevels,
         status = "restore-failed" \/ b = None,
         Unwritten(step, b, status)
  PROVE  Stops(level)
<1>1. StopsWith(step, status, b, level)
  BY DEF StopsWith, HonestStatus, Unwritten
<1>. QED
  BY <1>1, Stopping

LEMMA WrittenGoes ==
  ASSUME NEW step \in Steps, NEW b \in Baselines, NEW failed \in BOOLEAN,
         step \in LaterSteps => b \in AllLevels, Written(step, b, failed)
  PROVE  Goes
BY DEF Goes

LEMMA RestoreCases ==
  ASSUME NEW b \in AllLevels, NEW failed \in BOOLEAN, NEW level, Restore(b, failed)
  PROVE  Goes \/ Stops(level)
<1>1. "restore" \in Steps /\ "restore-failed" \in Statuses /\ b \in Baselines
  BY LevelFacts DEF Steps, Statuses
<1>2. CASE Written("restore", b, failed)
  BY <1>1, <1>2, WrittenGoes
<1>3. CASE Unwritten("restore", b, "restore-failed")
  BY <1>1, <1>3, UnwrittenStops
<1>. QED
  BY <1>2, <1>3 DEF Restore

LEMMA TestCases ==
  ASSUME NEW step \in Steps, NEW b \in AllLevels, NEW level, Test(step, b)
  PROVE  Goes \/ Stops(level)
<1>1. b \in Baselines /\ "restore-failed" \in Statuses
  BY LevelFacts DEF Statuses
<1>2. CASE Written(step, b, FALSE)
  BY <1>1, <1>2, WrittenGoes
<1>3. CASE Restore(b, TRUE)
  BY <1>3, RestoreCases
<1>4. CASE TimedOut(step, b) /\ Concluded("restore-failed", b)
  <2>1. StopsWith(step, "restore-failed", b, level)
    BY <1>4 DEF StopsWith, HonestStatus
  <2>. QED
    BY <1>1, <2>1, Stopping
<1>. QED
  BY <1>2, <1>3, <1>4 DEF Test

LEMMA BeginCases ==
  ASSUME NEW step \in FirstSteps, Begin(step)
  PROVE  Goes \/ Stops(None)
<1>1. step \in Steps /\ step \notin LaterSteps /\ None \in Baselines /\ "failed" \in Statuses
  BY LevelFacts DEF FirstSteps, Steps, LaterSteps, Statuses
<1>. QED
  BY <1>1, WrittenGoes, UnwrittenStops DEF Begin

\* A run reports a restored brightness only when the display, asked at the very end, answered
\* with the brightness found at the beginning.
LEMMA ContinueCases ==
  ASSUME DiagnosticsTyped, run.pc \in Steps, NEW level \in Baselines, Continue(level)
  PROVE  Goes \/ Stops(level)
<1>1. /\ run.baseline \in Baselines /\ run.failed \in BOOLEAN
      /\ run.pc \in LaterSteps => run.baseline \in AllLevels
  BY DEF DiagnosticsTyped, DiagnosticsTypeOK, BaselineKnown, Baselines
<1>2. level # None => level \in AllLevels
  BY DEF Baselines
<1>3. None \in Baselines /\ Steps = {"refresh", "baseline", "set-test", "verify-test", "restore",
                                     "verify-restore"}
  BY LevelFacts DEF Steps
<1>4. ASSUME NEW status \in Statuses, NEW b \in Baselines, HonestStatus(status, b, level),
             Concluded(status, b), Refused
      PROVE  Stops(level)
  <2>1. StopsWith("refresh", status, b, level)
    BY <1>4 DEF StopsWith, LaterSteps
  <2>. QED
    BY <1>3, <2>1, Stopping
<1>5. CASE run.pc = "refresh"
  <2>. DEFINE status == IF level = None THEN "failed" ELSE "passed"
  <2>1. Concluded(status, None) /\ Refused
    BY <1>5 DEF Continue
  <2>2. status \in Statuses /\ HonestStatus(status, None, level)
    BY DEF Statuses, HonestStatus
  <2>. HIDE DEF status
  <2>. QED
    BY <1>3, <1>4, <2>1, <2>2
<1>6. CASE run.pc = "baseline"
  <2>1. CASE level = None
    <3>1. Concluded("failed", None) /\ Refused
      BY <1>6, <2>1 DEF Continue
    <3>. QED
      BY <1>3, <1>4, <3>1 DEF Statuses, HonestStatus
  <2>2. CASE level # None
    <3>1. Test("set-test", level)
      BY <1>6, <2>2 DEF Continue
    <3>. QED
      BY <1>2, <1>3, <2>2, <3>1, TestCases
  <2>. QED
    BY <2>1, <2>2
<1>7. CASE run.pc = "set-test"
  <2>1. run.baseline \in AllLevels
    BY <1>1, <1>7 DEF LaterSteps
  <2>2. CASE level = None
    <3>1. Restore(run.baseline, TRUE)
      BY <1>7, <2>2 DEF Continue, NotAcknowledged
    <3>. QED
      BY <2>1, <3>1, RestoreCases
  <2>3. CASE level # None
    <3>1. Test("verify-test", run.baseline)
      BY <1>7, <2>3 DEF Continue
    <3>. QED
      BY <1>3, <2>1, <3>1, TestCases
  <2>. QED
    BY <2>2, <2>3
<1>8. CASE run.pc = "verify-test"
  <2>1. run.baseline \in AllLevels
    BY <1>1, <1>8 DEF LaterSteps
  <2>. DEFINE failed == level # chooseTestBrightness(run.baseline)
  <2>2. Restore(run.baseline, failed)
    BY <1>8 DEF Continue
  <2>3. failed \in BOOLEAN
    OBVIOUS
  <2>. HIDE DEF failed
  <2>. QED
    BY <2>1, <2>2, <2>3, RestoreCases
<1>9. CASE run.pc = "restore"
  <2>1. run.baseline \in AllLevels
    BY <1>1, <1>9 DEF LaterSteps
  <2>2. "restore-failed" \in Statuses /\ "verify-restore" \in Steps
    BY DEF Statuses, Steps
  <2>3. CASE level = None
    <3>1. Concluded("restore-failed", run.baseline) /\ Refused
      BY <1>9, <2>3 DEF Continue
    <3>. QED
      BY <1>1, <1>4, <2>2, <3>1 DEF HonestStatus
  <2>4. CASE level # None
    <3>1. \/ Written("verify-restore", run.baseline, run.failed)
          \/ Unwritten("verify-restore", run.baseline, "restore-failed")
      BY <1>9, <2>4 DEF Continue
    <3>. QED
      BY <1>1, <2>1, <2>2, <3>1, WrittenGoes, UnwrittenStops
  <2>. QED
    BY <2>3, <2>4
<1>10. CASE run.pc = "verify-restore"
  <2>. DEFINE status == IF level # run.baseline THEN "restore-failed"
                        ELSE IF run.failed THEN "failed" ELSE "passed"
  <2>1. Concluded(status, run.baseline) /\ Refused
    BY <1>10 DEF Continue
  <2>2. status \in Statuses /\ HonestStatus(status, run.baseline, level)
    BY <1>10 DEF Statuses, HonestStatus
  <2>. HIDE DEF status
  <2>. QED
    BY <1>1, <1>4, <2>1, <2>2
<1>. QED
  BY <1>3, <1>5, <1>6, <1>7, <1>8, <1>9, <1>10

LEMMA NothingRuns ==
  /\ NoRun \in RunType /\ NoRun.pc \notin Steps /\ NoRun.pc \notin LaterSteps
  /\ NoRun.pc = "idle" /\ NoCall \in CallType /\ NoCall.by = "none"
<1>1. 0 \in 0 .. MaxConnections
  BY DiagnosticsAssumption
<1>. QED
  BY <1>1, LevelFacts DEF RunType, Phases, CallType, NoRun, NoCall, Steps, LaterSteps

LEMMA EnablingPhases ==
  ASSUME NEW step \in FirstSteps
  PROVE  Enabling[step] \in {"enabling refresh", "enabling baseline"}
<1>1. CASE step = "refresh"
  BY <1>1 DEF Enabling
<1>2. CASE step = "baseline"
  BY <1>2 DEF Enabling
<1>. QED
  BY <1>1, <1>2 DEF FirstSteps

LEMMA SettledTyped ==
  ASSUME DiagnosticsTyped
  PROVE  Settled \in AllLevels
<1>1. brightness \in AllLevels /\ inbox \in Seq(Commands)
  BY DEF DiagnosticsTyped, DiagnosticsTypeOK
<1>2. CASE \E i \in DOMAIN inbox : LastSet(i)
  <2>. DEFINE i == CHOOSE i \in DOMAIN inbox : LastSet(i)
  <2>1. i \in DOMAIN inbox /\ LastSet(i)
    BY <1>2
  <2>2. Settled = inbox[i].level
    BY <1>2 DEF Settled
  <2>. HIDE DEF i
  <2>3. inbox[i] \in Commands /\ inbox[i].kind = "set"
    BY <1>1, <2>1, ElementOfSeq DEF LastSet
  <2>4. inbox[i].level \in AllLevels
    BY <2>3 DEF Commands
  <2>. QED
    BY <2>2, <2>4
<1>3. CASE ~\E i \in DOMAIN inbox : LastSet(i)
  BY <1>1, <1>3 DEF Settled
<1>. QED
  BY <1>2, <1>3

\* What a run writes and how it stops, with the types of what they leave.
LEMMA GoesTyped ==
  ASSUME DiagnosticsTyped, Goes
  PROVE  /\ run' \in RunType /\ run'.pc \in Steps /\ BaselineKnown'
         /\ call' \in CallType /\ call'.by = "run" /\ call' # NoCall
         /\ inbox' \in Seq(Commands) /\ UNCHANGED <<outcome, open>>
         /\ \E c \in Commands : inbox' = Append(inbox, c)
<1>1. PICK step \in Steps, b \in Baselines, failed \in BOOLEAN :
        (step \in LaterSteps => b \in AllLevels) /\ Written(step, b, failed)
  BY DEF Goes
<1>2. /\ run' = [pc |-> step, baseline |-> b, failed |-> failed, link |-> connections]
      /\ call' = [by |-> "run", kind |-> ExpectedBy(step)]
      /\ inbox' = Append(inbox, CommandOf(step, b)) /\ UNCHANGED <<outcome, open>>
  BY <1>1 DEF Written
<1>3. CommandOf(step, b) \in Commands
  BY <1>1, CommandTyped
<1>4. inbox \in Seq(Commands) /\ connections \in 0 .. MaxConnections
  BY DEF DiagnosticsTyped, DiagnosticsTypeOK
<1>5. inbox' \in Seq(Commands)
  BY <1>2, <1>3, <1>4, AppendProperties
<1>6. run' \in RunType /\ run'.pc \in Steps
  BY <1>2, <1>4 DEF RunType, Phases
<1>7. BaselineKnown'
  BY <1>1, <1>2 DEF BaselineKnown
<1>8. call' \in CallType /\ call'.by = "run" /\ call' # NoCall
  BY <1>2 DEF CallType, ExpectedBy, NoCall
<1>. QED
  BY <1>2, <1>3, <1>5, <1>6, <1>7, <1>8

LEMMA StopsTyped ==
  ASSUME DiagnosticsTyped, NEW level \in Baselines, Stops(level)
  PROVE  /\ run' = NoRun /\ call' = NoCall /\ outcome' \in OutcomeType
         /\ inbox' \in Seq(Commands)
         /\ \/ UNCHANGED <<inbox, open>>
            \/ /\ open' = "quarantined"
               /\ inbox' = inbox \/ \E c \in Commands : inbox' = Append(inbox, c)
         /\ \/ outcome'.status = "restore-failed" \/ outcome'.baseline = None
            \/ /\ run.pc = "verify-restore" /\ level = outcome'.baseline
               /\ outcome'.left = Settled
<1>1. PICK step \in Steps, status \in Statuses, b \in Baselines : StopsWith(step, status, b, level)
  BY DEF Stops
<1>2. /\ run' = NoRun /\ call' = NoCall
      /\ outcome' = [status |-> status, baseline |-> b, left |-> Settled]
  BY <1>1 DEF StopsWith, Concluded
<1>3. Settled \in Baselines /\ inbox \in Seq(Commands)
  BY SettledTyped, LevelFacts DEF DiagnosticsTyped, DiagnosticsTypeOK
<1>4. outcome' \in OutcomeType
  BY <1>2, <1>3 DEF OutcomeType
<1>5. \/ UNCHANGED <<inbox, open>>
      \/ /\ open' = "quarantined"
         /\ inbox' = inbox \/ \E c \in Commands : inbox' = Append(inbox, c)
  BY <1>1, CommandTyped DEF StopsWith, Refused, TimedOut
<1>6. inbox' \in Seq(Commands)
  BY <1>3, <1>5, AppendProperties
<1>7. \/ outcome'.status = "restore-failed" \/ outcome'.baseline = None
      \/ /\ run.pc = "verify-restore" /\ level = outcome'.baseline
         /\ outcome'.left = Settled
  <2>1. outcome'.status = status /\ outcome'.baseline = b /\ outcome'.left = Settled
    BY <1>2
  <2>2. HonestStatus(status, b, level)
    BY <1>1 DEF StopsWith
  <2>. QED
    BY <2>1, <2>2 DEF HonestStatus, Statuses
<1>. QED
  BY <1>2, <1>4, <1>5, <1>6, <1>7

\* A command of a run goes out, or the run stops.
Advances == \E level \in Baselines : Stops(level)
LEMMA AdvanceTyped ==
  ASSUME DiagnosticsTyped, Goes \/ Advances, connections' = connections,
         begun' \in 0 .. MaxRuns, brightness' \in AllLevels, outbox' \in Seq(DisplayAnswers),
         subscribed' \in BOOLEAN, subscribed' => open # "down"
  PROVE  DiagnosticsTyped'
<1>1. /\ open \in {"down", "up", "quarantined"} /\ connections \in 0 .. MaxConnections
      /\ begun \in 0 .. MaxRuns /\ outcome \in OutcomeType
  BY DEF DiagnosticsTyped, DiagnosticsTypeOK, OutcomeType, Statuses, Baselines
<1>2. CASE Goes
  <2>1. /\ run' \in RunType /\ run'.pc \in Steps /\ BaselineKnown'
        /\ call' \in CallType /\ call'.by = "run"
        /\ inbox' \in Seq(Commands) /\ UNCHANGED <<outcome, open>>
    BY <1>2, GoesTyped
  <2>. QED
    BY <1>1, <2>1 DEF DiagnosticsTyped, DiagnosticsTypeOK, OutcomeType, Statuses, Baselines,
                      RunType, Phases, CallType
<1>3. CASE Advances
  <2>1. /\ run' = NoRun /\ call' = NoCall /\ outcome' \in OutcomeType
        /\ inbox' \in Seq(Commands) /\ open' \in {open, "quarantined"}
    BY <1>3, StopsTyped DEF Advances
  <2>2. run' \in RunType /\ run'.pc \notin Steps /\ call' \in CallType /\ call'.by # "run"
    BY <2>1, NothingRuns
  <2>3. BaselineKnown'
    BY <2>1 DEF BaselineKnown, NoRun, LaterSteps
  <2>. QED
    BY <1>1, <2>1, <2>2, <2>3 DEF DiagnosticsTyped, DiagnosticsTypeOK, OutcomeType, Statuses,
                                  Baselines, RunType, Phases, CallType
<1>. QED
  BY <1>2, <1>3

LEMMA DiagnosticsTypeStep ==
  ASSUME DiagnosticsTyped, [DiagnosticsNext]_diagnosticsVars
  PROVE  DiagnosticsTyped'
<1>1. /\ open \in {"down", "up", "quarantined"} /\ connections \in 0 .. MaxConnections
      /\ subscribed \in BOOLEAN /\ (subscribed => open # "down")
      /\ brightness \in AllLevels
      /\ inbox \in Seq(Commands) /\ outbox \in Seq(DisplayAnswers)
      /\ call \in CallType /\ run \in RunType /\ (call.by = "run" <=> run.pc \in Steps)
      /\ begun \in 0 .. MaxRuns /\ outcome \in OutcomeType
      /\ BaselineKnown
  BY DEF DiagnosticsTyped, DiagnosticsTypeOK, OutcomeType, Statuses, Baselines, RunType, Phases,
         CallType
<1>2. ASSUME /\ open' \in {"down", "up", "quarantined"} /\ connections' \in 0 .. MaxConnections
             /\ subscribed' \in BOOLEAN /\ (subscribed' => open' # "down")
             /\ brightness' \in AllLevels
             /\ inbox' \in Seq(Commands) /\ outbox' \in Seq(DisplayAnswers)
             /\ call' \in CallType /\ run' \in RunType /\ (call'.by = "run" <=> run'.pc \in Steps)
             /\ begun' \in 0 .. MaxRuns /\ outcome' \in OutcomeType
             /\ BaselineKnown'
      PROVE  DiagnosticsTyped'
  BY <1>2 DEF DiagnosticsTyped, DiagnosticsTypeOK, OutcomeType, Statuses, Baselines, RunType,
              Phases, CallType
<1>3. Settled \in Baselines /\ Settled \in AllLevels
  BY SettledTyped, LevelFacts
<1>4. ASSUME NEW step \in FirstSteps, StartRun(step)
      PROVE  DiagnosticsTyped'
  <2>1. begun' \in 0 .. MaxRuns
    BY <1>1, <1>4, DiagnosticsAssumption DEF StartRun
  <2>2. CASE open = "up" /\ subscribed /\ call = NoCall /\ Begin(step)
    <3>1. Goes \/ Advances
      BY <2>2, BeginCases, LevelFacts DEF Advances
    <3>2. UNCHANGED <<connections, subscribed, brightness, outbox>>
      BY <1>4 DEF StartRun
    <3>. QED
      BY <1>1, <2>1, <2>2, <3>1, <3>2, AdvanceTyped
  <2>3. CASE /\ open = "up" /\ ~subscribed
             /\ run' = [NoRun EXCEPT !.pc = Enabling[step], !.link = connections]
             /\ UNCHANGED <<open, inbox, call, outcome>>
    <3>1. run' = [pc |-> Enabling[step], baseline |-> None, failed |-> FALSE, link |-> connections]
      BY <2>3 DEF NoRun
    <3>2. Enabling[step] \in {"enabling refresh", "enabling baseline"}
      BY EnablingPhases
    <3>3. run' \in RunType /\ run'.pc \notin Steps /\ run'.pc \notin LaterSteps
      BY <1>1, <3>1, <3>2, LevelFacts DEF RunType, Phases, Steps, LaterSteps
    <3>4. run = NoRun
      BY <1>4 DEF StartRun
    <3>5. call.by # "run"
      BY <1>1, <3>4 DEF NoRun, Steps
    <3>. QED
      BY <1>1, <1>2, <1>4, <2>1, <2>3, <3>3, <3>5 DEF StartRun, BaselineKnown
  <2>4. CASE /\ outcome' = [status |-> "failed", baseline |-> None, left |-> Settled]
             /\ UNCHANGED <<open, inbox, call, run>>
    <3>1. outcome' \in OutcomeType
      BY <1>3, <2>4, LevelFacts DEF OutcomeType, Statuses
    <3>. QED
      BY <1>1, <1>2, <1>4, <2>1, <2>4, <3>1 DEF StartRun, BaselineKnown
  <2>. QED
    BY <1>4, <2>2, <2>3, <2>4 DEF StartRun
<1>5. ASSUME NEW level \in Levels, UserSets(level)
      PROVE  DiagnosticsTyped'
  <2>. DEFINE c == [kind |-> "set", level |-> level]
  <2>1. c \in Commands
    BY DEF Commands, AllLevels
  <2>2. call = NoCall /\ inbox' = Append(inbox, c)
        /\ call' = [by |-> "user", kind |-> "command-echo"] /\ begun < MaxRuns /\ begun' = begun + 1
        /\ UNCHANGED <<open, connections, subscribed, brightness, outbox, run, outcome>>
    BY <1>5 DEF UserSets
  <2>. HIDE DEF c
  <2>3. inbox' \in Seq(Commands)
    BY <1>1, <2>1, <2>2, AppendProperties
  <2>4. begun' \in 0 .. MaxRuns
    BY <1>1, <2>2, DiagnosticsAssumption
  <2>5. call' \in CallType /\ call'.by # "run" /\ call.by # "run"
    BY <2>2 DEF CallType, NoCall
  <2>. QED
    BY <1>1, <1>2, <2>2, <2>3, <2>4, <2>5 DEF BaselineKnown
<1>6. CASE SubscriptionSettles
  <2>1. PICK step \in FirstSteps :
          /\ run.pc = Enabling[step]
          /\ \/ run.link = connections /\ open = "up" /\ subscribed' = TRUE /\ Begin(step)
             \/ UNCHANGED subscribed /\ Concluded("failed", None) /\ Refused
          /\ UNCHANGED <<connections, brightness, outbox, begun>>
    BY <1>6 DEF SubscriptionSettles
  <2>2. CASE run.link = connections /\ open = "up" /\ subscribed' = TRUE /\ Begin(step)
    <3>1. Goes \/ Advances
      BY <2>2, BeginCases, LevelFacts DEF Advances
    <3>. QED
      BY <1>1, <2>1, <2>2, <3>1, AdvanceTyped
  <2>3. CASE UNCHANGED subscribed /\ Concluded("failed", None) /\ Refused
    <3>1. /\ run' = NoRun /\ call' = NoCall
          /\ outcome' = [status |-> "failed", baseline |-> None, left |-> Settled]
          /\ UNCHANGED <<inbox, open>>
      BY <2>3 DEF Concluded, Refused
    <3>2. outcome' \in OutcomeType
      BY <1>3, <3>1, LevelFacts DEF OutcomeType, Statuses
    <3>3. run' \in RunType /\ run'.pc \notin Steps /\ call' \in CallType /\ call'.by # "run"
      BY <3>1, NothingRuns
    <3>4. BaselineKnown'
      BY <3>1 DEF BaselineKnown, NoRun, LaterSteps
    <3>. QED
      BY <1>1, <1>2, <2>1, <2>3, <3>1, <3>2, <3>3, <3>4
  <2>. QED
    BY <2>1, <2>2, <2>3
<1>7. CASE PanelActs
  <2>. DEFINE c == Head(inbox)
  <2>1. inbox # <<>> /\ inbox' = Tail(inbox)
        /\ UNCHANGED <<open, connections, subscribed, call, run, begun, outcome>>
    BY <1>7 DEF PanelActs
  <2>2. c \in Commands /\ inbox' \in Seq(Commands)
    BY <1>1, <2>1, HeadTailProperties
  <2>3. \/ UNCHANGED <<brightness, outbox>>
        \/ /\ brightness' = IF c.kind = "set" THEN c.level ELSE brightness
           /\ \/ UNCHANGED outbox
              \/ outbox' = Append(outbox, [level |-> brightness', kind |->
                   IF c.kind = "set" THEN "command-echo" ELSE "device-info"])
    BY <1>7 DEF PanelActs
  <2>. HIDE DEF c
  <2>4. brightness' \in AllLevels
    BY <1>1, <2>2, <2>3 DEF Commands
  <2>5. outbox' \in Seq(DisplayAnswers)
    <3>. DEFINE a == [level |-> brightness', kind |->
                        IF c.kind = "set" THEN "command-echo" ELSE "device-info"]
    <3>1. a \in DisplayAnswers
      BY <2>4 DEF DisplayAnswers
    <3>2. UNCHANGED outbox \/ outbox' = Append(outbox, a)
      BY <2>3
    <3>. HIDE DEF a
    <3>. QED
      BY <1>1, <3>1, <3>2, AppendProperties
  <2>. QED
    BY <1>1, <1>2, <2>1, <2>2, <2>4, <2>5 DEF BaselineKnown
<1>8. CASE Deliver
  <2>1. outbox # <<>> /\ outbox' = Tail(outbox)
        /\ UNCHANGED <<connections, subscribed, brightness, begun>>
    BY <1>8 DEF Deliver
  <2>2. Head(outbox) \in DisplayAnswers /\ outbox' \in Seq(DisplayAnswers)
    BY <1>1, <2>1, HeadTailProperties
  <2>3. Head(outbox).level \in Baselines
    BY <2>2, LevelFacts DEF DisplayAnswers
  <2>4. CASE Head(outbox).kind # call.kind
    BY <1>1, <1>2, <1>8, <2>1, <2>2, <2>4 DEF Deliver, Refused, BaselineKnown
  <2>5. CASE Head(outbox).kind = call.kind /\ call.by = "run"
    <3>1. Continue(Head(outbox).level)
      BY <1>8, <2>5 DEF Deliver
    <3>2. Goes \/ Advances
      BY <1>1, <2>3, <2>5, <3>1, ContinueCases DEF Advances
    <3>. QED
      BY <1>1, <2>1, <2>2, <3>2, AdvanceTyped
  <2>6. CASE Head(outbox).kind = call.kind /\ call.by # "run"
    <3>1. call' = NoCall /\ Refused /\ UNCHANGED <<run, outcome>>
      BY <1>8, <2>6 DEF Deliver
    <3>2. NoCall \in CallType /\ NoCall.by # "run"
      BY DEF NoCall, CallType
    <3>. QED
      BY <1>1, <1>2, <2>1, <2>2, <2>6, <3>1, <3>2 DEF Refused, BaselineKnown
  <2>. QED
    BY <2>4, <2>5, <2>6
<1>9. CASE TimeOut
  <2>1. UNCHANGED <<connections, subscribed, brightness, outbox, begun>>
    BY <1>9 DEF TimeOut
  <2>2. CASE call.by = "run"
    <3>1. Continue(None)
      BY <1>9, <2>2 DEF TimeOut
    <3>2. Goes \/ Advances
      BY <1>1, <2>2, <3>1, ContinueCases, LevelFacts DEF Advances
    <3>. QED
      BY <1>1, <2>1, <3>2, AdvanceTyped
  <2>3. CASE call.by # "run"
    <3>1. call' = NoCall /\ Refused /\ UNCHANGED <<run, outcome>>
      BY <1>9, <2>3 DEF TimeOut
    <3>2. NoCall \in CallType /\ NoCall.by # "run"
      BY DEF NoCall, CallType
    <3>. QED
      BY <1>1, <1>2, <2>1, <2>3, <3>1, <3>2 DEF Refused, BaselineKnown
  <2>. QED
    BY <2>2, <2>3
<1>10. CASE LinkDrops
  <2>1. /\ open' = "down" /\ inbox' = <<>> /\ outbox' = <<>> /\ subscribed' = FALSE
        /\ call' = NoCall /\ UNCHANGED <<connections, brightness, begun>>
    BY <1>10 DEF LinkDrops
  <2>2. NoCall \in CallType /\ NoCall.by # "run"
    BY DEF NoCall, CallType
  <2>3. inbox' \in Seq(Commands) /\ outbox' \in Seq(DisplayAnswers)
    BY <2>1, EmptySeq
  <2>4. /\ run' \in RunType /\ outcome' \in OutcomeType /\ run'.pc \notin Steps
        /\ BaselineKnown'
    <3>1. CASE call.by # "run"
      BY <1>1, <1>10, <3>1 DEF LinkDrops, BaselineKnown
    <3>2. CASE call.by = "run"
      <4>. DEFINE status == IF run.baseline = None THEN "failed" ELSE "restore-failed"
      <4>1. Concluded(status, run.baseline)
        BY <1>10, <3>2 DEF LinkDrops
      <4>2. status \in Statuses
        BY DEF Statuses
      <4>3. run.baseline \in Baselines
        BY <1>1 DEF RunType
      <4>. HIDE DEF status
      <4>4. outcome' \in OutcomeType
        BY <1>3, <4>1, <4>2, <4>3 DEF Concluded, OutcomeType
      <4>5. run' = NoRun
        BY <4>1 DEF Concluded
      <4>6. run' \in RunType /\ run'.pc \notin Steps
        BY <4>5, NothingRuns
      <4>. QED
        BY <4>4, <4>5, <4>6 DEF BaselineKnown, NoRun, LaterSteps
    <3>. QED
      BY <3>1, <3>2
  <2>. QED
    BY <1>1, <1>2, <2>1, <2>2, <2>3, <2>4
<1>11. CASE LinkOpens
  <2>1. connections' \in 0 .. MaxConnections
    BY <1>1, <1>11, DiagnosticsAssumption DEF LinkOpens
  <2>. QED
    BY <1>1, <1>2, <1>11, <2>1 DEF LinkOpens, BaselineKnown
<1>12. CASE UNCHANGED diagnosticsVars
  BY <1>1, <1>2, <1>12 DEF diagnosticsVars, BaselineKnown
<1>. QED
  BY <1>4, <1>5, <1>6, <1>7, <1>8, <1>9, <1>10, <1>11, <1>12 DEF DiagnosticsNext

LEMMA DiagnosticsTypeStart ==
  ASSUME DiagnosticsInit
  PROVE  DiagnosticsTyped
<1>1. /\ open = "down" /\ connections = 0 /\ subscribed = FALSE /\ brightness \in Levels
      /\ inbox = <<>> /\ outbox = <<>> /\ call = NoCall /\ run = NoRun /\ begun = 0
      /\ outcome = NoOutcome
  BY DEF DiagnosticsInit
<1>2. 0 \in 0 .. MaxConnections /\ 0 \in 0 .. MaxRuns
  BY DiagnosticsAssumption
<1>3. inbox \in Seq(Commands) /\ outbox \in Seq(DisplayAnswers)
  BY <1>1, EmptySeq
<1>. QED
  BY <1>1, <1>2, <1>3
  DEF DiagnosticsTyped, DiagnosticsTypeOK, BaselineKnown, AllLevels, NoCall, NoRun, NoOutcome,
      Steps, LaterSteps

\* The states of a diagnostic run, for any levels, connections and runs, whether or not displays
\* answer late.
THEOREM DiagnosticsTypeCorrect == DiagnosticsSpec => [](DiagnosticsTypeOK /\ BaselineKnown)
<1>1. DiagnosticsInit => DiagnosticsTyped
  BY DiagnosticsTypeStart
<1>2. DiagnosticsTyped /\ [DiagnosticsNext]_diagnosticsVars => DiagnosticsTyped'
  BY DiagnosticsTypeStep
<1>. QED
  BY <1>1, <1>2, PTL DEF DiagnosticsSpec, DiagnosticsTyped

------------------------------------------------------------------------------
(* Diagnostics: unless displays answer late, the answer a run is waiting   *)
(* for is the only thing under way.                                        *)

Quiet == inbox = <<>> /\ outbox = <<>>
OneOut ==
  \/ Quiet
  \/ outbox = <<>> /\ \E c \in Commands : inbox = <<c>>
  \/ inbox = <<>> /\ \E a \in DisplayAnswers : outbox = <<a>> /\ a.level = brightness
Waits ==
  /\ call # NoCall => open = "up" /\ subscribed
  /\ call = NoCall /\ open = "up" => Quiet
  /\ open = "down" => Quiet
  /\ run.pc \in {"enabling refresh", "enabling baseline"} => ~subscribed
Restores == DiagnosticsTyped /\ OneOut /\ Waits /\ RestoredRunsRestore

LEMMA Single ==
  ASSUME NEW c
  PROVE  Append(<<>>, c) = <<c>> /\ <<c>> # <<>> /\ Head(<<c>>) = c /\ Tail(<<c>>) = <<>>
OBVIOUS

\* A command goes out when nothing else is under way.
LEMMA AdvanceAlone ==
  ASSUME DiagnosticsTyped, inbox = <<>>, open = "up", NEW level \in Baselines, Goes \/ Stops(level),
         outbox' = <<>>, subscribed' = TRUE, RestoredRunsRestore,
         run.pc = "verify-restore" => level = None \/ brightness = level
  PROVE  OneOut' /\ Waits' /\ RestoredRunsRestore'
<1>1. CASE Goes
  <2>1. /\ run'.pc \in Steps /\ call' # NoCall /\ UNCHANGED <<outcome, open>>
        /\ \E c \in Commands : inbox' = Append(inbox, c)
    BY <1>1, GoesTyped
  <2>2. PICK c \in Commands : inbox' = Append(inbox, c)
    BY <2>1
  <2>3. inbox' = <<c>>
    BY <2>2, Single
  <2>4. OneOut'
    BY <2>3 DEF OneOut
  <2>5. Waits'
    BY <2>1 DEF Waits, Steps
  <2>6. RestoredRunsRestore'
    BY <2>1 DEF RestoredRunsRestore
  <2>. QED
    BY <2>4, <2>5, <2>6
<1>2. CASE Stops(level)
  <2>1. /\ run' = NoRun /\ call' = NoCall
        /\ \/ UNCHANGED <<inbox, open>>
           \/ /\ open' = "quarantined"
              /\ inbox' = inbox \/ \E c \in Commands : inbox' = Append(inbox, c)
        /\ \/ outcome'.status = "restore-failed" \/ outcome'.baseline = None
           \/ /\ run.pc = "verify-restore" /\ level = outcome'.baseline
              /\ outcome'.left = Settled
    BY <1>2, StopsTyped
  <2>2. OneOut'
    <3>1. CASE inbox' = inbox
      BY <3>1 DEF OneOut, Quiet
    <3>2. ASSUME NEW c \in Commands, inbox' = Append(inbox, c)
          PROVE  OneOut'
      <4>1. inbox' = <<c>>
        BY <3>2, Single
      <4>. QED
        BY <4>1 DEF OneOut
    <3>. QED
      BY <2>1, <3>1, <3>2
  <2>3. Waits'
    BY <2>1, NothingRuns DEF Waits, Quiet
  <2>4. Settled = brightness
    <3>1. DOMAIN inbox = {}
      OBVIOUS
    <3>. QED
      BY <3>1 DEF Settled
  <2>5. RestoredRunsRestore'
    BY <2>1, <2>4 DEF RestoredRunsRestore
  <2>. QED
    BY <2>2, <2>3, <2>5
<1>. QED
  BY <1>1, <1>2

\* An answer that arrives is the only thing under way, and tells the brightness of the display.
LEMMA AnswerIsTrue ==
  ASSUME DiagnosticsTyped, OneOut, outbox # <<>>
  PROVE  inbox = <<>> /\ Tail(outbox) = <<>> /\ Head(outbox).level = brightness
<1>1. PICK a \in DisplayAnswers : inbox = <<>> /\ outbox = <<a>> /\ a.level = brightness
  BY DEF OneOut, Quiet
<1>. QED
  BY <1>1, Single

LEMMA RestoresStep ==
  ASSUME ~Late, Restores, [DiagnosticsNext]_diagnosticsVars
  PROVE  OneOut' /\ Waits' /\ RestoredRunsRestore'
<1>0. DiagnosticsTyped /\ OneOut /\ Waits /\ RestoredRunsRestore
  BY DEF Restores
<1>1. brightness \in AllLevels /\ inbox \in Seq(Commands) /\ outbox \in Seq(DisplayAnswers)
      /\ (call.by = "run" <=> run.pc \in Steps) /\ subscribed \in BOOLEAN
      /\ (subscribed => open # "down")
  BY <1>0 DEF DiagnosticsTyped, DiagnosticsTypeOK
<1>2. \A step \in FirstSteps : Enabling[step] \in {"enabling refresh", "enabling baseline"}
  BY EnablingPhases
<1>3. ASSUME UNCHANGED <<brightness, inbox, outbox>>
      PROVE  OneOut'
  BY <1>0, <1>3 DEF OneOut, Quiet
<1>4. ASSUME outcome'.status = "restore-failed" \/ outcome'.baseline = None
      PROVE  RestoredRunsRestore'
  BY <1>4 DEF RestoredRunsRestore
<1>5. ASSUME UNCHANGED outcome
      PROVE  RestoredRunsRestore'
  BY <1>0, <1>5 DEF RestoredRunsRestore
<1>6. ASSUME NEW step \in FirstSteps, StartRun(step)
      PROVE  OneOut' /\ Waits' /\ RestoredRunsRestore'
  <2>1. run = NoRun /\ UNCHANGED <<connections, subscribed, brightness, outbox>>
    BY <1>6 DEF StartRun
  <2>2. CASE open = "up" /\ subscribed /\ call = NoCall /\ Begin(step)
    <3>1. Goes \/ Stops(None)
      BY <2>2, BeginCases
    <3>2. Quiet /\ outbox' = <<>> /\ subscribed' = TRUE
      BY <1>0, <1>1, <2>1, <2>2 DEF Waits, Quiet
    <3>. QED
      BY <1>0, <2>2, <3>1, <3>2, AdvanceAlone, LevelFacts DEF Quiet
  <2>3. CASE /\ open = "up" /\ ~subscribed
             /\ run' = [NoRun EXCEPT !.pc = Enabling[step], !.link = connections]
             /\ UNCHANGED <<open, inbox, call, outcome>>
    <3>1. Waits'
      BY <1>0, <2>1, <2>3 DEF Waits, Quiet
    <3>. QED
      BY <1>3, <1>5, <2>1, <2>3, <3>1
  <2>4. CASE /\ outcome' = [status |-> "failed", baseline |-> None, left |-> Settled]
             /\ UNCHANGED <<open, inbox, call, run>>
    <3>1. Waits'
      BY <1>0, <2>1, <2>4 DEF Waits, Quiet
    <3>2. outcome'.baseline = None
      BY <2>4
    <3>. QED
      BY <1>3, <1>4, <2>1, <2>4, <3>1, <3>2
  <2>. QED
    BY <1>6, <2>2, <2>3, <2>4 DEF StartRun
<1>7. ASSUME NEW level \in Levels, UserSets(level)
      PROVE  OneOut' /\ Waits' /\ RestoredRunsRestore'
  <2>. DEFINE c == [kind |-> "set", level |-> level]
  <2>1. c \in Commands
    BY DEF Commands, AllLevels
  <2>2. /\ open = "up" /\ subscribed /\ call = NoCall /\ inbox' = Append(inbox, c)
        /\ call' = [by |-> "user", kind |-> "command-echo"]
        /\ UNCHANGED <<open, connections, subscribed, brightness, outbox, run, outcome>>
    BY <1>7 DEF UserSets
  <2>. HIDE DEF c
  <2>3. Quiet
    BY <1>0, <2>2 DEF Waits
  <2>4. inbox' = <<c>> /\ outbox' = <<>>
    BY <2>2, <2>3, Single DEF Quiet
  <2>5. OneOut'
    BY <2>1, <2>4 DEF OneOut
  <2>6. call' # NoCall
    BY <2>2 DEF NoCall
  <2>7. Waits'
    BY <1>0, <2>2, <2>6 DEF Waits
  <2>. QED
    BY <1>5, <2>2, <2>5, <2>7
<1>8. CASE SubscriptionSettles
  <2>1. PICK step \in FirstSteps :
          /\ run.pc = Enabling[step]
          /\ \/ run.link = connections /\ open = "up" /\ subscribed' = TRUE /\ Begin(step)
             \/ UNCHANGED subscribed /\ Concluded("failed", None) /\ Refused
          /\ UNCHANGED <<connections, brightness, outbox, begun>>
    BY <1>8 DEF SubscriptionSettles
  <2>2. ~subscribed /\ call = NoCall
    BY <1>0, <1>2, <2>1 DEF Waits
  <2>3. CASE run.link = connections /\ open = "up" /\ subscribed' = TRUE /\ Begin(step)
    <3>1. Goes \/ Stops(None)
      BY <2>3, BeginCases
    <3>2. Quiet /\ outbox' = <<>>
      BY <1>0, <2>1, <2>2, <2>3 DEF Waits, Quiet
    <3>. QED
      BY <1>0, <2>3, <3>1, <3>2, AdvanceAlone, LevelFacts DEF Quiet
  <2>4. CASE UNCHANGED subscribed /\ Concluded("failed", None) /\ Refused
    <3>1. /\ run' = NoRun /\ call' = NoCall /\ outcome'.baseline = None
          /\ UNCHANGED <<inbox, open>>
      BY <2>4 DEF Concluded, Refused
    <3>2. Waits'
      BY <1>0, <2>1, <2>2, <2>4, <3>1, NothingRuns DEF Waits, Quiet
    <3>. QED
      BY <1>3, <1>4, <2>1, <3>1, <3>2
  <2>. QED
    BY <2>1, <2>3, <2>4
<1>9. CASE PanelActs
  <2>1. /\ inbox # <<>> /\ inbox' = Tail(inbox)
        /\ UNCHANGED <<open, connections, subscribed, call, run, begun, outcome>>
    BY <1>9 DEF PanelActs
  <2>2. outbox = <<>>
    BY <1>0, <2>1 DEF OneOut, Quiet
  <2>3. inbox' = <<>>
    BY <1>0, <2>1, Single DEF OneOut, Quiet
  <2>4. Waits'
    BY <1>0, <2>1, <2>2 DEF Waits, Quiet
  <2>5. OneOut'
    <3>1. CASE UNCHANGED outbox
      BY <2>2, <2>3, <3>1 DEF OneOut, Quiet
    <3>2. CASE ~UNCHANGED outbox
      <4>. DEFINE a == [level |-> brightness', kind |->
                          IF Head(inbox).kind = "set" THEN "command-echo" ELSE "device-info"]
      <4>1. brightness' = IF Head(inbox).kind = "set" THEN Head(inbox).level ELSE brightness
        BY <1>9, <3>2 DEF PanelActs
      <4>2. outbox' = Append(outbox, a)
        BY <1>9, <3>2 DEF PanelActs
      <4>3. Head(inbox) \in Commands
        BY <1>1, <2>1, HeadTailProperties
      <4>4. brightness' \in AllLevels
        BY <1>1, <4>1, <4>3 DEF Commands
      <4>5. a \in DisplayAnswers /\ a.level = brightness'
        BY <4>4 DEF DisplayAnswers
      <4>. HIDE DEF a
      <4>6. outbox' = <<a>>
        BY <2>2, <4>2, Single
      <4>. QED
        BY <2>3, <4>5, <4>6 DEF OneOut
    <3>. QED
      BY <3>1, <3>2
  <2>. QED
    BY <1>5, <2>1, <2>4, <2>5
<1>10. CASE Deliver
  <2>1. /\ outbox # <<>> /\ outbox' = Tail(outbox)
        /\ UNCHANGED <<connections, subscribed, brightness, begun>>
    BY <1>10 DEF Deliver
  <2>2. inbox = <<>> /\ outbox' = <<>> /\ Head(outbox).level = brightness
    BY <1>0, <2>1, AnswerIsTrue
  <2>3. CASE ~(Head(outbox).kind = call.kind /\ call.by = "run")
    <3>1. Refused /\ UNCHANGED <<run, outcome>> /\ call' \in {call, NoCall}
      BY <1>10, <2>3 DEF Deliver
    <3>2. inbox' = <<>> /\ open' = open
      BY <2>2, <3>1 DEF Refused
    <3>3. OneOut' /\ Waits'
      BY <1>0, <2>1, <2>2, <3>1, <3>2 DEF OneOut, Waits, Quiet
    <3>. QED
      BY <1>5, <3>1, <3>3
  <2>4. CASE Head(outbox).kind = call.kind /\ call.by = "run"
    <3>1. Continue(Head(outbox).level)
      BY <1>10, <2>4 DEF Deliver
    <3>2. call # NoCall
      BY <2>4 DEF NoCall
    <3>3. open = "up" /\ subscribed' = TRUE
      BY <1>0, <1>1, <2>1, <3>2 DEF Waits
    <3>4. Head(outbox).level \in Baselines
      BY <1>1, <2>2, LevelFacts
    <3>5. Goes \/ Stops(Head(outbox).level)
      BY <1>0, <1>1, <2>4, <3>1, <3>4, ContinueCases
    <3>. QED
      BY <1>0, <2>2, <3>3, <3>4, <3>5, AdvanceAlone
  <2>. QED
    BY <2>3, <2>4
<1>11. CASE TimeOut
  <2>1. /\ call # NoCall /\ Quiet
        /\ UNCHANGED <<connections, subscribed, brightness, outbox, begun>>
    BY <1>11 DEF TimeOut, Quiet
  <2>2. CASE call.by = "run"
    <3>1. Continue(None)
      BY <1>11, <2>2 DEF TimeOut
    <3>2. Goes \/ Stops(None)
      BY <1>0, <1>1, <2>2, <3>1, ContinueCases, LevelFacts
    <3>3. open = "up" /\ subscribed' = TRUE
      BY <1>0, <1>1, <2>1 DEF Waits
    <3>4. inbox = <<>> /\ outbox' = <<>>
      BY <2>1 DEF Quiet
    <3>. QED
      BY <1>0, <3>2, <3>3, <3>4, AdvanceAlone, LevelFacts
  <2>3. CASE call.by # "run"
    <3>1. call' = NoCall /\ Refused /\ UNCHANGED <<run, outcome>>
      BY <1>11, <2>3 DEF TimeOut
    <3>2. Waits'
      BY <1>0, <2>1, <3>1 DEF Waits, Quiet, Refused
    <3>. QED
      BY <1>3, <1>5, <2>1, <3>1, <3>2 DEF Refused
  <2>. QED
    BY <2>2, <2>3
<1>12. CASE LinkDrops
  <2>1. /\ open' = "down" /\ inbox' = <<>> /\ outbox' = <<>> /\ subscribed' = FALSE
        /\ call' = NoCall
    BY <1>12 DEF LinkDrops
  <2>2. OneOut' /\ Waits'
    BY <2>1 DEF OneOut, Waits, Quiet
  <2>3. CASE call.by # "run"
    <3>1. UNCHANGED outcome
      BY <1>12, <2>3 DEF LinkDrops
    <3>. QED
      BY <1>5, <2>2, <3>1
  <2>4. CASE call.by = "run"
    <3>1. Concluded(IF run.baseline = None THEN "failed" ELSE "restore-failed", run.baseline)
      BY <1>12, <2>4 DEF LinkDrops
    <3>2. outcome'.status = "restore-failed" \/ outcome'.baseline = None
      BY <3>1 DEF Concluded
    <3>. QED
      BY <1>4, <2>2, <3>2
  <2>. QED
    BY <2>3, <2>4
<1>13. CASE LinkOpens
  <2>1. open = "down" /\ UNCHANGED <<subscribed, brightness, inbox, outbox, call, run, outcome>>
    BY <1>13 DEF LinkOpens
  <2>2. call = NoCall
    BY <1>0, <2>1 DEF Waits
  <2>3. Waits'
    BY <1>0, <1>1, <2>1, <2>2 DEF Waits, Quiet
  <2>. QED
    BY <1>3, <1>5, <2>1, <2>3
<1>14. CASE UNCHANGED diagnosticsVars
  <2>1. Waits'
    BY <1>0, <1>14 DEF diagnosticsVars, Waits, Quiet
  <2>. QED
    BY <1>3, <1>5, <1>14, <2>1 DEF diagnosticsVars
<1>. QED
  BY <1>6, <1>7, <1>8, <1>9, <1>10, <1>11, <1>12, <1>13, <1>14 DEF DiagnosticsNext

\* For any levels, connections, runs and commands of the user, whichever writes, commands or
\* answers are lost and wherever the link goes: a brightness run that does not report a failed
\* restoration left the display at the brightness it found (the finally of runDiagnostic).  The
\* assumption is the limit of the code: it recognizes a response by its kind alone, so an
\* answer that outlived the time-out of its own command is taken for the next one's.
THEOREM RestoredRunsAlwaysRestore ==
  ASSUME ~Late PROVE DiagnosticsSpec => []RestoredRunsRestore
<1>1. DiagnosticsInit => Restores
  <2>. SUFFICES ASSUME DiagnosticsInit PROVE Restores
    OBVIOUS
  <2>1. /\ open = "down" /\ inbox = <<>> /\ outbox = <<>> /\ call = NoCall /\ run = NoRun
        /\ outcome = NoOutcome
    BY DEF DiagnosticsInit
  <2>2. OneOut /\ Waits /\ RestoredRunsRestore
    BY <2>1 DEF OneOut, Waits, RestoredRunsRestore, Quiet, NoRun, NoOutcome
  <2>. QED
    BY <2>2, DiagnosticsTypeStart DEF Restores
<1>2. Restores /\ [DiagnosticsNext]_diagnosticsVars => Restores'
  BY DiagnosticsTypeStep, RestoresStep DEF Restores
<1>3. Restores => RestoredRunsRestore
  BY DEF Restores
<1>. QED
  BY <1>1, <1>2, <1>3, PTL DEF DiagnosticsSpec

------------------------------------------------------------------------------
(* Recursion and induction.                                                *)

\* The least number of a set of them.
LEMMA LeastNatural ==
  ASSUME NEW S \in SUBSET Nat, S # {}
  PROVE  \E n \in S : \A m \in S : n <= m
<1>. DEFINE family == {0 .. n : n \in S}
<1>1. IsWellFoundedOn(StrictSubsetOrdering(Nat), FiniteSubsetsOf(Nat))
  BY FS_StrictSubsetOrderingWellFounded
<1>2. family # {} /\ family \subseteq FiniteSubsetsOf(Nat)
  <2>1. ASSUME NEW n \in S PROVE 0 .. n \in FiniteSubsetsOf(Nat)
    <3>1. IsFiniteSet(0 .. n)
      BY FS_Interval
    <3>. QED
      BY <3>1 DEF FiniteSubsetsOf
  <2>. QED
    BY <2>1
<1>. HIDE DEF family
<1>3. PICK x \in family : \A y \in family : <<y, x>> \notin StrictSubsetOrdering(Nat)
  BY <1>1, <1>2, WFMin
<1>4. PICK n \in S : x = 0 .. n
  BY <1>3 DEF family
<1>5. ASSUME NEW m \in S, m < n PROVE FALSE
  <2>1. 0 .. m \in family
    BY DEF family
  <2>2. 0 .. m \subseteq 0 .. n /\ n \in 0 .. n /\ n \notin 0 .. m
    BY <1>5
  <2>3. <<0 .. m, x>> \in StrictSubsetOrdering(Nat)
    BY <1>4, <2>2 DEF StrictSubsetOrdering
  <2>. QED
    BY <1>3, <2>1, <2>3
<1>. QED
  BY <1>5

\* Induction, over a set instead of a predicate.
LEMMA SetInduction ==
  ASSUME NEW S, 0 \in S, \A n \in Nat : n \in S => n + 1 \in S
  PROVE  Nat \subseteq S
<1>. DEFINE rest == Nat \ S
<1>. SUFFICES ASSUME rest # {} PROVE FALSE
  OBVIOUS
<1>1. PICK n \in rest : \A m \in rest : n <= m
  <2>1. rest \in SUBSET Nat
    OBVIOUS
  <2>. HIDE DEF rest
  <2>. QED
    BY <2>1, LeastNatural
<1>2. n \in Nat /\ n # 0 /\ n - 1 \in Nat /\ (n - 1) + 1 = n
  BY <1>1
<1>3. n - 1 \in S
  BY <1>1, <1>2
<1>. QED
  BY <1>1, <1>2, <1>3

\* What is defined step by step up to a number exists.
StepsOn(n, D, step) == step \in [1 .. n -> [D -> D]]
Iterates(g, n, D, d, step) ==
  g \in [0 .. n -> D] /\ g[0] = d /\ \A k \in 1 .. n : g[k] = step[k][g[k - 1]]
\* A recursive function on numbers exists when every step stays within a set.
LEMMA RecursionExists ==
  ASSUME NEW n \in Nat, NEW D, NEW d \in D, NEW step, StepsOn(n, D, step)
  PROVE  \E g : Iterates(g, n, D, d, step)
<1>. DEFINE Upto(m, g) == g[0] = d /\ \A k \in 1 .. m : g[k] = step[k][g[k - 1]]
            S == {m \in Nat : m <= n => \E g \in [0 .. m -> D] : Upto(m, g)}
<1>1. 0 \in S
  <2>1. [k \in 0 .. 0 |-> d] \in [0 .. 0 -> D] /\ Upto(0, [k \in 0 .. 0 |-> d])
    OBVIOUS
  <2>. QED
    BY <2>1
<1>2. ASSUME NEW m \in Nat, m \in S PROVE m + 1 \in S
  <2>. SUFFICES ASSUME m + 1 <= n PROVE \E g \in [0 .. m + 1 -> D] : Upto(m + 1, g)
    OBVIOUS
  <2>1. PICK g \in [0 .. m -> D] : Upto(m, g)
    BY <1>2
  <2>. DEFINE h == [k \in 0 .. m + 1 |-> IF k <= m THEN g[k] ELSE step[m + 1][g[m]]]
  <2>2. g[m] \in D /\ m + 1 \in 1 .. n /\ step[m + 1][g[m]] \in D
    BY <2>1 DEF StepsOn
  <2>3. h \in [0 .. m + 1 -> D]
    BY <2>1, <2>2
  <2>4. Upto(m + 1, h)
    <3>1. h[0] = d
      BY <2>1
    <3>2. ASSUME NEW k \in 1 .. m + 1 PROVE h[k] = step[k][h[k - 1]]
      <4>1. CASE k <= m
        <5>1. k \in 1 .. m /\ h[k] = g[k] /\ h[k - 1] = g[k - 1]
          BY <4>1
        <5>. QED
          BY <5>1, <2>1
      <4>2. CASE k = m + 1
        BY <4>2
      <4>. QED
        BY <4>1, <4>2
    <3>. QED
      BY <3>1, <3>2
  <2>. QED
    BY <2>3, <2>4
<1>3. Nat \subseteq S
  <2>. HIDE DEF S
  <2>. QED
    BY <1>1, <1>2, SetInduction
<1>4. PICK g \in [0 .. n -> D] : Upto(n, g)
  <2>1. n \in S
    BY <1>3
  <2>. QED
    BY <2>1
<1>. QED
  BY <1>4 DEF Iterates

\* The equation that defines the concatenation of the first lists.
Concatenates(g, seqs) ==
  g = [i \in 1 .. Len(seqs) |-> IF i = 1 THEN seqs[i] ELSE g[i - 1] \o seqs[i]]

LEMMA Beyond ==
  \A a, b \in Nat : \A j \in 1 .. b :
    a + j \in 1 .. a + b /\ ~(a + j <= a) /\ (a + j) - a = j
OBVIOUS
LEMMA Within == \A a, b \in Nat : \A p \in 1 .. a : p \in 1 .. a + b
OBVIOUS

\* FlattenSeq is the last value of the recursion Concatenates describes.
LEMMA FlattenSeqDef ==
  ASSUME NEW seqs, Len(seqs) # 0
  PROVE  FlattenSeq(seqs) = (CHOOSE g : Concatenates(g, seqs))[Len(seqs)]
BY DEF FlattenSeq, Concatenates

\* For sequences over a set, that recursion has a solution.
LEMMA ConcatenationExists ==
  ASSUME NEW A, NEW seqs \in Seq(Seq(A))
  PROVE  \E g : Concatenates(g, seqs)
<1>. DEFINE n == Len(seqs)
            step == [k \in 1 .. n |-> [x \in Seq(A) |-> IF k = 1 THEN seqs[k] ELSE x \o seqs[k]]]
<1>1. step \in [1 .. n -> [Seq(A) -> Seq(A)]]
  OBVIOUS
<1>2. n \in Nat /\ <<>> \in Seq(A)
  OBVIOUS
<1>3. PICK g : Iterates(g, n, Seq(A), <<>>, step)
  <2>1. StepsOn(n, Seq(A), step)
    BY <1>1 DEF StepsOn
  <2>. HIDE DEF step, n
  <2>. QED
    BY <1>2, <2>1, RecursionExists
<1>. DEFINE h == [i \in 1 .. n |-> g[i]]
<1>4. \A i \in 1 .. n : h[i] = IF i = 1 THEN seqs[i] ELSE h[i - 1] \o seqs[i]
  <2>. SUFFICES ASSUME NEW i \in 1 .. n
                PROVE  h[i] = IF i = 1 THEN seqs[i] ELSE h[i - 1] \o seqs[i]
    OBVIOUS
  <2>0. i - 1 \in 0 .. n /\ (i # 1 => i - 1 \in 1 .. n)
    BY <1>2
  <2>1. g[i - 1] \in Seq(A) /\ (i # 1 => h[i - 1] = g[i - 1]) /\ h[i] = g[i]
    BY <1>3, <2>0 DEF Iterates
  <2>2. g[i] = IF i = 1 THEN seqs[i] ELSE g[i - 1] \o seqs[i]
    BY <1>3, <2>0, <2>1 DEF Iterates
  <2>. QED
    BY <2>1, <2>2
<1>5. Concatenates(h, seqs)
  BY <1>4 DEF Concatenates
<1>. QED
  BY <1>5

\* Where the lists begin in their concatenation, and that it consists of them.
Begins(off, seqs) ==
  /\ off \in [1 .. Len(seqs) + 1 -> Nat] /\ off[1] = 0
  /\ \A i \in 1 .. Len(seqs) : off[i + 1] = off[i] + Len(seqs[i])
\* What is joined follows one another: each part begins where the ones before it end.
LEMMA FlattenFacts ==
  ASSUME NEW A, NEW seqs \in Seq(Seq(A))
  PROVE  /\ FlattenSeq(seqs) \in Seq(A)
         /\ \E off : /\ Begins(off, seqs) /\ Len(FlattenSeq(seqs)) = off[Len(seqs) + 1]
                     /\ \A i \in 1 .. Len(seqs), j \in Nat : j \in 1 .. Len(seqs[i]) =>
                          FlattenSeq(seqs)[off[i] + j] = seqs[i][j]
<1>. DEFINE n == Len(seqs)
<1>0. n \in Nat /\ \A i \in 1 .. n : seqs[i] \in Seq(A) /\ Len(seqs[i]) \in Nat
  OBVIOUS
<1>1. CASE n = 0
  <2>1. seqs = <<>>
    BY <1>1, EmptySeq
  <2>2. FlattenSeq(seqs) = <<>>
    BY <2>1, <1>1 DEF FlattenSeq
  <2>. DEFINE off == [i \in 1 .. Len(seqs) + 1 |-> 0]
  <2>3. /\ off \in [1 .. Len(seqs) + 1 -> Nat] /\ off[1] = 0 /\ off[Len(seqs) + 1] = 0
        /\ 1 .. Len(seqs) = {}
    BY <1>1
  <2>. HIDE DEF off
  <2>4. Begins(off, seqs)
    BY <2>3 DEF Begins
  <2>5. Len(FlattenSeq(seqs)) = off[Len(seqs) + 1] /\ FlattenSeq(seqs) \in Seq(A)
    BY <2>2, <2>3
  <2>6. \A i \in 1 .. Len(seqs), j \in Nat : FALSE
    BY <2>3
  <2>. QED
    BY <2>4, <2>5, <2>6
<1>2. CASE n # 0
  <2>. DEFINE g == CHOOSE f : Concatenates(f, seqs)
  <2>1. Concatenates(g, seqs)
    BY ConcatenationExists
  <2>2. FlattenSeq(seqs) = g[n]
    BY <1>2, FlattenSeqDef
  <2>. HIDE DEF g
  <2>3. \A i \in 1 .. n : g[i] = IF i = 1 THEN seqs[i] ELSE g[i - 1] \o seqs[i]
    BY <2>1 DEF Concatenates
  <2>. DEFINE T == {i \in Nat : i \in 1 .. n => g[i] \in Seq(A)}
  <2>4. \A i \in 1 .. n : g[i] \in Seq(A)
    <3>1. 0 \in T
      OBVIOUS
    <3>2. ASSUME NEW i \in Nat, i \in T PROVE i + 1 \in T
      <4>. SUFFICES ASSUME i + 1 \in 1 .. n PROVE g[i + 1] \in Seq(A)
        OBVIOUS
      <4>1. g[i + 1] = IF i = 0 THEN seqs[i + 1] ELSE g[i] \o seqs[i + 1]
        BY <2>3
      <4>2. i # 0 => g[i] \in Seq(A)
        BY <3>2, <1>0
      <4>3. seqs[i + 1] \in Seq(A)
        BY <1>0
      <4>4. i # 0 => g[i] \o seqs[i + 1] \in Seq(A)
        BY <4>2, <4>3
      <4>. QED
        BY <4>1, <4>3, <4>4
    <3>3. Nat \subseteq T
      <4>. HIDE DEF T
      <4>. QED
        BY <3>1, <3>2, SetInduction
    <3>. QED
      BY <3>3
  <2>. DEFINE off == [i \in 1 .. n + 1 |-> IF i = 1 THEN 0 ELSE Len(g[i - 1])]
  <2>5. \A i \in 1 .. n : /\ off[i + 1] = Len(g[i]) /\ off[i + 1] = off[i] + Len(seqs[i])
                         /\ \A j \in 1 .. Len(seqs[i]) : g[i][off[i] + j] = seqs[i][j]
    <3>. SUFFICES ASSUME NEW i \in 1 .. n
                  PROVE  /\ off[i + 1] = Len(g[i]) /\ off[i + 1] = off[i] + Len(seqs[i])
                         /\ \A j \in 1 .. Len(seqs[i]) : g[i][off[i] + j] = seqs[i][j]
      OBVIOUS
    <3>1. off[i + 1] = Len(g[i])
      BY <1>0
    <3>2. CASE i = 1
      BY <3>1, <3>2, <2>3, <1>0
    <3>3. CASE i # 1
      <4>1. /\ off[i] = Len(g[i - 1]) /\ g[i - 1] \in Seq(A) /\ seqs[i] \in Seq(A)
            /\ g[i] = g[i - 1] \o seqs[i]
        <5>1. i - 1 \in 1 .. n /\ i \in 1 .. n + 1
          BY <3>3, <1>0
        <5>. QED
          BY <5>1, <3>3, <2>3, <2>4, <1>0
      <4>. HIDE DEF off
      <4>2. /\ Len(g[i]) = Len(g[i - 1]) + Len(seqs[i])
            /\ \A p \in 1 .. Len(g[i - 1]) + Len(seqs[i]) :
                 g[i][p] = IF p <= Len(g[i - 1]) THEN g[i - 1][p] ELSE seqs[i][p - Len(g[i - 1])]
        <5>. DEFINE s == g[i - 1]
                    t == seqs[i]
        <5>1. s \in Seq(A) /\ t \in Seq(A) /\ g[i] = s \o t
          BY <4>1
        <5>. HIDE DEF s, t
        <5>2. /\ Len(s \o t) = Len(s) + Len(t)
              /\ \A p \in 1 .. Len(s) + Len(t) : (s \o t)[p] = IF p <= Len(s) THEN s[p] ELSE t[p - Len(s)]
          BY <5>1, ConcatProperties
        <5>. QED
          BY <5>1, <5>2 DEF s, t
      <4>3. ASSUME NEW j \in 1 .. Len(seqs[i]) PROVE g[i][off[i] + j] = seqs[i][j]
        <5>. DEFINE p == Len(g[i - 1]) + j
        <5>1. Len(g[i - 1]) \in Nat /\ Len(seqs[i]) \in Nat
          BY <4>1
        <5>2. p \in 1 .. Len(g[i - 1]) + Len(seqs[i]) /\ ~(p <= Len(g[i - 1])) /\ p - Len(g[i - 1]) = j
          BY <4>3, <5>1, Beyond
        <5>. QED
          BY <4>1, <4>2, <5>2
      <4>. QED
        BY <3>1, <4>1, <4>2, <4>3
    <3>. QED
      BY <3>2, <3>3
  <2>6. \A i \in 1 .. n : off[i] \in Nat /\ off[i + 1] \in Nat
    BY <1>0, <2>4, <2>5
  <2>7. Begins(off, seqs)
    <3>1. off \in [1 .. n + 1 -> Nat]
      BY <2>4, <1>0
    <3>2. off[1] = 0
      BY <1>0
    <3>3. \A i \in 1 .. n : off[i + 1] = off[i] + Len(seqs[i])
      BY <2>5
    <3>. HIDE DEF off
    <3>. QED
      BY <3>1, <3>2, <3>3 DEF Begins
  <2>. HIDE DEF off
  \* What was concatenated first stays where it is.
  <2>. DEFINE Prefix(i, m) == \A p \in 1 .. Len(g[i]) : m \in i .. n =>
                                p \in 1 .. Len(g[m]) /\ g[m][p] = g[i][p]
              P == {m \in Nat : \A i \in 1 .. n : Prefix(i, m)}
  <2>8. \A i \in 1 .. n : Prefix(i, n)
    <3>1. 0 \in P
      BY <1>0
    <3>2. ASSUME NEW m \in Nat, m \in P PROVE m + 1 \in P
      <4>. SUFFICES ASSUME NEW i \in 1 .. n, NEW p \in 1 .. Len(g[i]), m + 1 \in i .. n
                    PROVE  p \in 1 .. Len(g[m + 1]) /\ g[m + 1][p] = g[i][p]
        OBVIOUS
      <4>1. CASE i = m + 1
        BY <4>1
      <4>2. CASE i # m + 1
        <5>1. m \in i .. n /\ m \in 1 .. n /\ m + 1 \in 1 .. n /\ m + 1 # 1 /\ (m + 1) - 1 = m
          BY <4>2, <1>0
        <5>2. p \in 1 .. Len(g[m]) /\ g[m][p] = g[i][p]
          BY <3>2, <5>1
        <5>3. g[m + 1] = g[m] \o seqs[m + 1] /\ g[m] \in Seq(A) /\ seqs[m + 1] \in Seq(A)
          BY <5>1, <2>3, <2>4, <1>0
        <5>4. Len(g[m]) \in Nat /\ Len(seqs[m + 1]) \in Nat
          BY <5>3
        <5>5. /\ Len(g[m + 1]) = Len(g[m]) + Len(seqs[m + 1])
              /\ g[m + 1][p] = g[m][p]
          <6>. DEFINE s == g[m]
                      t == seqs[m + 1]
          <6>1. /\ s \in Seq(A) /\ t \in Seq(A) /\ g[m + 1] = s \o t
                /\ p \in 1 .. Len(s) /\ Len(s) \in Nat /\ Len(t) \in Nat
            BY <5>2, <5>3, <5>4
          <6>. HIDE DEF s, t
          <6>2. Len(s \o t) = Len(s) + Len(t) /\ (s \o t)[p] = s[p]
            BY <6>1, ConcatProperties
          <6>. QED
            BY <6>1, <6>2 DEF s, t
        <5>6. p \in 1 .. Len(g[m + 1])
          BY <5>2, <5>4, <5>5, Within
        <5>. QED
          BY <5>2, <5>5, <5>6
      <4>. QED
        BY <4>1, <4>2
    <3>3. Nat \subseteq P
      <4>. HIDE DEF P
      <4>. QED
        BY <3>1, <3>2, SetInduction
    <3>. QED
      BY <3>3, <1>0
  <2>9. ASSUME NEW i \in 1 .. n, NEW j \in Nat, j \in 1 .. Len(seqs[i])
        PROVE  g[n][off[i] + j] = seqs[i][j]
    <3>1. off[i] + j \in 1 .. Len(g[i]) /\ n \in i .. n
      BY <2>5, <2>6, <2>9, <1>0
    <3>. QED
      BY <3>1, <2>5, <2>8, <2>9
  <2>10. g[n] \in Seq(A) /\ Len(g[n]) = off[n + 1]
    BY <2>4, <2>5, <1>0, <1>2
  <2>. QED
    BY <2>2, <2>7, <2>9, <2>10
<1>. QED
  BY <1>1, <1>2

------------------------------------------------------------------------------
(* Programs and packets are lists.                                         *)

AList(s) == \E n \in Int : s = [i \in 1 .. n |-> s[i]]

\* Lists need not have a set their elements are taken from.
LEMMA ListFacts ==
  ASSUME NEW s, AList(s)
  PROVE  /\ s \in Seq({s[i] : i \in DOMAIN s})
         /\ Len(s) \in Nat /\ DOMAIN s = 1 .. Len(s)
<1>1. PICK n \in Int : s = [i \in 1 .. n |-> s[i]]
  BY DEF AList
<1>. DEFINE m == IF n > 0 THEN n ELSE 0
            R == {s[i] : i \in DOMAIN s}
<1>2. m \in Nat /\ 1 .. n = 1 .. m
  BY <1>1
<1>3. DOMAIN s = 1 .. m
  BY <1>1, <1>2
<1>4. s \in [1 .. m -> R]
  BY <1>1, <1>2, <1>3
<1>. HIDE DEF m, R
<1>5. s \in Seq(R)
  BY <1>2, <1>4
<1>. QED
  BY <1>5 DEF R

LEMMA SequencesAreLists == ASSUME NEW A, NEW s \in Seq(A) PROVE AList(s)
<1>1. Len(s) \in Int /\ s = [i \in 1 .. Len(s) |-> s[i]]
  OBVIOUS
<1>. QED
  BY <1>1 DEF AList

LEMMA JoinedLists == ASSUME NEW s, NEW t, AList(s), AList(t) PROVE AList(s \o t)
<1>. DEFINE A == {s[i] : i \in DOMAIN s}
            B == {t[i] : i \in DOMAIN t}
            C == A \cup B
<1>1. s \in Seq(A) /\ t \in Seq(B)
  BY ListFacts
<1>. HIDE DEF A, B
<1>2. s \in Seq(C) /\ t \in Seq(C)
  BY <1>1
<1>. HIDE DEF C
<1>3. s \o t \in Seq(C)
  BY <1>2
<1>. QED
  BY <1>3, SequencesAreLists

\* Lists of lists are joined to a list.
LEMMA FlattenedLists ==
  ASSUME NEW seqs, AList(seqs), \A i \in DOMAIN seqs : AList(seqs[i])
  PROVE  AList(FlattenSeq(seqs))
<1>. DEFINE A == UNION {{seqs[i][j] : j \in DOMAIN seqs[i]} : i \in DOMAIN seqs}
<1>1. \A i \in DOMAIN seqs : seqs[i] \in Seq(A)
  <2>. SUFFICES ASSUME NEW i \in DOMAIN seqs PROVE seqs[i] \in Seq(A)
    OBVIOUS
  <2>. DEFINE R == {seqs[i][j] : j \in DOMAIN seqs[i]}
  <2>1. seqs[i] \in Seq(R)
    BY ListFacts
  <2>2. R \subseteq A
    OBVIOUS
  <2>. HIDE DEF R, A
  <2>. QED
    BY <2>1, <2>2
<1>. HIDE DEF A
<1>2. Len(seqs) \in Nat /\ DOMAIN seqs = 1 .. Len(seqs) /\ seqs \in Seq({seqs[i] : i \in DOMAIN seqs})
  BY ListFacts
<1>3. seqs \in Seq(Seq(A))
  BY <1>1, <1>2
<1>4. FlattenSeq(seqs) \in Seq(A)
  BY <1>3, FlattenFacts
<1>. QED
  BY <1>4, SequencesAreLists

\* A program is announced, then its chunks follow, numbered from zero.
Numbered(packets) ==
  /\ Len(packets) \in Nat \ {0} /\ DOMAIN packets = 1 .. Len(packets)
  /\ packets[1].type = "announce"
  /\ \A i \in 2 .. Len(packets) : packets[i].type = "chunk" /\ packets[i].index = i - 2

\* The chunks of every compiled program are numbered from zero in the order of its packets.
LEMMA CompiledIsNumbered ==
  ASSUME NEW segments, AList(segments), \A t \in DOMAIN segments : AList(segments[t])
  PROVE  Numbered(compileProgram(segments))
<1>. DEFINE program == buildProgram(segments)
            codes == lzssCompressSafe(program)
            chunks == buildDataChunkPackets(codes)
            head == <<[type |-> "announce", program |-> program]>>
<1>1. AList(program)
  <2>1. AList(<<<<"program", Len(segments)>>>>)
    <3>1. <<<<"program", Len(segments)>>>> \in Seq({<<"program", Len(segments)>>})
      OBVIOUS
    <3>. QED
      BY <3>1, SequencesAreLists
  <2>. QED
    BY <2>1, FlattenedLists, JoinedLists DEF buildProgram
<1>2. AList(codes)
  <2>1. Len(program) \in Int
    BY <1>1, ListFacts
  <2>2. codes = [i \in 1 .. Len(program) |-> Literal(program[i])]
    BY DEF lzssCompressSafe
  <2>. HIDE DEF codes, program
  <2>3. codes = [i \in 1 .. Len(program) |-> codes[i]]
    BY <2>2
  <2>. QED
    BY <2>1, <2>3 DEF AList
<1>. HIDE DEF codes
<1>3. /\ AList(chunks)
      /\ \A i \in DOMAIN chunks : chunks[i].type = "chunk" /\ chunks[i].index = i - 1
  <2>. DEFINE n == (Len(codes) + ChunkSize - 1) \div ChunkSize
              pieces == Pieces(codes)
  <2>1. n \in Int
    <3>1. Len(codes) + ChunkSize - 1 \in Int /\ ChunkSize \in Nat \ {0}
      BY <1>2, ListFacts, UploadAssumption
    <3>. QED
      BY <3>1
  <2>2. DOMAIN pieces = 1 .. n
    BY DEF Pieces
  <2>3. chunks = [i \in DOMAIN pieces |-> [type |-> "chunk", total |-> Len(codes), index |-> i - 1,
                                          data |-> pieces[i]]]
    BY DEF buildDataChunkPackets
  <2>. HIDE DEF chunks, pieces, n
  <2>4. chunks = [i \in 1 .. n |-> chunks[i]]
    BY <2>2, <2>3
  <2>. QED
    BY <2>1, <2>3, <2>4 DEF AList
<1>4. compileProgram(segments) = head \o chunks
  BY DEF compileProgram, codes
<1>5. head = <<head[1]>> /\ head[1].type = "announce" /\ head \in Seq({head[1]}) /\ Len(head) = 1
  OBVIOUS
<1>. HIDE DEF chunks, head, program
<1>. DEFINE A == {head[1]} \cup {chunks[i] : i \in DOMAIN chunks}
<1>6. /\ chunks \in Seq({chunks[i] : i \in DOMAIN chunks}) /\ Len(chunks) \in Nat
      /\ DOMAIN chunks = 1 .. Len(chunks)
  BY <1>3, ListFacts
<1>7. head \in Seq(A) /\ chunks \in Seq(A)
  BY <1>5, <1>6
<1>. HIDE DEF A
<1>8. /\ Len(head \o chunks) = 1 + Len(chunks)
      /\ DOMAIN (head \o chunks) = 1 .. 1 + Len(chunks)
      /\ (head \o chunks)[1] = head[1]
      /\ \A i \in 2 .. 1 + Len(chunks) : (head \o chunks)[i] = chunks[i - 1]
  <2>1. head \o chunks \in Seq(A)
    BY <1>7
  <2>2. Len(head \o chunks) = 1 + Len(chunks)
    BY <1>5, <1>6, <1>7, ConcatProperties
  <2>3. \A i \in 1 .. 1 + Len(chunks) :
          (head \o chunks)[i] = IF i <= 1 THEN head[i] ELSE chunks[i - 1]
    BY <1>5, <1>6, <1>7, ConcatProperties
  <2>. QED
    BY <2>1, <2>2, <2>3, <1>6
<1>9. \A i \in 2 .. 1 + Len(chunks) : i - 1 \in DOMAIN chunks /\ (i - 1) - 1 = i - 2
  BY <1>6
<1>. QED
  BY <1>3, <1>4, <1>5, <1>6, <1>8, <1>9 DEF Numbered

Indexed(s) == \E n \in Int : DOMAIN s = 1 .. n

LEMMA SegmentIsList ==
  ASSUME NEW kind, NEW tile, NEW frames, Indexed(frames),
         \A f \in DOMAIN frames : Indexed(frames[f])
  PROVE  AList(segment(kind, tile, frames))
<1>. DEFINE head == <<<<"segment", [kind |-> kind, tile |-> tile, frames |-> Len(frames)]>>>>
            words(f) == [i \in DOMAIN frames[f] |-> <<"word", frames[f][i]>>]
            all == [f \in DOMAIN frames |-> words(f)]
<1>1. \A f \in DOMAIN frames : AList(words(f))
  <2>. SUFFICES ASSUME NEW f \in DOMAIN frames PROVE AList(words(f))
    OBVIOUS
  <2>1. PICK n \in Int : DOMAIN frames[f] = 1 .. n
    BY DEF Indexed
  <2>2. words(f) = [i \in 1 .. n |-> words(f)[i]]
    BY <2>1
  <2>. QED
    BY <2>2 DEF AList
<1>2. AList(all)
  <2>1. PICK n \in Int : DOMAIN frames = 1 .. n
    BY DEF Indexed
  <2>. HIDE DEF words
  <2>2. all = [f \in 1 .. n |-> all[f]]
    BY <2>1
  <2>. HIDE DEF all
  <2>. QED
    BY <2>2 DEF AList
<1>3. AList(head)
  <2>1. head \in Seq({head[1]})
    OBVIOUS
  <2>. HIDE DEF head
  <2>. QED
    BY <2>1, SequencesAreLists
<1>4. segment(kind, tile, frames) = head \o FlattenSeq(all)
  BY DEF segment
<1>5. \A f \in DOMAIN all : AList(all[f])
  <2>. HIDE DEF words
  <2>. QED
    BY <1>1
<1>. HIDE DEF head, all
<1>. QED
  BY <1>2, <1>3, <1>4, <1>5, FlattenedLists, JoinedLists

LEMMA TilesAreTiles ==
  /\ Indexed(tileColumns(Width))
  /\ \A t \in DOMAIN tileColumns(Width) : tileColumns(Width)[t].width \in Int
<1>. DEFINE n == (Width + TileWidth - 1) \div TileWidth
<1>1. Width \in Int /\ TileWidth \in Nat \ {0} /\ Width + TileWidth - 1 \in Int
  BY UploadAssumption
<1>2. n \in Int
  BY <1>1
<1>3. /\ DOMAIN tileColumns(Width) = 1 .. n
      /\ \A i \in 1 .. n :
           tileColumns(Width)[i].width = IF i * TileWidth <= Width THEN TileWidth
                                         ELSE Width - (i - 1) * TileWidth
  BY DEF tileColumns
<1>. HIDE DEF n
<1>4. \A i \in 1 .. n : (i - 1) * TileWidth \in Int
  BY <1>1, <1>2
<1>5. \A i \in 1 .. n : Width - (i - 1) * TileWidth \in Int
  BY <1>1, <1>4
<1>. QED
  BY <1>1, <1>2, <1>3, <1>5 DEF Indexed

LEMMA TiledIsNumbered ==
  ASSUME NEW kind, NEW frames, NEW off, Indexed(frames)
  PROVE  Numbered(Tiled(kind, frames, off))
<1>. DEFINE tiles == tileColumns(Width)
            encoded(frame, tile) == IF off = Raw THEN encodeRawWordRegion(frame, tile)
                                    ELSE encodeFrameRegion(frame, tile, off)
            of(t) == [f \in DOMAIN frames |-> encoded(frames[f], tiles[t])]
            segments == [t \in DOMAIN tiles |-> segment(kind, tiles[t], of(t))]
<1>1. \A frame, t : t \in DOMAIN tiles => Indexed(encoded(frame, tiles[t]))
  <2>. SUFFICES ASSUME NEW frame, NEW t \in DOMAIN tiles
                PROVE  Indexed(encoded(frame, tiles[t]))
    OBVIOUS
  <2>. DEFINE size == tiles[t].width * Height
  <2>1. size \in Int
    <3>1. tiles[t].width \in Int /\ Height \in Int
      BY TilesAreTiles, UploadAssumption
    <3>. QED
      BY <3>1
  <2>2. DOMAIN ColumnMajor(tiles[t].start, tiles[t].width) = 1 .. size
    BY DEF ColumnMajor
  <2>3. DOMAIN encoded(frame, tiles[t]) = 1 .. size
    BY <2>2 DEF encodeRawWordRegion, encodeFrameRegion
  <2>. HIDE DEF encoded, size
  <2>. QED
    BY <2>1, <2>3 DEF Indexed
<1>2. Tiled(kind, frames, off) = compileProgram(segments)
  BY DEF Tiled
<1>. HIDE DEF encoded
<1>3. \A t \in DOMAIN tiles : AList(segments[t])
  <2>. SUFFICES ASSUME NEW t \in DOMAIN tiles PROVE AList(segment(kind, tiles[t], of(t)))
    OBVIOUS
  <2>1. DOMAIN of(t) = DOMAIN frames /\ \A f \in DOMAIN frames : of(t)[f] = encoded(frames[f], tiles[t])
    OBVIOUS
  <2>. HIDE DEF of, tiles
  <2>2. Indexed(of(t)) /\ \A f \in DOMAIN of(t) : Indexed(of(t)[f])
    BY <1>1, <2>1 DEF Indexed
  <2>. QED
    BY <2>2, SegmentIsList
<1>4. AList(segments) /\ DOMAIN segments = DOMAIN tiles
  <2>1. PICK n \in Int : DOMAIN tiles = 1 .. n
    BY TilesAreTiles DEF Indexed
  <2>. HIDE DEF tiles, of
  <2>2. segments = [t \in 1 .. n |-> segments[t]]
    BY <2>1
  <2>3. DOMAIN segments = DOMAIN tiles
    OBVIOUS
  <2>. HIDE DEF segments
  <2>. QED
    BY <2>2, <2>3 DEF AList
<1>. HIDE DEF segments, tiles
<1>. QED
  BY <1>2, <1>3, <1>4, CompiledIsNumbered

Behaviour == [strategy : Strategies \cup {"none"}, black : Blacks \cup {"none"}]

\* So are those of every plan that is sent.
LEMMA PlansAreNumbered ==
  ASSUME NEW content \in Contents, device.driver = "coolledux",
         known \in Behaviour, learned \in Behaviour
  PROVE  Numbered(PacketsOf(content))
<1>1. /\ content.type \in {"ShowFrame", "ShowAnimation", "ShowDiagnostic", "ShowGif"}
      /\ Indexed(content.frames)
      /\ content.type = "ShowGif" => \A f \in DOMAIN content.frames : Indexed(content.frames[f])
  BY UploadAssumption DEF IsList, Indexed
<1>2. CASE content.type = "ShowFrame"
  <2>. DEFINE frame == content.frames[1]
  <2>1. Indexed(<<frame>>) /\ Indexed(<<frame, frame>>)
    <3>1. DOMAIN <<frame>> = 1 .. 1 /\ DOMAIN <<frame, frame>> = 1 .. 2
      OBVIOUS
    <3>. QED
      BY <3>1 DEF Indexed
  <2>2. PacketsOf(content) = compileStaticRaster(frame)
    BY <1>2 DEF PacketsOf
  <2>. HIDE DEF frame
  <2>3. selectStaticStrategy \in Strategies
    BY DEF selectStaticStrategy, Behaviour, Strategies
  <2>4. \/ compileStaticRaster(frame) = compileGraffitiFrame(frame, graffitiBlackFor)
        \/ compileStaticRaster(frame) = compileAnimation(<<frame>>)
        \/ compileStaticRaster(frame) = compileAnimation(<<frame, frame>>)
    BY <2>3 DEF compileStaticRaster, Strategies
  <2>. QED
    BY <2>1, <2>2, <2>4, TiledIsNumbered DEF compileGraffitiFrame, compileAnimation
<1>3. CASE content.type = "ShowAnimation"
  <2>1. PacketsOf(content) = compileAnimation(content.frames)
    BY <1>3 DEF PacketsOf
  <2>. QED
    BY <1>1, <2>1, TiledIsNumbered DEF compileAnimation
<1>4. CASE content.type = "ShowDiagnostic"
  <2>1. PacketsOf(content) = compileRawWords(content.kind, content.frames)
    BY <1>4 DEF PacketsOf
  <2>. QED
    BY <1>1, <2>1, TiledIsNumbered DEF compileRawWords
<1>5. CASE content.type = "ShowGif"
  <2>. DEFINE only == segment("gif", [start |-> 0, width |-> content.width], content.frames)
  <2>1. PacketsOf(content) = compileProgram(<<only>>)
    BY <1>5 DEF PacketsOf, compileGif
  <2>2. AList(only)
    BY <1>1, <1>5, SegmentIsList
  <2>. HIDE DEF only
  <2>3. <<only>> \in Seq({only}) /\ \A t \in DOMAIN <<only>> : <<only>>[t] = only
    OBVIOUS
  <2>4. AList(<<only>>)
    BY <2>3, SequencesAreLists
  <2>. QED
    BY <2>1, <2>2, <2>3, <2>4, CompiledIsNumbered
<1>. QED
  BY <1>1, <1>2, <1>3, <1>4, <1>5

------------------------------------------------------------------------------
(* What is compressed is decompressed.                                     *)

\* The equation that defines the states of the decoder.
Decodes(g, codes) ==
  g = [k \in 0 .. Len(codes) |-> IF k = 0 THEN EmptyDecoder ELSE DecodedBy(g[k - 1], codes[k])]

\* lzssDecompress is the last value of the recursion Decodes describes.
LEMMA DecompressDef ==
  ASSUME NEW codes
  PROVE  lzssDecompress(codes) = (CHOOSE g : Decodes(g, codes))[Len(codes)].text
BY DEF lzssDecompress, Decodes

LEMMA LiteralsAreAccepted ==
  ASSUME NEW decoder, NEW c
  PROVE  DecodedBy(decoder, Literal(c)) = Accepted(decoder, c)
<1>1. "literal" \in DOMAIN Literal(c) /\ Literal(c).literal = c
  BY DEF Literal
<1>. QED
  BY <1>1 DEF DecodedBy

\* For codes that are literals, that recursion has a solution.
LEMMA DecoderExists ==
  ASSUME NEW A, NEW input \in Seq(A), NEW codes, Len(codes) = Len(input),
         \A k \in 1 .. Len(input) : codes[k] = Literal(input[k])
  PROVE  \E g : Decodes(g, codes)
<1>. DEFINE n == Len(input)
            Bytes == A \cup {0}
            D == [text : Seq(A), textBuf : [0 .. N - 1 -> Bytes], r : 0 .. N - 1]
            step == [k \in 1 .. n |-> [x \in D |-> Accepted(x, input[k])]]
<1>1. n \in Nat /\ \A k \in 1 .. n : input[k] \in A
  OBVIOUS
<1>2. EmptyDecoder \in D
  <2>1. N \in Nat /\ F \in Nat /\ 0 < F /\ F < N
    BY LzssAssumption
  <2>2. N - F \in 0 .. N - 1
    BY <2>1
  <2>. QED
    BY <2>2 DEF EmptyDecoder
<1>3. ASSUME NEW x \in D, NEW c \in A PROVE Accepted(x, c) \in D
  <2>1. N \in Nat \ {0} /\ x.r \in 0 .. N - 1
    BY <1>3, LzssAssumption
  <2>2. (x.r + 1) % N \in 0 .. N - 1
    BY <2>1
  <2>3. Append(x.text, c) \in Seq(A)
    BY <1>3
  <2>4. [x.textBuf EXCEPT ![x.r] = c] \in [0 .. N - 1 -> Bytes]
    BY <1>3
  <2>. QED
    BY <2>2, <2>3, <2>4 DEF Accepted
<1>. HIDE DEF D
<1>4. StepsOn(n, D, step)
  BY <1>1, <1>3 DEF StepsOn
<1>5. PICK g : Iterates(g, n, D, EmptyDecoder, step)
  <2>. HIDE DEF step, n
  <2>. QED
    BY <1>1, <1>2, <1>4, RecursionExists
<1>. DEFINE h == [k \in 0 .. n |-> g[k]]
<1>6. ASSUME NEW k \in 0 .. n
      PROVE  h[k] = IF k = 0 THEN EmptyDecoder ELSE DecodedBy(h[k - 1], codes[k])
  <2>1. CASE k = 0
    BY <1>5, <1>6, <2>1 DEF Iterates
  <2>2. CASE k # 0
    <3>1. k \in 1 .. n /\ k - 1 \in 0 .. n /\ g[k - 1] \in D
      BY <1>1, <1>5, <1>6, <2>2 DEF Iterates
    <3>2. g[k] = Accepted(g[k - 1], input[k])
      BY <1>5, <3>1 DEF Iterates
    <3>3. DecodedBy(g[k - 1], codes[k]) = Accepted(g[k - 1], input[k])
      BY <3>1, LiteralsAreAccepted
    <3>. QED
      BY <1>6, <2>2, <3>1, <3>2, <3>3
  <2>. QED
    BY <2>1, <2>2
<1>7. Decodes(h, codes)
  BY <1>6 DEF Decodes
<1>. QED
  BY <1>7

\* Whatever is compressed by lzssCompressSafe comes out of lzssDecompress as it was.
THEOREM SafeCodesDecode ==
  ASSUME NEW A, NEW input \in Seq(A)
  PROVE  lzssDecompress(lzssCompressSafe(input)) = input
<1>. DEFINE n == Len(input)
            codes == lzssCompressSafe(input)
            g == CHOOSE f : Decodes(f, codes)
<1>1. n \in Nat /\ \A k \in 1 .. n : input[k] \in A
  OBVIOUS
<1>2. Len(codes) = n /\ \A k \in 1 .. n : codes[k] = Literal(input[k])
  BY <1>1 DEF lzssCompressSafe
<1>. HIDE DEF codes
<1>3. Decodes(g, codes)
  BY <1>2, DecoderExists
<1>4. lzssDecompress(codes) = g[n].text
  BY <1>2, DecompressDef
<1>. HIDE DEF g
<1>5. g[0] = EmptyDecoder /\ \A k \in 1 .. n : g[k] = Accepted(g[k - 1], input[k])
  <2>1. \A k \in 0 .. n : g[k] = IF k = 0 THEN EmptyDecoder ELSE DecodedBy(g[k - 1], codes[k])
    BY <1>2, <1>3 DEF Decodes
  <2>2. g[0] = EmptyDecoder
    BY <1>1, <2>1
  <2>3. ASSUME NEW k \in 1 .. n PROVE g[k] = Accepted(g[k - 1], input[k])
    <3>1. g[k] = DecodedBy(g[k - 1], codes[k])
      BY <1>1, <2>1, <2>3
    <3>. QED
      BY <1>2, <2>3, <3>1, LiteralsAreAccepted
  <2>. QED
    BY <2>2, <2>3
<1>. DEFINE Said(k) == /\ g[k].text \in Seq(A) /\ Len(g[k].text) = k
                       /\ \A i \in 1 .. k : g[k].text[i] = input[i]
            S == {k \in Nat : k <= n => Said(k)}
<1>6. 0 \in S
  <2>1. g[0].text = <<>>
    BY <1>5 DEF EmptyDecoder
  <2>2. Said(0)
    BY <2>1
  <2>. HIDE DEF Said
  <2>. QED
    BY <2>2
<1>7. ASSUME NEW k \in Nat, k \in S PROVE k + 1 \in S
  <2>. SUFFICES ASSUME k + 1 <= n PROVE Said(k + 1)
    OBVIOUS
  <2>1. /\ g[k].text \in Seq(A) /\ Len(g[k].text) = k
        /\ \A i \in 1 .. k : g[k].text[i] = input[i]
    BY <1>1, <1>7
  <2>2. k + 1 \in 1 .. n /\ (k + 1) - 1 = k /\ input[k + 1] \in A
    BY <1>1
  <2>3. g[k + 1].text = Append(g[k].text, input[k + 1])
    <3>1. g[k + 1] = Accepted(g[(k + 1) - 1], input[k + 1])
      BY <1>5, <2>2
    <3>2. g[k + 1] = Accepted(g[k], input[k + 1])
      BY <2>2, <3>1
    <3>. QED
      BY <3>2 DEF Accepted
  <2>. DEFINE t == g[k].text
              u == g[k + 1].text
  <2>4. t \in Seq(A) /\ Len(t) = k /\ u = Append(t, input[k + 1]) /\ \A i \in 1 .. k : t[i] = input[i]
    BY <2>1, <2>3
  <2>. HIDE DEF t, u
  <2>5. /\ u \in Seq(A) /\ Len(u) = k + 1
        /\ u[k + 1] = input[k + 1] /\ \A i \in 1 .. k : u[i] = t[i]
    BY <2>2, <2>4
  <2>6. \A i \in 1 .. k + 1 : u[i] = input[i]
    BY <2>4, <2>5
  <2>. QED
    BY <2>5, <2>6 DEF u
<1>8. Nat \subseteq S
  <2>. HIDE DEF S
  <2>. QED
    BY <1>6, <1>7, SetInduction
<1>9. Said(n)
  BY <1>1, <1>8
<1>10. g[n].text = input
  BY <1>1, <1>9
<1>. QED
  BY <1>4, <1>10 DEF codes

------------------------------------------------------------------------------
(* Receipts.                                                               *)

ReceiptType == [type : {"announce", "chunk"}, index : Nat, upload : Nat]
\* Some packet of this upload that reached the display is what the receipt acknowledges.
Acknowledges(receipt) ==
  \E j \in arrived : /\ plan.packets[j].type = receipt.type
                     /\ receipt.type = "chunk" => plan.packets[j].index = receipt.index
UploadTyped ==
  /\ device.driver \in {"coolledux", "coolledx"}
  /\ known \in Behaviour /\ learned \in Behaviour
  /\ plan.live \in BOOLEAN /\ sends \in Seq(Contents)
  /\ receipts \subseteq ReceiptType /\ recorded \in Seq(ReceiptType)
ReceiptsOfThisUpload ==
  plan.live =>
    /\ Numbered(plan.packets)
    /\ written \in 0 .. Len(plan.packets) /\ arrived \subseteq 1 .. written
    /\ \A receipt \in receipts : Acknowledges(receipt)
    /\ \A k \in DOMAIN recorded : Acknowledges(recorded[k])
AnalysedWhenSent == analysis # NoAnalysis => plan.live /\ ~Sending
UploadInv == UploadTyped /\ ReceiptsOfThisUpload /\ AnalysedWhenSent /\ LostChunksAreMissing

LEMMA UploadInitInv == UploadInit => UploadInv
<1>. SUFFICES ASSUME UploadInit PROVE UploadInv
  OBVIOUS
<1>1. UploadTyped
  <2>1. known \in Behaviour /\ learned \in Behaviour
    BY DEF UploadInit, Behaviour, Strategies, Blacks
  <2>2. device.driver \in {"coolledux", "coolledx"}
    BY DEF UploadInit
  <2>. QED
    BY <2>1, <2>2 DEF UploadInit, UploadTyped, NoPlannedUpload
<1>2. ~plan.live /\ analysis = NoAnalysis
  BY DEF UploadInit, NoPlannedUpload
<1>. QED
  BY <1>1, <1>2 DEF UploadInv, ReceiptsOfThisUpload, AnalysedWhenSent, LostChunksAreMissing

\* A plan of n packets, the announcement among them, has n - 1 chunks.
LEMMA ChunksOfNumbered ==
  ASSUME NEW packets, Numbered(packets)
  PROVE  Chunks(packets) = Len(packets) - 1
<1>1. {i \in DOMAIN packets : packets[i].type = "chunk"} = 2 .. Len(packets)
  BY DEF Numbered
<1>2. Cardinality(2 .. Len(packets)) = Len(packets) - 1
  BY FS_Interval DEF Numbered
<1>. QED
  BY <1>1, <1>2 DEF Chunks

LEMMA PlanKeeps ==
  ASSUME UploadInv, ~Stray, NEW content \in Contents, Plan(content)
  PROVE  UploadInv'
<1>1. UploadTyped'
  <2>1. sends' \in Seq(Contents)
    BY DEF Plan, UploadInv, UploadTyped
  <2>2. plan'.live \in BOOLEAN
    BY DEF Plan
  <2>. QED
    BY <2>1, <2>2 DEF Plan, UploadInv, UploadTyped
<1>2. ReceiptsOfThisUpload'
  <2>. SUFFICES ASSUME plan'.live
                PROVE  /\ Numbered(plan'.packets)
                       /\ written' \in 0 .. Len(plan'.packets) /\ arrived' \subseteq 1 .. written'
                       /\ receipts' = {} /\ DOMAIN recorded' = {}
    BY DEF ReceiptsOfThisUpload
  <2>1. plan'.packets = PacketsOf(content) /\ device.driver = "coolledux"
    BY DEF Plan
  <2>2. Numbered(plan'.packets)
    BY <2>1, PlansAreNumbered DEF UploadInv, UploadTyped
  <2>3. written' \in 0 .. Len(plan'.packets)
    BY <2>2 DEF Plan, Numbered
  <2>. QED
    BY <2>2, <2>3 DEF Plan
<1>3. analysis' = NoAnalysis
  BY DEF Plan
<1>. QED
  BY <1>1, <1>2, <1>3 DEF UploadInv, AnalysedWhenSent, LostChunksAreMissing

LEMMA TransmitKeeps == ASSUME UploadInv, Transmit PROVE UploadInv'
<1>. DEFINE packet == plan.packets[written + 1]
<1>1. /\ plan.live /\ Numbered(plan.packets)
      /\ written \in 0 .. Len(plan.packets) /\ written < Len(plan.packets)
      /\ written' = written + 1 /\ plan' = plan /\ recorded' = recorded
      /\ arrived \subseteq 1 .. written /\ analysis' = analysis /\ sends' = sends
      /\ device' = device /\ known' = known /\ learned' = learned
  BY DEF Transmit, Sending, UploadInv, ReceiptsOfThisUpload
<1>2. Len(plan.packets) \in Nat /\ written' \in 0 .. Len(plan.packets) /\ written' \in 1 .. Len(plan.packets)
  BY <1>1 DEF Numbered
<1>3. Receipt(packet, Len(sends)) \in ReceiptType
  <2>1. Len(sends) \in Nat
    BY DEF UploadInv, UploadTyped
  <2>2. packet.type \in {"announce", "chunk"} /\ (packet.type = "chunk" => packet.index \in Nat)
    BY <1>1, <1>2 DEF Numbered
  <2>. QED
    BY <2>1, <2>2 DEF Receipt, ReceiptType
<1>4. /\ arrived' \in {arrived, arrived \cup {written'}}
      /\ receipts' \subseteq receipts \cup {Receipt(packet, Len(sends))}
      /\ Receipt(packet, Len(sends)) \in receipts' \ receipts => written' \in arrived'
  BY <1>1 DEF Transmit
<1>5. UploadTyped'
  BY <1>1, <1>3, <1>4 DEF UploadInv, UploadTyped
<1>6. \A receipt : Acknowledges(receipt) => Acknowledges(receipt)'
  BY <1>1, <1>4 DEF Acknowledges
<1>7. ReceiptsOfThisUpload'
  <2>1. arrived' \subseteq 1 .. written'
    BY <1>1, <1>2, <1>4
  <2>2. ASSUME NEW receipt \in receipts' PROVE Acknowledges(receipt)'
    <3>1. CASE receipt \in receipts
      BY <3>1, <1>1, <1>6 DEF UploadInv, ReceiptsOfThisUpload
    <3>2. CASE receipt \notin receipts
      <4>1. receipt = Receipt(packet, Len(sends)) /\ written' \in arrived'
        BY <3>2, <2>2, <1>4
      <4>2. receipt.type = packet.type /\ (receipt.type = "chunk" => receipt.index = packet.index)
        BY <4>1 DEF Receipt
      <4>. QED
        BY <4>1, <4>2, <1>1 DEF Acknowledges
    <3>. QED
      BY <3>1, <3>2
  <2>3. \A k \in DOMAIN recorded' : Acknowledges(recorded[k])'
    BY <1>1, <1>6 DEF UploadInv, ReceiptsOfThisUpload
  <2>. QED
    BY <1>1, <1>2, <2>1, <2>2, <2>3 DEF ReceiptsOfThisUpload
<1>8. analysis = NoAnalysis
  BY DEF Transmit, UploadInv, AnalysedWhenSent
<1>. QED
  BY <1>1, <1>5, <1>7, <1>8 DEF UploadInv, AnalysedWhenSent, LostChunksAreMissing

LEMMA ReceiptArrivesKeeps == ASSUME UploadInv, ReceiptArrives PROVE UploadInv'
<1>1. PICK receipt \in receipts :
        recorded' = Append(recorded, receipt) /\ receipts' \in {receipts, receipts \ {receipt}}
  BY DEF ReceiptArrives
<1>2. /\ plan.live /\ plan' = plan /\ written' = written /\ arrived' = arrived
      /\ analysis' = analysis /\ sends' = sends
      /\ device' = device /\ known' = known /\ learned' = learned /\ Sending
  BY DEF ReceiptArrives, Sending
<1>3. recorded \in Seq(ReceiptType) /\ receipt \in ReceiptType
  BY <1>1 DEF UploadInv, UploadTyped
<1>4. UploadTyped'
  <2>1. recorded' \in Seq(ReceiptType)
    BY <1>1, <1>3
  <2>. QED
    BY <1>1, <1>2, <2>1 DEF UploadInv, UploadTyped
<1>5. \A r : Acknowledges(r) => Acknowledges(r)'
  BY <1>2 DEF Acknowledges
<1>6. \A k \in DOMAIN recorded' : Acknowledges(recorded[k])'
  <2>. SUFFICES ASSUME NEW k, k \in DOMAIN recorded' PROVE Acknowledges(recorded[k])'
    OBVIOUS
  <2>1. (k \in DOMAIN recorded /\ recorded'[k] = recorded[k]) \/ recorded'[k] = receipt
    BY <1>1, <1>3
  <2>2. Acknowledges(receipt) /\ \A j \in DOMAIN recorded : Acknowledges(recorded[j])
    BY <1>2 DEF UploadInv, ReceiptsOfThisUpload
  <2>3. CASE k \in DOMAIN recorded /\ recorded'[k] = recorded[k]
    BY <2>2, <2>3, <1>5, <1>2 DEF Acknowledges
  <2>4. CASE recorded'[k] = receipt
    BY <2>2, <2>4, <1>5, <1>2 DEF Acknowledges
  <2>. QED
    BY <2>1, <2>3, <2>4
<1>7. ReceiptsOfThisUpload'
  BY <1>1, <1>2, <1>5, <1>6 DEF UploadInv, ReceiptsOfThisUpload
<1>8. analysis = NoAnalysis
  BY <1>2 DEF UploadInv, AnalysedWhenSent
<1>. QED
  BY <1>2, <1>4, <1>7, <1>8 DEF UploadInv, AnalysedWhenSent, LostChunksAreMissing

LEMMA AbortKeeps == ASSUME UploadInv, Abort PROVE UploadInv'
<1>1. ~plan'.live /\ plan'.live \in BOOLEAN
  BY DEF Abort, NoPlannedUpload
<1>2. analysis = NoAnalysis
  BY DEF Abort, UploadInv, AnalysedWhenSent
<1>3. UploadTyped'
  BY <1>1 DEF Abort, UploadInv, UploadTyped
<1>. QED
  BY <1>1, <1>2, <1>3
  DEF Abort, UploadInv, ReceiptsOfThisUpload, AnalysedWhenSent, LostChunksAreMissing

LEMMA AnalyseKeeps == ASSUME UploadInv, Analyse PROVE UploadInv'
<1>. DEFINE count == Chunks(plan.packets)
            observed == {index \in Indices : index < count}
<1>1. /\ plan.live /\ ~Sending /\ plan' = plan /\ written' = written /\ arrived' = arrived
      /\ recorded' = recorded /\ receipts' = receipts
      /\ sends' = sends /\ device' = device /\ known' = known /\ learned' = learned
      /\ analysis'.missing = Missing(count, observed)
      /\ analysis'.unexpected = Indices \ observed
  BY DEF Analyse, analyzeStoredProgramUpload
<1>2. /\ Numbered(plan.packets) /\ count = Len(plan.packets) - 1
      /\ written \in 0 .. Len(plan.packets) /\ arrived \subseteq 1 .. written
      /\ \A k \in DOMAIN recorded : Acknowledges(recorded[k])
  BY <1>1, ChunksOfNumbered DEF UploadInv, ReceiptsOfThisUpload
<1>3. \A index \in Indices : \E j \in arrived : j \in 2 .. Len(plan.packets) /\ index = j - 2
  <2>. SUFFICES ASSUME NEW k \in DOMAIN recorded, recorded[k].type = "chunk"
                PROVE  \E j \in arrived : j \in 2 .. Len(plan.packets) /\ recorded[k].index = j - 2
    BY DEF Indices, Recorded
  <2>1. PICK j \in arrived : plan.packets[j].type = "chunk" /\ plan.packets[j].index = recorded[k].index
    BY <1>2 DEF Acknowledges
  <2>2. j \in 2 .. Len(plan.packets)
    BY <1>2, <2>1 DEF Numbered
  <2>. QED
    BY <1>2, <2>1, <2>2 DEF Numbered
<1>4. Indices \ observed = {}
  BY <1>2, <1>3 DEF Numbered
<1>5. ASSUME NEW i \in DOMAIN plan.packets, plan.packets[i].type = "chunk", i \notin arrived
      PROVE  plan.packets[i].index \in Missing(count, observed)
  <2>1. i \in 2 .. Len(plan.packets) /\ plan.packets[i].index = i - 2
    BY <1>2, <1>5 DEF Numbered
  <2>2. i - 2 \in 0 .. count - 1
    BY <1>2, <2>1 DEF Numbered
  <2>3. i - 2 \notin Indices
    BY <1>2, <1>3, <1>5, <2>1 DEF Numbered
  <2>. QED
    BY <2>1, <2>2, <2>3 DEF Missing
<1>. HIDE DEF observed, count
<1>6. UploadTyped' /\ ReceiptsOfThisUpload'
  BY <1>1 DEF UploadInv, UploadTyped, ReceiptsOfThisUpload, Acknowledges
<1>7. LostChunksAreMissing'
  BY <1>1, <1>4, <1>5 DEF LostChunksAreMissing
<1>8. AnalysedWhenSent'
  BY <1>1 DEF AnalysedWhenSent, Sending
<1>. QED
  BY <1>6, <1>7, <1>8 DEF UploadInv

LEMMA UploadStep == ASSUME UploadInv, ~Stray, [UploadNext]_uploadVars PROVE UploadInv'
<1>1. ASSUME NEW strategy \in Strategies \cup {"none"}, NEW black \in Blacks \cup {"none"},
             Learn(strategy, black)
      PROVE  UploadInv'
  <2>1. learned' \in Behaviour
    BY <1>1 DEF Learn, Behaviour
  <2>. QED
    BY <1>1, <2>1 DEF Learn, UploadInv, UploadTyped, ReceiptsOfThisUpload, Acknowledges,
                      AnalysedWhenSent, LostChunksAreMissing, Sending
<1>2. ASSUME UNCHANGED uploadVars PROVE UploadInv'
  BY <1>2 DEF uploadVars, UploadInv, UploadTyped, ReceiptsOfThisUpload, Acknowledges,
              AnalysedWhenSent, LostChunksAreMissing, Sending
<1>. QED
  BY <1>1, <1>2, PlanKeeps, TransmitKeeps, ReceiptArrivesKeeps, AbortKeeps, AnalyseKeeps
  DEF UploadNext

\* Whatever was uploaded, however often and in which order receipts came: a chunk that never
\* reached the display is reported missing, and no receipt is out of range
\* (analyzeStoredProgramUpload), unless receipts outlive their upload.
THEOREM LostChunksAreAlwaysMissing ==
  ASSUME ~Stray PROVE UploadSpec => []LostChunksAreMissing
<1>1. UploadInit => UploadInv
  BY UploadInitInv
<1>2. UploadInv /\ [UploadNext]_uploadVars => UploadInv'
  BY UploadStep
<1>3. UploadInv => LostChunksAreMissing
  BY DEF UploadInv
<1>. QED
  BY <1>1, <1>2, <1>3, PTL DEF UploadSpec

------------------------------------------------------------------------------
(* Sequences of parts of equal lengths.                                    *)

\* Numbers, as columns, chunks and offsets are counted.
LEMMA Times ==
  ASSUME NEW a \in Nat, NEW b \in Nat PROVE a * b \in Nat /\ (a + 1) * b = a * b + b
OBVIOUS
LEMMA Order ==
  ASSUME NEW a \in Int, NEW b \in Int, NEW c \in Nat, a <= b PROVE a * c <= b * c
OBVIOUS
LEMMA Quotient ==
  ASSUME NEW b \in Nat \ {0}, NEW q \in Nat, NEW r \in 0 .. b - 1
  PROVE  (q * b + r) \div b = q /\ (q * b + r) % b = r
OBVIOUS
LEMMA Divided ==
  ASSUME NEW a \in Nat, NEW b \in Nat \ {0}
  PROVE  \E q \in Nat, r \in 0 .. b - 1 : a = q * b + r /\ a \div b = q /\ a % b = r
<1>. DEFINE q == a \div b
            r == a - q * b
<1>1. q \in Nat /\ q * b <= a /\ a < q * b + b
  OBVIOUS
<1>2. q * b \in Nat
  BY <1>1
<1>3. r \in 0 .. b - 1 /\ a = q * b + r
  BY <1>1, <1>2
<1>4. a \div b = q /\ q \in Nat
  BY <1>1
<1>. HIDE DEF q, r
<1>5. (q * b + r) % b = r
  BY <1>1, <1>3, Quotient
<1>6. a % b = r
  BY <1>3, <1>5
<1>. QED
  BY <1>1, <1>3, <1>4, <1>6
LEMMA Rounded ==
  ASSUME NEW a \in Nat, NEW b \in Nat \ {0}
  PROVE  LET n == (a + b - 1) \div b
         IN  n \in Nat /\ a <= n * b /\ n * b < a + b
OBVIOUS

\* FlattenFacts without a set the elements are taken from.
LEMMA FlattenedParts ==
  ASSUME NEW seqs, AList(seqs), \A i \in DOMAIN seqs : AList(seqs[i])
  PROVE  /\ AList(FlattenSeq(seqs))
         /\ \E off : /\ Begins(off, seqs) /\ Len(FlattenSeq(seqs)) = off[Len(seqs) + 1]
                     /\ \A i \in 1 .. Len(seqs), j \in Nat : j \in 1 .. Len(seqs[i]) =>
                          FlattenSeq(seqs)[off[i] + j] = seqs[i][j]
<1>. DEFINE A == UNION {{seqs[i][j] : j \in DOMAIN seqs[i]} : i \in DOMAIN seqs}
<1>1. \A i \in DOMAIN seqs : seqs[i] \in Seq(A)
  <2>. SUFFICES ASSUME NEW i \in DOMAIN seqs PROVE seqs[i] \in Seq(A)
    OBVIOUS
  <2>. DEFINE R == {seqs[i][j] : j \in DOMAIN seqs[i]}
  <2>1. seqs[i] \in Seq(R)
    BY ListFacts
  <2>2. R \subseteq A
    OBVIOUS
  <2>. HIDE DEF R, A
  <2>. QED
    BY <2>1, <2>2
<1>. HIDE DEF A
<1>2. Len(seqs) \in Nat /\ DOMAIN seqs = 1 .. Len(seqs) /\ seqs \in Seq({seqs[i] : i \in DOMAIN seqs})
  BY ListFacts
<1>3. seqs \in Seq(Seq(A))
  BY <1>1, <1>2
<1>. QED
  BY <1>3, FlattenFacts, FlattenedLists

\* When all parts but the last have the same length, offsets are multiples of it.
Even(seqs, size) ==
  /\ AList(seqs) /\ \A i \in DOMAIN seqs : AList(seqs[i])
  /\ \A i \in DOMAIN seqs : i < Len(seqs) => Len(seqs[i]) = size
LEMMA EvenParts ==
  ASSUME NEW seqs, NEW size \in Nat, Even(seqs, size)
  PROVE  /\ AList(FlattenSeq(seqs))
         /\ Len(seqs) > 0 => Len(FlattenSeq(seqs)) = (Len(seqs) - 1) * size + Len(seqs[Len(seqs)])
         /\ \A i \in 1 .. Len(seqs), j \in Nat : j \in 1 .. Len(seqs[i]) =>
              FlattenSeq(seqs)[(i - 1) * size + j] = seqs[i][j]
<1>. DEFINE n == Len(seqs)
<1>0. n \in Nat /\ DOMAIN seqs = 1 .. n
  BY ListFacts DEF Even
<1>1. AList(FlattenSeq(seqs))
  BY FlattenedParts DEF Even
<1>2. PICK off : /\ Begins(off, seqs) /\ Len(FlattenSeq(seqs)) = off[Len(seqs) + 1]
                 /\ \A i \in 1 .. Len(seqs), j \in Nat : j \in 1 .. Len(seqs[i]) =>
                          FlattenSeq(seqs)[off[i] + j] = seqs[i][j]
  BY FlattenedParts DEF Even
<1>3. /\ off \in [1 .. n + 1 -> Nat] /\ off[1] = 0
      /\ \A i \in 1 .. n : off[i + 1] = off[i] + Len(seqs[i])
      /\ \A i \in 1 .. n : i < n => Len(seqs[i]) = size
  BY <1>0, <1>2 DEF Begins, Even
<1>. DEFINE S == {k \in Nat : k < n => off[k + 1] = k * size}
<1>. HIDE DEF n
<1>4. 0 \in S
  <2>1. 0 * size = 0
    OBVIOUS
  <2>. QED
    BY <1>3, <2>1
<1>5. ASSUME NEW k \in Nat, k \in S PROVE k + 1 \in S
  <2>. SUFFICES ASSUME k + 1 < n PROVE off[(k + 1) + 1] = (k + 1) * size
    OBVIOUS
  <2>1. k < n /\ k + 1 \in 1 .. n
    BY <1>0
  <2>2. off[k + 1] = k * size
    BY <1>5, <2>1
  <2>3. off[(k + 1) + 1] = off[k + 1] + Len(seqs[k + 1]) /\ Len(seqs[k + 1]) = size
    BY <1>3, <2>1
  <2>4. (k + 1) * size = k * size + size
    BY Times
  <2>. QED
    BY <2>2, <2>3, <2>4
<1>6. Nat \subseteq S
  <2>. HIDE DEF S
  <2>. QED
    BY <1>4, <1>5, SetInduction
<1>7. ASSUME NEW i \in 1 .. n PROVE off[i] = (i - 1) * size
  <2>1. i - 1 \in Nat /\ i - 1 < n /\ (i - 1) + 1 = i
    BY <1>0, <1>7
  <2>2. i - 1 \in S
    BY <1>6, <2>1
  <2>3. off[(i - 1) + 1] = (i - 1) * size
    BY <2>1, <2>2
  <2>. QED
    BY <2>1, <2>3
<1>8. n > 0 => Len(FlattenSeq(seqs)) = (n - 1) * size + Len(seqs[n])
  <2>. SUFFICES ASSUME n > 0 PROVE Len(FlattenSeq(seqs)) = (n - 1) * size + Len(seqs[n])
    OBVIOUS
  <2>1. n \in 1 .. n
    BY <1>0
  <2>2. off[n + 1] = off[n] + Len(seqs[n]) /\ off[n] = (n - 1) * size
    BY <1>3, <1>7, <2>1
  <2>. QED
    BY <1>2, <2>2 DEF n
<1>9. \A i \in 1 .. n, j \in Nat : j \in 1 .. Len(seqs[i]) =>
              FlattenSeq(seqs)[(i - 1) * size + j] = seqs[i][j]
  BY <1>2, <1>7 DEF n
<1>. QED
  BY <1>1, <1>8, <1>9 DEF n

\* The chunks of a program are cut without gap or overlap.
LEMMA PiecesJoin ==
  ASSUME NEW codes, AList(codes), Len(codes) > 0
  PROVE  /\ AList(Pieces(codes)) /\ Len(Pieces(codes)) > 0
         /\ FlattenSeq(Pieces(codes)) = codes
<1>. DEFINE c == Len(codes)
            C == ChunkSize
            n == (c + C - 1) \div C
            pieces == Pieces(codes)
            A == {codes[i] : i \in DOMAIN codes}
            joined == FlattenSeq(pieces)
<1>1. C \in Nat \ {0} /\ c \in Nat \ {0} /\ DOMAIN codes = 1 .. c /\ codes \in Seq(A)
  BY ListFacts, UploadAssumption
<1>. HIDE DEF C, c, A
<1>2. n \in Nat /\ c <= n * C /\ n * C < c + C
  BY <1>1, Rounded
<1>3. pieces = [i \in 1 .. n |-> SubSeq(codes, (i - 1) * C + 1, IF i * C < c THEN i * C ELSE c)]
  BY DEF Pieces, c, C
<1>. HIDE DEF n
<1>4. n > 0
  <2>1. 0 * C = 0
    BY <1>1
  <2>. QED
    BY <1>1, <1>2, <2>1
<1>5. n = (n - 1) + 1 /\ n - 1 \in Nat /\ n * C = (n - 1) * C + C /\ (n - 1) * C \in Nat
  <2>1. n = (n - 1) + 1 /\ n - 1 \in Nat
    BY <1>2, <1>4
  <2>2. ((n - 1) + 1) * C = (n - 1) * C + C /\ (n - 1) * C \in Nat
    BY <1>1, <2>1, Times
  <2>. QED
    BY <2>1, <2>2
<1>6. ASSUME NEW i \in 1 .. n
      PROVE  /\ (i - 1) * C \in Nat /\ i * C = (i - 1) * C + C
             /\ i < n => i * C <= (n - 1) * C
  <2>1. i - 1 \in Nat /\ i = (i - 1) + 1 /\ i \in Int /\ n - 1 \in Int
    BY <1>2, <1>6
  <2>2. ((i - 1) + 1) * C = (i - 1) * C + C /\ (i - 1) * C \in Nat
    BY <1>1, <2>1, Times
  <2>3. i < n => i <= n - 1
    BY <1>2, <2>1
  <2>4. i < n => i * C <= (n - 1) * C
    BY <1>1, <2>1, <2>3, Order
  <2>. QED
    BY <2>1, <2>2, <2>4
<1>7. ASSUME NEW i \in 1 .. n
      PROVE  /\ AList(pieces[i])
             /\ i < n => Len(pieces[i]) = C
             /\ i = n => Len(pieces[i]) = c - (n - 1) * C
             /\ \A j \in 1 .. Len(pieces[i]) : pieces[i][j] = codes[(i - 1) * C + j]
  <2>. DEFINE b == (i - 1) * C
              e == IF i * C < c THEN i * C ELSE c
  <2>1. b \in Nat /\ e \in Nat /\ e <= c /\ (i < n => e = b + C) /\ (i = n => e = c /\ b < c)
    BY <1>1, <1>2, <1>5, <1>6
  <2>2. pieces[i] = SubSeq(codes, b + 1, e)
    BY <1>3
  <2>0. b = (i - 1) * C
    OBVIOUS
  <2>. HIDE DEF b, e
  <2>3. b < e
    <3>1. CASE i < n
      BY <1>1, <2>1, <3>1
    <3>2. CASE i = n
      BY <2>1, <3>2
    <3>. QED
      BY <1>2, <1>7, <3>1, <3>2
  <2>. HIDE DEF pieces
  <2>4. \A k \in b + 1 .. e : codes[k] \in A
    <3>1. \A k \in b + 1 .. e : k \in 1 .. c
      BY <1>1, <2>1
    <3>. QED
      BY <1>1, <3>1 DEF A
  <2>5. /\ pieces[i] \in Seq(A) /\ Len(pieces[i]) = e - b
        /\ \A j \in 1 .. e - b : pieces[i][j] = codes[b + j]
    <3>1. b + 1 \in Int /\ e \in Int /\ b + 1 <= e
      BY <2>1, <2>3
    <3>2. /\ SubSeq(codes, b + 1, e) \in Seq(A)
          /\ Len(SubSeq(codes, b + 1, e)) = IF b + 1 <= e THEN e - (b + 1) + 1 ELSE 0
          /\ \A j \in 1 .. e - (b + 1) + 1 : SubSeq(codes, b + 1, e)[j] = codes[b + 1 + j - 1]
      BY <2>4, <3>1, SubSeqProperties
    <3>3. e - (b + 1) + 1 = e - b /\ \A j \in 1 .. e - b : b + 1 + j - 1 = b + j
      BY <2>1
    <3>. QED
      BY <2>2, <3>1, <3>2, <3>3
  <2>6. AList(pieces[i])
    BY <2>5, SequencesAreLists
  <2>7. i < n => Len(pieces[i]) = C
    BY <1>1, <2>1, <2>5
  <2>8. i = n => Len(pieces[i]) = c - (n - 1) * C
    BY <2>0, <2>1, <2>5
  <2>9. \A j \in 1 .. Len(pieces[i]) : pieces[i][j] = codes[(i - 1) * C + j]
    BY <2>0, <2>5
  <2>. QED
    BY <2>6, <2>7, <2>8, <2>9
<1>8. AList(pieces) /\ Len(pieces) = n /\ DOMAIN pieces = 1 .. n
  <2>1. DOMAIN pieces = 1 .. n /\ n \in Int
    BY <1>2, <1>3
  <2>2. pieces = [i \in 1 .. n |-> pieces[i]]
    BY <1>3
  <2>. HIDE DEF pieces
  <2>3. AList(pieces)
    BY <2>1, <2>2 DEF AList
  <2>4. Len(pieces) \in Nat /\ DOMAIN pieces = 1 .. Len(pieces)
    BY <2>3, ListFacts
  <2>5. Len(pieces) = n
    BY <1>2, <2>1, <2>4
  <2>. QED
    BY <2>1, <2>3, <2>5
<1>. HIDE DEF pieces
<1>9. Even(pieces, C)
  BY <1>7, <1>8 DEF Even
<1>10. /\ AList(joined) /\ Len(joined) = (n - 1) * C + Len(pieces[n])
       /\ \A i \in 1 .. n, j \in Nat : j \in 1 .. Len(pieces[i]) =>
            joined[(i - 1) * C + j] = pieces[i][j]
  BY <1>1, <1>4, <1>8, <1>9, EvenParts
<1>11. Len(joined) = c
  <2>1. n \in 1 .. n
    BY <1>2, <1>4
  <2>2. Len(pieces[n]) = c - (n - 1) * C
    BY <1>7, <2>1
  <2>. QED
    BY <1>1, <1>5, <1>10, <2>2
<1>12. ASSUME NEW p \in 1 .. c PROVE joined[p] = codes[p]
  <2>1. p - 1 \in Nat /\ p \in Nat
    BY <1>1, <1>12
  <2>2. PICK q \in Nat, r \in 0 .. C - 1 : p - 1 = q * C + r
    BY <1>1, <2>1, Divided
  <2>. DEFINE i == q + 1
              j == r + 1
  <2>3. q <= n - 1
    <3>. SUFFICES ASSUME n <= q PROVE FALSE
      BY <1>2, <2>2
    <3>1. n * C <= q * C
      BY <1>1, <1>2, <2>2, Order
    <3>2. q * C \in Nat /\ n * C \in Nat
      BY <1>1, <1>2, <2>2, Times
    <3>. QED
      BY <1>1, <1>2, <1>12, <2>2, <3>1, <3>2
  <2>4. i \in 1 .. n /\ i - 1 = q /\ j \in Nat /\ (i - 1) * C + j = p /\ q * C \in Nat
    <3>1. q * C \in Nat
      BY <1>1, <2>2, Times
    <3>2. i - 1 = q
      BY <2>2
    <3>3. (i - 1) * C + j = p
      BY <1>1, <2>1, <2>2, <3>1, <3>2
    <3>. QED
      BY <1>1, <1>2, <2>2, <2>3, <3>1, <3>2, <3>3
  <2>5. j \in 1 .. Len(pieces[i])
    <3>1. CASE i < n
      BY <1>1, <1>7, <2>2, <2>4, <3>1
    <3>2. CASE i = n
      <4>1. Len(pieces[i]) = c - q * C
        BY <1>7, <2>4, <3>2
      <4>2. q * C + j <= c
        BY <1>12, <2>4
      <4>. QED
        BY <1>1, <2>2, <2>4, <4>1, <4>2
    <3>. HIDE DEF i, j
    <3>. QED
      BY <1>2, <2>4, <3>1, <3>2
  <2>. HIDE DEF i, j
  <2>6. joined[(i - 1) * C + j] = pieces[i][j] /\ pieces[i][j] = codes[(i - 1) * C + j]
    BY <1>7, <1>10, <2>4, <2>5
  <2>. QED
    BY <2>4, <2>6
<1>13. joined = codes
  <2>. HIDE DEF joined
  <2>1. joined \in Seq({joined[k] : k \in DOMAIN joined})
    BY <1>10, ListFacts
  <2>2. joined = [k \in 1 .. c |-> joined[k]] /\ codes = [k \in 1 .. c |-> codes[k]]
    BY <1>1, <1>11, <2>1
  <2>. QED
    BY <1>12, <2>2
<1>. QED
  BY <1>4, <1>8, <1>13 DEF pieces, joined

\* Every position of what is joined is in one of the parts.
LEMMA Covered ==
  ASSUME NEW seqs, Len(seqs) \in Nat, \A i \in 1 .. Len(seqs) : Len(seqs[i]) \in Nat,
         NEW off, Begins(off, seqs), NEW p \in 1 .. off[Len(seqs) + 1]
  PROVE  \E i \in 1 .. Len(seqs) : \E j \in 1 .. Len(seqs[i]) : p = off[i] + j
<1>. DEFINE n == Len(seqs)
            S == {k \in 1 .. n + 1 : p <= off[k]}
<1>1. /\ off \in [1 .. n + 1 -> Nat] /\ off[1] = 0 /\ n \in Nat
      /\ \A i \in 1 .. n : off[i + 1] = off[i] + Len(seqs[i])
  BY DEF Begins
<1>. HIDE DEF n
<1>2. n + 1 \in S /\ p \in Nat /\ p > 0
  <2>1. n + 1 \in 1 .. n + 1
    BY <1>1
  <2>2. p \in 1 .. off[n + 1] /\ off[n + 1] \in Nat
    BY <1>1, <2>1 DEF n
  <2>. QED
    BY <2>1, <2>2
<1>3. PICK k \in S : \A m \in S : k <= m
  <2>1. S \in SUBSET Nat
    BY <1>1
  <2>. HIDE DEF S
  <2>. QED
    BY <1>2, <2>1, LeastNatural
<1>4. k # 1 /\ k \in 1 .. n + 1 /\ p <= off[k]
  BY <1>1, <1>2, <1>3
<1>. DEFINE i == k - 1
<1>5. i \in 1 .. n /\ i + 1 = k /\ i \in 1 .. n + 1 /\ i < k
  BY <1>1, <1>4
<1>. HIDE DEF i
<1>6. i \notin S
  <2>1. i \in Int /\ k \in Int
    BY <1>1, <1>4, <1>5
  <2>. QED
    BY <1>3, <1>5, <2>1
<1>7. off[i] < p /\ off[i] \in Nat /\ off[k] = off[i] + Len(seqs[i]) /\ Len(seqs[i]) \in Nat
  <2>1. off[i] \in Nat
    BY <1>1, <1>5
  <2>2. ~(p <= off[i])
    BY <1>5, <1>6
  <2>3. Len(seqs[i]) \in Nat
    BY <1>5 DEF n
  <2>. QED
    BY <1>1, <1>2, <1>5, <2>1, <2>2, <2>3
<1>8. p - off[i] \in 1 .. Len(seqs[i]) /\ p = off[i] + (p - off[i])
  BY <1>2, <1>4, <1>7
<1>. QED
  BY <1>5, <1>8 DEF n

------------------------------------------------------------------------------
(* Tiles, segments and lights.                                             *)

Columns(tile) == tile.start .. tile.start + tile.width - 1
\* Tiles are as narrow as they must be, and every column is in exactly one of them.
LEMMA TileFacts ==
  LET tiles == tileColumns(Width) IN
  /\ Len(tiles) \in Nat /\ DOMAIN tiles = 1 .. Len(tiles) /\ AList(tiles)
  /\ \A t \in DOMAIN tiles : tiles[t].start \in Nat /\ tiles[t].width \in 1 .. TileWidth
  /\ \A x \in 0 .. Width - 1 : \E t \in DOMAIN tiles :
       x \in Columns(tiles[t]) /\ \A u \in DOMAIN tiles : x \in Columns(tiles[u]) => u = t
<1>. DEFINE tiles == tileColumns(Width)
            T == TileWidth
            W == Width
            n == (W + T - 1) \div T
<1>1. T \in Nat \ {0} /\ W \in Nat \ {0}
  BY UploadAssumption
<1>2. tiles = [i \in 1 .. n |-> [start |-> (i - 1) * T,
                                 width |-> IF i * T <= W THEN T ELSE W - (i - 1) * T]]
  BY DEF tileColumns
<1>. HIDE DEF T, W
<1>3. n \in Nat /\ W <= n * T /\ n * T < W + T
  BY <1>1, Rounded
<1>. HIDE DEF n, tiles
<1>4. Len(tiles) = n /\ DOMAIN tiles = 1 .. n /\ AList(tiles)
  <2>1. DOMAIN tiles = 1 .. n /\ tiles = [i \in 1 .. n |-> tiles[i]]
    BY <1>2
  <2>2. AList(tiles)
    BY <1>3, <2>1 DEF AList
  <2>3. Len(tiles) \in Nat /\ DOMAIN tiles = 1 .. Len(tiles)
    BY <2>2, ListFacts
  <2>. QED
    BY <1>3, <2>1, <2>2, <2>3
<1>5. ASSUME NEW i \in 1 .. n
      PROVE  /\ (i - 1) * T \in Nat /\ i * T = (i - 1) * T + T /\ (i - 1) * T < W
             /\ i < n => i * T <= W
  <2>1. i - 1 \in Nat /\ i = (i - 1) + 1 /\ i \in Int /\ n - 1 \in Nat /\ n = (n - 1) + 1
    BY <1>3, <1>5
  <2>2. ((i - 1) + 1) * T = (i - 1) * T + T /\ (i - 1) * T \in Nat
    BY <1>1, <2>1, Times
  <2>3. ((n - 1) + 1) * T = (n - 1) * T + T /\ (n - 1) * T \in Nat
    BY <1>1, <2>1, Times
  <2>4. (i - 1) * T <= (n - 1) * T
    <3>1. i - 1 <= n - 1 /\ i - 1 \in Int /\ n - 1 \in Int
      BY <1>3, <1>5
    <3>. QED
      BY <1>1, <3>1, Order
  <2>5. (n - 1) * T < W
    <3>1. n * T = (n - 1) * T + T
      BY <2>1, <2>3
    <3>. QED
      BY <1>1, <1>3, <2>3, <3>1
  <2>6. i < n => i * T <= (n - 1) * T
    <3>1. i < n => i <= n - 1
      BY <1>3, <2>1
    <3>. QED
      BY <1>1, <2>1, <3>1, Order
  <2>7. i * T = (i - 1) * T + T
    BY <2>1, <2>2
  <2>. QED
    BY <1>1, <2>2, <2>3, <2>4, <2>5, <2>6, <2>7
<1>6. ASSUME NEW i \in 1 .. n
      PROVE  /\ tiles[i].start = (i - 1) * T /\ tiles[i].width \in 1 .. T
             /\ tiles[i].width = IF i * T <= W THEN T ELSE W - (i - 1) * T
  <2>1. /\ tiles[i].start = (i - 1) * T
        /\ tiles[i].width = IF i * T <= W THEN T ELSE W - (i - 1) * T
    BY <1>2
  <2>2. /\ (i - 1) * T \in Nat /\ i * T = (i - 1) * T + T /\ (i - 1) * T < W
    BY <1>5
  <2>. QED
    BY <1>1, <2>1, <2>2
<1>7. ASSUME NEW x \in 0 .. W - 1
      PROVE  \E t \in 1 .. n :
               x \in Columns(tiles[t]) /\ \A u \in 1 .. n : x \in Columns(tiles[u]) => u = t
  <2>1. x \in Nat
    BY <1>1, <1>7
  <2>2. PICK q \in Nat, r \in 0 .. T - 1 : x = q * T + r
    BY <1>1, <2>1, Divided
  <2>3. q * T \in Nat /\ (q + 1) * T = q * T + T
    BY <1>1, <2>2, Times
  <2>4. q < n
    <3>. SUFFICES ASSUME n <= q PROVE FALSE
      BY <1>3, <2>2
    <3>1. n * T <= q * T /\ n * T \in Nat
      BY <1>1, <1>3, <2>2, Order, Times
    <3>. QED
      BY <1>1, <1>3, <1>7, <2>2, <2>3, <3>1
  <2>. DEFINE t == q + 1
  <2>5. t \in 1 .. n /\ t - 1 = q
    BY <1>3, <2>2, <2>4
  <2>6. tiles[t].start = q * T
    BY <1>6, <2>5
  <2>7. tiles[t].width = IF t * T <= W THEN T ELSE W - q * T
    BY <1>6, <2>5
  <2>8. x \in Columns(tiles[t])
    <3>1. t * T = q * T + T
      BY <2>3
    <3>. HIDE DEF t
    <3>. QED
      BY <1>1, <1>7, <2>2, <2>3, <2>6, <2>7, <3>1 DEF Columns
  <2>9. ASSUME NEW u \in 1 .. n, x \in Columns(tiles[u]) PROVE u = t
    <3>1. (u - 1) * T <= x /\ x < u * T
      <4>1. tiles[u].start = (u - 1) * T /\ tiles[u].width \in 1 .. T
        BY <1>6, <2>9
      <4>2. (u - 1) * T \in Nat /\ u * T = (u - 1) * T + T
        BY <1>5, <2>9
      <4>. QED
        BY <1>1, <2>9, <4>1, <4>2 DEF Columns
    <3>2. u - 1 <= q
      <4>. SUFFICES ASSUME q + 1 <= u - 1 PROVE FALSE
        BY <1>3, <2>2, <2>9
      <4>1. (q + 1) * T <= (u - 1) * T
        BY <1>1, <1>3, <2>2, <2>9, Order
      <4>2. (u - 1) * T \in Nat
        BY <1>5, <2>9
      <4>. QED
        BY <1>1, <2>2, <2>3, <3>1, <4>1, <4>2
    <3>3. q <= u - 1
      <4>. SUFFICES ASSUME u <= q PROVE FALSE
        BY <1>3, <2>2, <2>9
      <4>1. u * T <= q * T
        BY <1>1, <1>3, <2>2, <2>9, Order
      <4>2. u * T \in Int
        BY <1>1, <1>5, <2>9
      <4>. QED
        BY <1>1, <2>2, <2>3, <3>1, <4>1, <4>2
    <3>. QED
      BY <1>3, <2>2, <2>9, <3>2, <3>3
  <2>. HIDE DEF t
  <2>. QED
    BY <2>5, <2>8, <2>9
<1>8. \A t \in 1 .. n : tiles[t].start \in Nat /\ tiles[t].width \in 1 .. T
  BY <1>5, <1>6
<1>. QED
  BY <1>3, <1>4, <1>7, <1>8 DEF tiles, T, W

\* What follows a first element.
LEMMA HeadThen ==
  ASSUME NEW h, NEW t, AList(t)
  PROVE  /\ AList(<<h>> \o t) /\ Len(<<h>> \o t) = 1 + Len(t)
         /\ (<<h>> \o t)[1] = h
         /\ \A i \in 1 .. Len(t) : (<<h>> \o t)[1 + i] = t[i]
         /\ Tail(<<h>> \o t) = t
<1>. DEFINE A == {h} \cup {t[i] : i \in DOMAIN t}
            hd == <<h>>
            all == hd \o t
<1>1. t \in Seq({t[i] : i \in DOMAIN t}) /\ Len(t) \in Nat
  BY ListFacts
<1>2. hd \in Seq({h}) /\ Len(hd) = 1 /\ hd[1] = h
  OBVIOUS
<1>3. hd \in Seq(A) /\ t \in Seq(A)
  BY <1>1, <1>2
<1>. HIDE DEF A, hd
<1>4. /\ all \in Seq(A) /\ Len(all) = 1 + Len(t)
      /\ \A i \in 1 .. 1 + Len(t) : all[i] = IF i <= 1 THEN hd[i] ELSE t[i - 1]
  BY <1>2, <1>3, ConcatProperties
<1>5. all[1] = h
  BY <1>1, <1>2, <1>4
<1>6. ASSUME NEW i \in 1 .. Len(t) PROVE all[1 + i] = t[i]
  <2>1. 1 + i \in 1 .. 1 + Len(t) /\ ~(1 + i <= 1) /\ (1 + i) - 1 = i
    BY <1>1
  <2>. HIDE DEF all
  <2>. QED
    BY <1>4, <2>1
<1>7. AList(all)
  BY <1>4, SequencesAreLists
<1>8. Tail(all) = t
  <2>. HIDE DEF all
  <2>1. all # <<>>
    BY <1>1, <1>4
  <2>2. /\ Tail(all) \in Seq(A) /\ Len(Tail(all)) = Len(all) - 1
        /\ \A i \in 1 .. Len(Tail(all)) : Tail(all)[i] = all[i + 1]
    BY <1>4, <2>1, HeadTailProperties
  <2>3. Len(Tail(all)) = Len(t) /\ \A i \in 1 .. Len(t) : i + 1 = 1 + i
    BY <1>1, <1>4, <2>2
  <2>4. \A i \in 1 .. Len(t) : Tail(all)[i] = t[i]
    BY <1>6, <2>2, <2>3
  <2>. DEFINE rest == Tail(all)
  <2>5. rest \in Seq(A) /\ Len(rest) = Len(t) /\ \A i \in 1 .. Len(t) : rest[i] = t[i]
    BY <2>2, <2>3, <2>4
  <2>. HIDE DEF rest
  <2>6. rest = [i \in 1 .. Len(t) |-> rest[i]]
    BY <2>5
  <2>7. t = [i \in 1 .. Len(t) |-> t[i]]
    BY <1>3
  <2>8. rest = t
    BY <2>5, <2>6, <2>7
  <2>. QED
    BY <2>8 DEF rest
<1>. QED
  BY <1>4, <1>5, <1>6, <1>7, <1>8 DEF hd

\* The frames of a segment have the same number of words.
Worded(frames, size) ==
  AList(frames) /\ \A f \in DOMAIN frames : DOMAIN frames[f] = 1 .. size
Laid(s, kind, tile, frames, size) ==
  /\ AList(s) /\ Len(s) \in Nat \ {0}
  /\ s[1] = <<"segment", [kind |-> kind, tile |-> tile, frames |-> Len(frames)]>>
  /\ \A j \in 2 .. Len(s) : s[j][1] = "word"
  /\ \A f \in 1 .. Len(frames), p \in 1 .. size :
       /\ 1 + ((f - 1) * size + p) \in 1 .. Len(s)
       /\ s[1 + ((f - 1) * size + p)] = <<"word", frames[f][p]>>
LEMMA SegmentFacts ==
  ASSUME NEW kind, NEW tile, NEW frames, NEW size \in Nat, Worded(frames, size)
  PROVE  Laid(segment(kind, tile, frames), kind, tile, frames, size)
<1>. DEFINE h == <<"segment", [kind |-> kind, tile |-> tile, frames |-> Len(frames)]>>
            words(f) == [i \in DOMAIN frames[f] |-> <<"word", frames[f][i]>>]
            all == [f \in DOMAIN frames |-> words(f)]
            flat == FlattenSeq(all)
            n == Len(frames)
            s == segment(kind, tile, frames)
<1>1. s = <<h>> \o flat
  BY DEF segment
<1>2. n \in Nat /\ DOMAIN frames = 1 .. n /\ \A f \in 1 .. n : DOMAIN frames[f] = 1 .. size
  BY ListFacts DEF Worded
<1>3. \A f \in 1 .. n : words(f) = [i \in 1 .. size |-> <<"word", frames[f][i]>>]
  BY <1>2
<1>4. DOMAIN all = 1 .. n /\ \A f \in 1 .. n : all[f] = [i \in 1 .. size |-> <<"word", frames[f][i]>>]
  BY <1>2, <1>3
<1>. HIDE DEF n, words, h, s
<1>5. /\ AList(all) /\ Len(all) = n
      /\ \A f \in 1 .. n : AList(all[f]) /\ Len(all[f]) = size
  <2>1. all = [f \in 1 .. n |-> all[f]]
    BY <1>2, <1>4
  <2>. HIDE DEF all
  <2>2. AList(all)
    BY <1>2, <2>1 DEF AList
  <2>3. Len(all) \in Nat /\ DOMAIN all = 1 .. Len(all)
    BY <2>2, ListFacts
  <2>4. Len(all) = n
    BY <1>2, <1>4, <2>3
  <2>5. ASSUME NEW f \in 1 .. n PROVE AList(all[f]) /\ Len(all[f]) = size
    <3>1. all[f] = [i \in 1 .. size |-> all[f][i]] /\ DOMAIN all[f] = 1 .. size
      BY <1>4, <2>5
    <3>2. AList(all[f])
      BY <3>1 DEF AList
    <3>3. Len(all[f]) \in Nat /\ DOMAIN all[f] = 1 .. Len(all[f])
      BY <3>2, ListFacts
    <3>. QED
      BY <3>1, <3>2, <3>3
  <2>. QED
    BY <2>2, <2>4, <2>5
<1>. HIDE DEF all
<1>6. Even(all, size)
  BY <1>4, <1>5 DEF Even
<1>7. /\ AList(flat)
      /\ n > 0 => Len(flat) = (n - 1) * size + Len(all[n])
      /\ \A i \in 1 .. n, j \in Nat : j \in 1 .. Len(all[i]) => flat[(i - 1) * size + j] = all[i][j]
  BY <1>5, <1>6, EvenParts
<1>0. Len(flat) \in Nat
  BY <1>7, ListFacts
<1>8. ASSUME NEW f \in 1 .. n, NEW p \in 1 .. size
      PROVE  /\ (f - 1) * size + p \in 1 .. Len(flat)
             /\ flat[(f - 1) * size + p] = <<"word", frames[f][p]>>
  <2>1. Len(flat) = (n - 1) * size + size
    <3>1. n > 0 /\ n \in 1 .. n
      BY <1>2, <1>8
    <3>. QED
      BY <1>5, <1>7, <3>1
  <2>2. (f - 1) * size \in Nat /\ (f - 1) * size <= (n - 1) * size /\ (n - 1) * size \in Nat
    <3>1. f - 1 \in Nat /\ n - 1 \in Nat /\ f - 1 <= n - 1
      BY <1>2, <1>8
    <3>. QED
      BY <3>1, Order, Times
  <2>3. p \in Nat /\ p \in 1 .. Len(all[f])
    BY <1>5
  <2>4. flat[(f - 1) * size + p] = all[f][p]
    BY <1>7, <2>3
  <2>5. all[f][p] = <<"word", frames[f][p]>>
    BY <1>4
  <2>6. (f - 1) * size + p \in 1 .. Len(flat)
    BY <2>1, <2>2
  <2>. QED
    BY <2>4, <2>5, <2>6
<1>9. \A j \in 1 .. Len(flat) : flat[j][1] = "word"
  <2>1. PICK off : /\ Begins(off, all) /\ Len(flat) = off[Len(all) + 1]
                   /\ \A i \in 1 .. Len(all), j \in Nat : j \in 1 .. Len(all[i]) =>
                        flat[off[i] + j] = all[i][j]
    <3>1. AList(all) /\ \A i \in DOMAIN all : AList(all[i])
      BY <1>4, <1>5
    <3>. QED
      BY <3>1, FlattenedParts
  <2>2. ASSUME NEW j \in 1 .. Len(flat) PROVE flat[j][1] = "word"
    <3>1. Len(all) \in Nat /\ \A i \in 1 .. Len(all) : Len(all[i]) \in Nat
      BY <1>2, <1>5
    <3>2. j \in 1 .. off[Len(all) + 1]
      BY <2>1, <2>2
    <3>3. \E i \in 1 .. Len(all) : \E k \in 1 .. Len(all[i]) : j = off[i] + k
      BY <2>1, <3>1, <3>2, Covered
    <3>4. PICK i \in 1 .. n : \E k \in 1 .. size : j = off[i] + k
      BY <1>5, <3>3
    <3>5. PICK k \in 1 .. size : j = off[i] + k
      BY <3>4
    <3>6. flat[j] = all[i][k]
      <4>1. i \in 1 .. Len(all) /\ k \in Nat /\ k \in 1 .. Len(all[i])
        BY <1>5, <3>4, <3>5
      <4>2. flat[off[i] + k] = all[i][k]
        BY <2>1, <4>1
      <4>. QED
        BY <3>5, <4>2
    <3>7. all[i][k] = <<"word", frames[i][k]>>
      BY <1>4, <3>4, <3>5
    <3>. QED
      BY <3>6, <3>7
  <2>. QED
    BY <2>2
<1>. HIDE DEF flat
<1>10. /\ AList(s) /\ Len(s) = 1 + Len(flat) /\ s[1] = h
       /\ \A i \in 1 .. Len(flat) : s[1 + i] = flat[i]
  BY <1>1, <1>7, HeadThen
<1>11. \A j \in 2 .. Len(s) : s[j][1] = "word"
  <2>. SUFFICES ASSUME NEW j \in 2 .. Len(s) PROVE s[j][1] = "word"
    OBVIOUS
  <2>1. j - 1 \in 1 .. Len(flat) /\ 1 + (j - 1) = j
    BY <1>0, <1>10
  <2>2. s[1 + (j - 1)] = flat[j - 1]
    BY <1>10, <2>1
  <2>. QED
    BY <1>9, <2>1, <2>2
<1>12. ASSUME NEW f \in 1 .. n, NEW p \in 1 .. size
       PROVE  /\ 1 + ((f - 1) * size + p) \in 1 .. Len(s)
              /\ s[1 + ((f - 1) * size + p)] = <<"word", frames[f][p]>>
  <2>. DEFINE k == (f - 1) * size + p
  <2>1. k \in 1 .. Len(flat) /\ flat[k] = <<"word", frames[f][p]>>
    BY <1>8
  <2>. HIDE DEF k
  <2>2. 1 + k \in 1 .. Len(s) /\ s[1 + k] = <<"word", frames[f][p]>>
    BY <1>0, <1>10, <2>1
  <2>. QED
    BY <2>2 DEF k
<1>13. Len(s) \in Nat \ {0}
  BY <1>0, <1>10
<1>. QED
  BY <1>10, <1>11, <1>12, <1>13 DEF s, n, h, Laid

\* No part begins after the end.
LEMMA BeginsWithin ==
  ASSUME NEW seqs, Len(seqs) \in Nat, \A i \in 1 .. Len(seqs) : Len(seqs[i]) \in Nat,
         NEW off, Begins(off, seqs), NEW i \in 1 .. Len(seqs), NEW j \in 1 .. Len(seqs[i])
  PROVE  off[i] + j \in 1 .. off[Len(seqs) + 1]
<1>. DEFINE n == Len(seqs)
            S == {m \in Nat : m <= n => off[(n + 1) - m] <= off[n + 1]}
<1>1. /\ off \in [1 .. n + 1 -> Nat] /\ n \in Nat
      /\ \A k \in 1 .. n : off[k + 1] = off[k] + Len(seqs[k]) /\ Len(seqs[k]) \in Nat
  BY DEF Begins
<1>. HIDE DEF n
<1>2. off[n + 1] \in Nat
  <2>1. n + 1 \in 1 .. n + 1
    BY <1>1
  <2>. QED
    BY <1>1, <2>1
<1>3. 0 \in S
  <2>1. (n + 1) - 0 = n + 1
    BY <1>1
  <2>. QED
    BY <1>2, <2>1
<1>4. ASSUME NEW m \in Nat, m \in S PROVE m + 1 \in S
  <2>. SUFFICES ASSUME m + 1 <= n PROVE off[(n + 1) - (m + 1)] <= off[n + 1]
    OBVIOUS
  <2>. DEFINE k == (n + 1) - (m + 1)
  <2>1. k \in 1 .. n /\ k + 1 = (n + 1) - m /\ k \in 1 .. n + 1 /\ m <= n
    BY <1>1
  <2>. HIDE DEF k
  <2>2. off[k + 1] <= off[n + 1]
    BY <1>4, <2>1
  <2>3. off[k] \in Nat /\ off[k + 1] = off[k] + Len(seqs[k]) /\ Len(seqs[k]) \in Nat
    BY <1>1, <2>1
  <2>4. off[k] <= off[n + 1]
    BY <1>2, <2>2, <2>3
  <2>. QED
    BY <2>4 DEF k
<1>5. Nat \subseteq S
  <2>. HIDE DEF S
  <2>. QED
    BY <1>3, <1>4, SetInduction
<1>6. i \in 1 .. n /\ j \in 1 .. Len(seqs[i])
  BY DEF n
<1>7. off[i + 1] <= off[n + 1]
  <2>1. n - i \in Nat /\ n - i <= n /\ (n + 1) - (n - i) = i + 1
    BY <1>1, <1>6
  <2>2. n - i \in S
    BY <1>5, <2>1
  <2>3. off[(n + 1) - (n - i)] <= off[n + 1]
    BY <2>1, <2>2
  <2>. QED
    BY <2>1, <2>3
<1>8. off[i] \in Nat /\ off[i + 1] = off[i] + Len(seqs[i]) /\ Len(seqs[i]) \in Nat
  <2>1. i \in 1 .. n + 1
    BY <1>1, <1>6
  <2>. QED
    BY <1>1, <1>6, <2>1
<1>9. off[i] + j \in 1 .. off[n + 1]
  BY <1>2, <1>6, <1>7, <1>8
<1>. QED
  BY <1>9 DEF n

LEMMA Associated ==
  ASSUME NEW a \in Nat, NEW b \in Nat, NEW c \in Nat PROVE a * b * c = a * (b * c)
OBVIOUS

\* What a segment of every tile, with n frames each, is made of.
Tiles == tileColumns(Width)
Drawn(encs, n) ==
  /\ n \in Nat /\ DOMAIN encs = DOMAIN Tiles
  /\ \A t \in DOMAIN Tiles : Worded(encs[t], Tiles[t].width * Height) /\ Len(encs[t]) = n
Segmented(kind, encs) == [t \in DOMAIN Tiles |-> segment(kind, Tiles[t], encs[t])]

\* Every light has one word: the one its column's segment has for it.
LEMMA LightsOfProgram ==
  ASSUME NEW kind, kind # "gif", NEW n, NEW encs, Drawn(encs, n),
         NEW f \in 1 .. n, NEW x \in 0 .. Width - 1, NEW y \in 0 .. Height - 1
  PROVE  \E t \in DOMAIN Tiles :
           /\ x \in Columns(Tiles[t])
           /\ Lights(buildProgram(Segmented(kind, encs)), f, x, y)
                = {[word |-> encs[t][f][(x - Tiles[t].start) * Height + y + 1], kind |-> kind]}
<1>. DEFINE tiles == Tiles
            segs == Segmented(kind, encs)
            program == buildProgram(segs)
            flat == FlattenSeq(segs)
            size(t) == tiles[t].width * Height
            T == Len(tiles)
            header(t) == [kind |-> kind, tile |-> tiles[t], frames |-> n]
<1>1. /\ T \in Nat /\ DOMAIN tiles = 1 .. T /\ AList(tiles)
      /\ \A t \in 1 .. T : tiles[t].start \in Nat /\ tiles[t].width \in 1 .. TileWidth
      /\ \A c \in 0 .. Width - 1 : \E t \in 1 .. T :
           c \in Columns(tiles[t]) /\ \A u \in 1 .. T : c \in Columns(tiles[u]) => u = t
  BY TileFacts DEF Tiles
<1>2. Height \in Nat \ {0} /\ Width \in Nat \ {0} /\ TileWidth \in Nat \ {0} /\ n \in Nat
  BY UploadAssumption DEF Drawn
<1>3. \A t \in 1 .. T : size(t) \in Nat
  BY <1>1, <1>2, Times
<1>4. segs = [t \in 1 .. T |-> segment(kind, tiles[t], encs[t])]
  BY <1>1 DEF Segmented
<1>5. program = <<<<"program", Len(segs)>>>> \o flat
  BY DEF buildProgram
<1>6. \A t \in 1 .. T : Worded(encs[t], size(t)) /\ Len(encs[t]) = n
  BY <1>1 DEF Drawn
<1>. HIDE DEF tiles, size, T, segs, program
<1>7. ASSUME NEW t \in 1 .. T
      PROVE  /\ AList(segs[t]) /\ Len(segs[t]) \in Nat \ {0}
             /\ segs[t][1] = <<"segment", header(t)>>
             /\ \A j \in 2 .. Len(segs[t]) : segs[t][j][1] = "word"
             /\ \A g \in 1 .. n, p \in 1 .. size(t) :
                  /\ 1 + ((g - 1) * size(t) + p) \in 1 .. Len(segs[t])
                  /\ segs[t][1 + ((g - 1) * size(t) + p)] = <<"word", encs[t][g][p]>>
  <2>1. size(t) \in Nat /\ Worded(encs[t], size(t)) /\ Len(encs[t]) = n
    BY <1>3, <1>6
  <2>2. segs[t] = segment(kind, tiles[t], encs[t])
    BY <1>4, <1>7
  <2>. DEFINE z == size(t)
              e == encs[t]
              s == segs[t]
  <2>3. z \in Nat /\ Worded(e, z) /\ Len(e) = n /\ s = segment(kind, tiles[t], e)
    BY <2>1, <2>2
  <2>. HIDE DEF z, e, s
  <2>4. Laid(s, kind, tiles[t], e, z)
    BY <2>3, SegmentFacts
  <2>5. /\ AList(s) /\ Len(s) \in Nat \ {0} /\ s[1] = <<"segment", header(t)>>
        /\ \A j \in 2 .. Len(s) : s[j][1] = "word"
    BY <2>3, <2>4 DEF Laid
  <2>6. \A g \in 1 .. n, p \in 1 .. z :
          /\ 1 + ((g - 1) * z + p) \in 1 .. Len(s) /\ s[1 + ((g - 1) * z + p)] = <<"word", e[g][p]>>
    BY <2>3, <2>4 DEF Laid
  <2>. QED
    BY <2>5, <2>6 DEF z, e, s
<1>8. AList(segs) /\ DOMAIN segs = 1 .. T /\ Len(segs) = T
  <2>1. segs = [t \in 1 .. T |-> segs[t]] /\ DOMAIN segs = 1 .. T
    BY <1>4
  <2>2. AList(segs)
    BY <1>1, <2>1 DEF AList
  <2>3. Len(segs) \in Nat /\ DOMAIN segs = 1 .. Len(segs)
    BY <2>2, ListFacts
  <2>. QED
    BY <1>1, <2>1, <2>2, <2>3
<1>9. AList(flat) /\ \E off : /\ Begins(off, segs) /\ Len(flat) = off[T + 1]
                              /\ \A i \in 1 .. T, j \in Nat : j \in 1 .. Len(segs[i]) =>
                                   flat[off[i] + j] = segs[i][j]
  <2>1. \A i \in DOMAIN segs : AList(segs[i])
    BY <1>7, <1>8
  <2>2. /\ AList(FlattenSeq(segs))
        /\ \E off : /\ Begins(off, segs) /\ Len(FlattenSeq(segs)) = off[Len(segs) + 1]
                    /\ \A i \in 1 .. Len(segs), j \in Nat : j \in 1 .. Len(segs[i]) =>
                         FlattenSeq(segs)[off[i] + j] = segs[i][j]
    BY <1>8, <2>1, FlattenedParts
  <2>. QED
    BY <1>8, <2>2
<1>10. PICK off : /\ Begins(off, segs) /\ Len(flat) = off[T + 1]
                  /\ \A i \in 1 .. T, j \in Nat : j \in 1 .. Len(segs[i]) =>
                       flat[off[i] + j] = segs[i][j]
  BY <1>9
<1>. HIDE DEF flat
<1>11. /\ program[1] = <<"program", Len(segs)>> /\ DOMAIN program = 1 .. 1 + Len(flat)
       /\ \A i \in 1 .. Len(flat) : program[1 + i] = flat[i]
       /\ Len(flat) \in Nat
  <2>1. Len(flat) \in Nat
    BY <1>9, ListFacts
  <2>2. /\ AList(program) /\ Len(program) = 1 + Len(flat) /\ program[1] = <<"program", Len(segs)>>
        /\ \A i \in 1 .. Len(flat) : program[1 + i] = flat[i]
    BY <1>5, <1>9, HeadThen
  <2>3. DOMAIN program = 1 .. Len(program)
    BY <2>2, ListFacts
  <2>. QED
    BY <2>1, <2>2, <2>3
<1>12. \A i \in 1 .. T : off[i] \in Nat /\ off[i + 1] = off[i] + Len(segs[i])
  <2>1. /\ off \in [1 .. T + 1 -> Nat]
        /\ \A i \in 1 .. T : off[i + 1] = off[i] + Len(segs[i])
    BY <1>8, <1>10 DEF Begins
  <2>2. \A i \in 1 .. T : i \in 1 .. T + 1
    BY <1>1
  <2>. QED
    BY <2>1, <2>2
<1>13. ASSUME NEW i \in 1 .. T, NEW j \in 1 .. Len(segs[i])
       PROVE  /\ 1 + (off[i] + j) \in DOMAIN program
              /\ program[1 + (off[i] + j)] = segs[i][j]
  <2>1. off[i] + j \in 1 .. Len(flat)
    <3>1. Len(segs) \in Nat /\ \A k \in 1 .. Len(segs) : Len(segs[k]) \in Nat
      BY <1>1, <1>7, <1>8
    <3>2. i \in 1 .. Len(segs)
      BY <1>8
    <3>3. off[i] + j \in 1 .. off[Len(segs) + 1]
      BY <1>10, <1>13, <3>1, <3>2, BeginsWithin
    <3>. QED
      BY <1>8, <1>10, <3>3
  <2>2. j \in Nat
    BY <1>7
  <2>3. flat[off[i] + j] = segs[i][j]
    BY <1>10, <2>2
  <2>. QED
    BY <1>11, <2>1, <2>3
<1>14. ASSUME NEW i \in DOMAIN program, program[i][1] = "segment"
       PROVE  \E t \in 1 .. T : i = off[t] + 2
  <2>1. i # 1
    <3>1. "program" # "segment"
      OBVIOUS
    <3>. QED
      BY <1>11, <1>14, <3>1
  <2>2. i - 1 \in 1 .. Len(flat) /\ 1 + (i - 1) = i /\ i \in Nat
    BY <1>11, <1>14, <2>1
  <2>3. \E t \in 1 .. Len(segs) : \E j \in 1 .. Len(segs[t]) : i - 1 = off[t] + j
    <3>1. Len(segs) \in Nat /\ \A k \in 1 .. Len(segs) : Len(segs[k]) \in Nat
      BY <1>1, <1>7, <1>8
    <3>. DEFINE p == i - 1
    <3>2. p \in 1 .. off[Len(segs) + 1]
      BY <1>8, <1>10, <2>2
    <3>. HIDE DEF p
    <3>0. Begins(off, segs)
      BY <1>10
    <3>3. \E t \in 1 .. Len(segs) : \E j \in 1 .. Len(segs[t]) : p = off[t] + j
      BY <3>0, <3>1, <3>2, Covered
    <3>. QED
      BY <3>3 DEF p
  <2>4. PICK t \in 1 .. T : \E j \in 1 .. Len(segs[t]) : i - 1 = off[t] + j
    BY <1>8, <2>3
  <2>5. PICK j \in 1 .. Len(segs[t]) : i - 1 = off[t] + j
    BY <2>4
  <2>6. program[i] = segs[t][j]
    <3>1. program[1 + (off[t] + j)] = segs[t][j]
      BY <1>13, <2>4, <2>5
    <3>2. 1 + (off[t] + j) = i
      BY <2>2, <2>5
    <3>. QED
      BY <3>1, <3>2
  <2>7. j = 1
    <3>. SUFFICES ASSUME j # 1 PROVE FALSE
      OBVIOUS
    <3>1. j \in 2 .. Len(segs[t])
      BY <1>7, <2>4, <2>5
    <3>2. segs[t][j][1] = "word"
      BY <1>7, <2>4, <3>1
    <3>3. "word" # "segment"
      OBVIOUS
    <3>. QED
      BY <1>14, <2>6, <3>2, <3>3
  <2>. QED
    BY <1>12, <2>2, <2>4, <2>5, <2>7
<1>15. ASSUME NEW t \in 1 .. T
       PROVE  off[t] + 2 \in DOMAIN program /\ program[off[t] + 2] = <<"segment", header(t)>>
  <2>. HIDE DEF header
  <2>0. Len(segs[t]) \in Nat \ {0} /\ segs[t][1] = <<"segment", header(t)>>
    BY <1>7, <1>15
  <2>1. 1 \in 1 .. Len(segs[t]) /\ segs[t][1] = <<"segment", header(t)>>
    BY <2>0
  <2>2. 1 + (off[t] + 1) \in DOMAIN program /\ program[1 + (off[t] + 1)] = segs[t][1]
    BY <1>13, <2>1
  <2>3. 1 + (off[t] + 1) = off[t] + 2
    BY <1>12, <1>15
  <2>. QED
    BY <2>1, <2>2, <2>3
<1>. DEFINE drawn(t) == [kind |-> kind, tile |-> tiles[t],
                         frames |-> Frames(program, off[t] + 2, tiles[t], n)]
<1>16. Segments(program) = {drawn(t) : t \in 1 .. T}
  <2>. DEFINE I == {j \in DOMAIN program : program[j][1] = "segment" /\ program[j][2].kind # "gif"}
  <2>1. I = {off[t] + 2 : t \in 1 .. T}
    <3>1. ASSUME NEW i \in I PROVE i \in {off[t] + 2 : t \in 1 .. T}
      BY <1>14
    <3>2. ASSUME NEW t \in 1 .. T PROVE off[t] + 2 \in I
      <4>1. program[off[t] + 2] = <<"segment", header(t)>> /\ off[t] + 2 \in DOMAIN program
        BY <1>15
      <4>2. <<"segment", header(t)>>[1] = "segment" /\ <<"segment", header(t)>>[2] = header(t)
            /\ header(t).kind = kind
        OBVIOUS
      <4>. QED
        BY <4>1, <4>2
    <3>. QED
      BY <3>1, <3>2
  <2>2. ASSUME NEW t \in 1 .. T
        PROVE  [kind |-> program[off[t] + 2][2].kind, tile |-> program[off[t] + 2][2].tile,
                frames |-> Frames(program, off[t] + 2, program[off[t] + 2][2].tile,
                                  program[off[t] + 2][2].frames)] = drawn(t)
    <3>1. program[off[t] + 2][2] = header(t)
      BY <1>15
    <3>. QED
      BY <3>1
  <2>3. Segments(program) = {[kind |-> program[i][2].kind, tile |-> program[i][2].tile,
             frames |-> Frames(program, i, program[i][2].tile, program[i][2].frames)] : i \in I}
    BY DEF Segments
  <2>. HIDE DEF I, drawn, header
  <2>. QED
    BY <2>1, <2>2, <2>3
<1>17. ASSUME NEW t \in 1 .. T, x \in Columns(tiles[t])
       PROVE  drawn(t).frames[f][<<x, y>>]
                = encs[t][f][(x - tiles[t].start) * Height + y + 1]
  <2>. DEFINE w == tiles[t].width
              a == x - tiles[t].start
              p == a * Height + y + 1
  <2>1. /\ w \in Nat /\ a \in 0 .. w - 1 /\ tiles[t].start \in Nat
        /\ x \in tiles[t].start .. tiles[t].start + w - 1 /\ f \in 1 .. n /\ f - 1 \in Nat
    <3>1. w \in 1 .. TileWidth /\ tiles[t].start \in Nat
      BY <1>1, <1>17
    <3>2. x \in tiles[t].start .. tiles[t].start + w - 1
      BY <1>17 DEF Columns
    <3>. HIDE DEF w
    <3>3. w \in Nat /\ a \in 0 .. w - 1
      BY <1>2, <3>1, <3>2
    <3>. QED
      BY <1>2, <3>1, <3>2, <3>3
  <2>2. drawn(t).frames = Frames(program, off[t] + 2, tiles[t], n)
    OBVIOUS
  <2>3. drawn(t).frames[f][<<x, y>>] =
          program[off[t] + 2 + (f - 1) * w * Height + a * Height + y + 1][2]
    BY <2>1, <2>2 DEF Frames
  <2>. HIDE DEF w, a
  <2>4. p \in 1 .. w * Height /\ a * Height \in Nat
    <3>1. a * Height \in Nat /\ (a + 1) * Height = a * Height + Height /\ w * Height \in Nat
      BY <1>2, <2>1, Times
    <3>2. (a + 1) * Height <= w * Height
      BY <1>2, <2>1, Order
    <3>. QED
      BY <1>2, <3>1, <3>2
  <2>5. size(t) = w * Height
    BY DEF size, w
  <2>6. (f - 1) * w * Height = (f - 1) * size(t) /\ (f - 1) * size(t) \in Nat
    <3>1. (f - 1) * w * Height = (f - 1) * (w * Height)
      BY <1>2, <2>1, Associated
    <3>. QED
      BY <1>3, <2>1, <2>5, <3>1, Times
  <2>. HIDE DEF p
  <2>7. /\ 1 + ((f - 1) * size(t) + p) \in 1 .. Len(segs[t])
        /\ segs[t][1 + ((f - 1) * size(t) + p)] = <<"word", encs[t][f][p]>>
    BY <1>7, <2>1, <2>4, <2>5
  <2>8. program[1 + (off[t] + (1 + ((f - 1) * size(t) + p)))] = <<"word", encs[t][f][p]>>
    BY <1>13, <2>7
  <2>9. 1 + (off[t] + (1 + ((f - 1) * size(t) + p)))
          = off[t] + 2 + (f - 1) * w * Height + a * Height + y + 1
    <3>. DEFINE o == off[t]
                m == (f - 1) * size(t)
                k == a * Height
    <3>1. o \in Nat
      BY <1>12, <1>17
    <3>2. m \in Nat /\ (f - 1) * w * Height = m /\ k \in Nat /\ p = k + y + 1
      BY <2>4, <2>6 DEF p
    <3>. HIDE DEF o, m, k
    <3>3. 1 + (o + (1 + (m + p))) = o + 2 + m + k + y + 1
      BY <1>2, <3>1, <3>2
    <3>. QED
      BY <3>2, <3>3 DEF o, m, k
  <2>. QED
    BY <2>3, <2>8, <2>9 DEF p, a
<1>. DEFINE result(t) == [word |-> encs[t][f][(x - tiles[t].start) * Height + y + 1], kind |-> kind]
<1>18. PICK t \in 1 .. T : x \in Columns(tiles[t]) /\ \A u \in 1 .. T : x \in Columns(tiles[u]) => u = t
  BY <1>1
<1>19. Lights(program, f, x, y) = {result(t)}
  <2>1. \A u \in 1 .. T : drawn(u).tile = tiles[u] /\ drawn(u).kind = kind
    OBVIOUS
  <2>2. \A u \in 1 .. T : Len(drawn(u).frames) = n
    <3>. SUFFICES ASSUME NEW u \in 1 .. T PROVE Len(drawn(u).frames) = n
      OBVIOUS
    <3>1. DOMAIN Frames(program, off[u] + 2, tiles[u], n) = 1 .. n
      BY DEF Frames
    <3>. DEFINE fr == Frames(program, off[u] + 2, tiles[u], n)
    <3>2. fr = [k \in 1 .. n |-> fr[k]]
      BY DEF Frames
    <3>3. DOMAIN fr = 1 .. n
      BY <3>1
    <3>. HIDE DEF fr
    <3>4. AList(fr)
      BY <1>2, <3>2 DEF AList
    <3>5. Len(fr) = n
      BY <1>2, <3>3, <3>4, ListFacts
    <3>. QED
      BY <3>5 DEF fr
  <2>3. {s \in Segments(program) : /\ x \in s.tile.start .. s.tile.start + s.tile.width - 1
                                    /\ x < s.tile.start + TileWidth /\ f <= Len(s.frames)} = {drawn(t)}
    <3>. HIDE DEF drawn
    <3>1. drawn(t) \in Segments(program) /\ x \in Columns(drawn(t).tile) /\ f <= Len(drawn(t).frames)
      BY <1>2, <1>16, <1>18, <2>1, <2>2
    <3>2. x < drawn(t).tile.start + TileWidth
      BY <1>1, <1>2, <1>18, <2>1 DEF Columns
    <3>3. ASSUME NEW s \in Segments(program), x \in Columns(s.tile) PROVE s = drawn(t)
      BY <1>16, <1>18, <2>1, <3>3
    <3>. QED
      BY <3>1, <3>2, <3>3 DEF Columns
  <2>4. Lights(program, f, x, y) = {[word |-> s.frames[f][<<x, y>>], kind |-> s.kind] : s \in {drawn(t)}}
    BY <2>3 DEF Lights
  <2>5. drawn(t).frames[f][<<x, y>>] = encs[t][f][(x - tiles[t].start) * Height + y + 1]
    BY <1>17, <1>18
  <2>. HIDE DEF drawn
  <2>. QED
    BY <1>18, <2>1, <2>4, <2>5
<1>. QED
  BY <1>1, <1>18, <1>19 DEF tiles, segs, program

\* A program, announced, then cut into chunks.
Announces(packets, program) ==
  LET pieces == Pieces(lzssCompressSafe(program))
      codes == Len(lzssCompressSafe(program)) IN
  /\ AList(program) /\ Len(program) > 0 /\ program # <<>>
  /\ AList(packets) /\ Len(packets) = 1 + Len(pieces) /\ Len(pieces) > 0 /\ AList(pieces)
  /\ packets[1] = [type |-> "announce", program |-> program]
  /\ \A i \in 1 .. Len(pieces) :
       packets[1 + i] = [type |-> "chunk", total |-> codes, index |-> i - 1, data |-> pieces[i]]

\* Every list is compressed to a list of as many literals.
LEMMA SafeCodes ==
  ASSUME NEW program, AList(program)
  PROVE  /\ AList(lzssCompressSafe(program)) /\ Len(lzssCompressSafe(program)) = Len(program)
         /\ lzssDecompress(lzssCompressSafe(program)) = program
<1>. DEFINE codes == lzssCompressSafe(program)
<1>1. program \in Seq({program[i] : i \in DOMAIN program}) /\ Len(program) \in Nat
  BY ListFacts
<1>2. codes = [i \in 1 .. Len(program) |-> Literal(program[i])]
  BY DEF lzssCompressSafe
<1>3. lzssDecompress(codes) = program
  BY <1>1, SafeCodesDecode
<1>. HIDE DEF codes
<1>4. codes = [i \in 1 .. Len(program) |-> codes[i]] /\ DOMAIN codes = 1 .. Len(program)
  BY <1>2
<1>5. AList(codes)
  <2>. DEFINE n == Len(program)
  <2>1. n \in Int /\ codes = [i \in 1 .. n |-> codes[i]]
    BY <1>1, <1>4
  <2>. HIDE DEF n
  <2>. QED
    BY <2>1 DEF AList
<1>6. Len(codes) = Len(program)
  BY <1>1, <1>4, <1>5, ListFacts
<1>. QED
  BY <1>3, <1>5, <1>6 DEF codes

\* Every compiled program is announced and cut into its pieces.
LEMMA CompiledAnnounces ==
  ASSUME NEW segments, AList(segments), \A t \in DOMAIN segments : AList(segments[t])
  PROVE  Announces(compileProgram(segments), buildProgram(segments))
<1>. DEFINE program == buildProgram(segments)
            codes == lzssCompressSafe(program)
            pieces == Pieces(codes)
            chunks == buildDataChunkPackets(codes)
            h == [type |-> "announce", program |-> program]
            hd == <<"program", Len(segments)>>
            flat == FlattenSeq(segments)
            packets == compileProgram(segments)
<1>1. program = <<hd>> \o flat /\ AList(flat)
  BY FlattenedLists DEF buildProgram
<1>. HIDE DEF hd, flat
<1>2. AList(program) /\ Len(program) = 1 + Len(flat) /\ Len(flat) \in Nat
  BY <1>1, HeadThen, ListFacts
<1>3. Len(program) > 0 /\ program # <<>>
  <2>1. Len(program) > 0
    BY <1>2
  <2>2. Len(<<>>) = 0
    OBVIOUS
  <2>. QED
    BY <2>1, <2>2
<1>. HIDE DEF program
<1>4. AList(codes) /\ Len(codes) > 0
  BY <1>2, <1>3, SafeCodes
<1>5. AList(pieces) /\ Len(pieces) > 0
  BY <1>4, PiecesJoin
<1>6. packets = <<h>> \o chunks
  BY DEF compileProgram, program
<1>. HIDE DEF codes
<1>7. chunks = [i \in DOMAIN pieces |-> [type |-> "chunk", total |-> Len(codes), index |-> i - 1,
                                        data |-> pieces[i]]]
  BY DEF buildDataChunkPackets
<1>. HIDE DEF pieces, chunks, packets, h
<1>8. AList(chunks) /\ Len(chunks) = Len(pieces) /\ DOMAIN pieces = 1 .. Len(pieces) /\ Len(pieces) \in Nat
  <2>1. Len(pieces) \in Nat /\ DOMAIN pieces = 1 .. Len(pieces)
    BY <1>5, ListFacts
  <2>2. chunks = [i \in 1 .. Len(pieces) |-> chunks[i]] /\ DOMAIN chunks = 1 .. Len(pieces)
    BY <1>7, <2>1
  <2>3. AList(chunks)
    BY <2>1, <2>2 DEF AList
  <2>4. Len(chunks) = Len(pieces)
    BY <2>1, <2>2, <2>3, ListFacts
  <2>. QED
    BY <2>1, <2>3, <2>4
<1>9. /\ AList(packets) /\ Len(packets) = 1 + Len(pieces) /\ packets[1] = h
      /\ \A i \in 1 .. Len(pieces) : packets[1 + i] = chunks[i]
  BY <1>6, <1>8, HeadThen
<1>10. \A i \in 1 .. Len(pieces) :
         packets[1 + i] = [type |-> "chunk", total |-> Len(codes), index |-> i - 1, data |-> pieces[i]]
  BY <1>7, <1>8, <1>9
<1>. QED
  BY <1>2, <1>3, <1>5, <1>9, <1>10 DEF Announces, packets, program, h, pieces, codes

\* What is joined of the packets decodes to the program.
LEMMA AnnouncedDecodes ==
  ASSUME NEW packets, NEW program, Announces(packets, program)
  PROVE  lzssDecompress(Joined(packets)) = program
<1>. DEFINE codes == lzssCompressSafe(program)
            pieces == Pieces(codes)
            rest == Tail(packets)
            n == Len(pieces)
<1>1. /\ AList(program) /\ Len(program) > 0 /\ AList(packets) /\ Len(packets) = 1 + n /\ n > 0
      /\ AList(pieces) /\ packets[1].type = "announce"
      /\ \A i \in 1 .. n : packets[1 + i].data = pieces[i]
  <2>1. /\ AList(program) /\ Len(program) > 0 /\ AList(packets) /\ Len(packets) = 1 + n /\ n > 0
        /\ AList(pieces) /\ packets[1] = [type |-> "announce", program |-> program]
        /\ \A i \in 1 .. n :
             packets[1 + i] = [type |-> "chunk", total |-> Len(codes), index |-> i - 1, data |-> pieces[i]]
    BY DEF Announces
  <2>. HIDE DEF codes, pieces, n
  <2>2. packets[1].type = "announce"
    BY <2>1
  <2>3. ASSUME NEW i \in 1 .. n PROVE packets[1 + i].data = pieces[i]
    <3>1. packets[1 + i] = [type |-> "chunk", total |-> Len(codes), index |-> i - 1, data |-> pieces[i]]
      BY <2>1, <2>3
    <3>. QED
      BY <3>1
  <2>. QED
    BY <2>1, <2>2, <2>3
<1>2. /\ AList(codes) /\ Len(codes) > 0 /\ lzssDecompress(codes) = program
  BY <1>1, SafeCodes
<1>3. FlattenSeq(pieces) = codes
  BY <1>2, PiecesJoin
<1>. HIDE DEF codes, pieces
<1>4. n \in Nat /\ DOMAIN pieces = 1 .. n /\ pieces = [i \in 1 .. n |-> pieces[i]]
  <2>1. pieces \in Seq({pieces[i] : i \in DOMAIN pieces})
    BY <1>1, ListFacts
  <2>. QED
    BY <2>1
<1>5. Len(rest) = n /\ DOMAIN rest = 1 .. n /\ \A i \in 1 .. n : rest[i] = packets[1 + i]
  <2>1. packets \in Seq({packets[i] : i \in DOMAIN packets})
    BY <1>1, ListFacts
  <2>2. packets # <<>>
    BY <1>1, <1>4
  <2>3. /\ rest \in Seq({packets[i] : i \in DOMAIN packets}) /\ Len(rest) = Len(packets) - 1
        /\ \A i \in 1 .. Len(rest) : rest[i] = packets[i + 1]
    BY <2>1, <2>2, HeadTailProperties
  <2>. HIDE DEF rest
  <2>4. Len(rest) = n
    BY <1>1, <1>4, <2>3
  <2>5. \A i \in 1 .. n : i + 1 = 1 + i
    BY <1>4
  <2>. QED
    BY <2>3, <2>4, <2>5
<1>6. Chunked(packets) = rest
  BY <1>1 DEF Chunked
<1>. HIDE DEF rest
<1>7. [i \in DOMAIN rest |-> rest[i].data] = pieces
  BY <1>1, <1>4, <1>5
<1>8. Joined(packets) = FlattenSeq([i \in DOMAIN rest |-> rest[i].data])
  BY <1>6 DEF Joined
<1>. QED
  BY <1>2, <1>3, <1>7, <1>8

\* The word of a pixel, and every light of a program that was cut into tiles.
Word(pixel, off) == IF off = Raw THEN pixel ELSE IF isOff(pixel) THEN off ELSE rgb444PixelColor(pixel)
Shining(program, kind, frames, off) ==
  \A f \in DOMAIN frames, x \in 0 .. Width - 1, y \in 0 .. Height - 1 :
    Lights(program, f, x, y) = {[word |-> Word(frames[f][<<x, y>>], off), kind |-> kind]}
\* What is cut into tiles shines as it was, the narrower last tile included.
LEMMA TiledShines ==
  ASSUME NEW kind, kind # "gif", NEW frames, IsList(frames), NEW off
  PROVE  \E program : Announces(Tiled(kind, frames, off), program) /\ Shining(program, kind, frames, off)
<1>. DEFINE encoded(frame, tile) == IF off = Raw THEN encodeRawWordRegion(frame, tile)
                                    ELSE encodeFrameRegion(frame, tile, off)
            encs == [t \in DOMAIN Tiles |-> [f \in DOMAIN frames |-> encoded(frames[f], Tiles[t])]]
            segments == Segmented(kind, encs)
            program == buildProgram(segments)
            n == Len(frames)
<1>1. n \in Nat /\ DOMAIN frames = 1 .. n
  BY DEF IsList
<1>2. /\ Len(Tiles) \in Nat /\ DOMAIN Tiles = 1 .. Len(Tiles) /\ AList(Tiles)
      /\ \A t \in DOMAIN Tiles : Tiles[t].start \in Nat /\ Tiles[t].width \in 1 .. TileWidth
  BY TileFacts DEF Tiles
<1>3. Height \in Nat \ {0} /\ Width \in Nat \ {0} /\ TileWidth \in Nat \ {0}
  BY UploadAssumption
<1>4. ASSUME NEW frame, NEW t \in DOMAIN Tiles
      PROVE  /\ DOMAIN encoded(frame, Tiles[t]) = 1 .. Tiles[t].width * Height
             /\ \A x \in Columns(Tiles[t]), y \in 0 .. Height - 1 :
                  encoded(frame, Tiles[t])[(x - Tiles[t].start) * Height + y + 1] = Word(frame[<<x, y>>], off)
  <2>. DEFINE tile == Tiles[t]
              at == ColumnMajor(tile.start, tile.width)
              size == tile.width * Height
  <2>1. at = [i \in 1 .. size |-> <<tile.start + (i - 1) \div Height, (i - 1) % Height>>]
    BY DEF ColumnMajor
  <2>2. encoded(frame, tile) = [i \in 1 .. size |-> Word(frame[at[i]], off)]
    <3>1. CASE off = Raw
      BY <2>1, <3>1 DEF encodeRawWordRegion, Word
    <3>2. CASE off # Raw
      BY <2>1, <3>2 DEF encodeFrameRegion, Word
    <3>. QED
      BY <3>1, <3>2
  <2>3. ASSUME NEW x \in Columns(tile), NEW y \in 0 .. Height - 1
        PROVE  encoded(frame, tile)[(x - tile.start) * Height + y + 1] = Word(frame[<<x, y>>], off)
    <3>. DEFINE w == tile.width
                start == tile.start
                a == x - start
                p == a * Height + y + 1
    <3>1. w \in Nat /\ a \in 0 .. w - 1 /\ start \in Nat /\ start + a = x
      <4>1. w \in 1 .. TileWidth /\ start \in Nat
        BY <1>2, <1>4
      <4>2. x \in start .. start + w - 1
        BY <2>3 DEF Columns
      <4>. HIDE DEF w, start
      <4>. QED
        BY <1>3, <4>1, <4>2
    <3>. HIDE DEF a
    <3>2. p \in 1 .. w * Height /\ p - 1 = a * Height + y
      <4>. HIDE DEF w
      <4>1. a * Height \in Nat /\ (a + 1) * Height = a * Height + Height /\ w * Height \in Nat
        BY <1>3, <3>1, Times
      <4>2. (a + 1) * Height <= w * Height
        BY <1>3, <3>1, Order
      <4>. QED
        BY <1>3, <2>3, <4>1, <4>2
    <3>3. (a * Height + y) \div Height = a /\ (a * Height + y) % Height = y
      <4>. HIDE DEF w
      <4>1. a \in Nat
        BY <3>1
      <4>. QED
        BY <1>3, <4>1, <2>3, Quotient
    <3>. HIDE DEF p
    <3>4. at[p] = <<x, y>>
      BY <2>1, <3>1, <3>2, <3>3
    <3>. HIDE DEF at
    <3>5. encoded(frame, tile)[p] = Word(frame[<<x, y>>], off)
      BY <2>2, <3>2, <3>4
    <3>. QED
      BY <3>5 DEF p, a
  <2>4. DOMAIN encoded(frame, tile) = 1 .. size
    BY <2>2
  <2>. QED
    BY <2>3, <2>4
<1>. HIDE DEF encoded
<1>5. \A t \in DOMAIN Tiles : encs[t] = [f \in 1 .. n |-> encoded(frames[f], Tiles[t])]
  BY <1>1
<1>6. DOMAIN encs = DOMAIN Tiles
  OBVIOUS
<1>7. Tiled(kind, frames, off) = compileProgram(segments)
  <2>1. segments = [t \in DOMAIN Tiles |->
          segment(kind, Tiles[t], [f \in DOMAIN frames |-> encoded(frames[f], Tiles[t])])]
    BY DEF Segmented
  <2>. QED
    BY <2>1 DEF Tiled, Tiles, encoded
<1>. HIDE DEF encs, n
<1>8. \A t \in DOMAIN Tiles : Worded(encs[t], Tiles[t].width * Height) /\ Len(encs[t]) = n
  <2>. SUFFICES ASSUME NEW t \in DOMAIN Tiles
                PROVE  Worded(encs[t], Tiles[t].width * Height) /\ Len(encs[t]) = n
    OBVIOUS
  <2>. DEFINE e == encs[t]
  <2>1. e = [f \in 1 .. n |-> encoded(frames[f], Tiles[t])]
    BY <1>5
  <2>. HIDE DEF e
  <2>2. e = [f \in 1 .. n |-> e[f]] /\ DOMAIN e = 1 .. n
    BY <2>1
  <2>3. AList(e)
    BY <1>1, <2>2 DEF AList
  <2>4. Len(e) = n
    BY <1>1, <2>2, <2>3, ListFacts
  <2>5. \A f \in 1 .. n : DOMAIN e[f] = 1 .. Tiles[t].width * Height
    BY <1>4, <2>1
  <2>. QED
    BY <2>2, <2>3, <2>4, <2>5 DEF e, Worded
<1>9. Drawn(encs, n)
  BY <1>1, <1>6, <1>8 DEF Drawn
<1>10. AList(segments) /\ \A t \in DOMAIN segments : AList(segments[t])
  <2>1. DOMAIN segments = 1 .. Len(Tiles)
    BY <1>2 DEF Segmented
  <2>2. segments = [t \in 1 .. Len(Tiles) |-> segments[t]]
    BY <1>2 DEF Segmented
  <2>3. ASSUME NEW t \in DOMAIN Tiles PROVE AList(segments[t])
    <3>1. segments[t] = segment(kind, Tiles[t], encs[t])
      BY <2>3 DEF Segmented
    <3>2. Tiles[t].width * Height \in Nat
      <4>1. Tiles[t].width \in Nat
        BY <1>2, <1>3, <2>3
      <4>. QED
        BY <1>3, <4>1, Times
    <3>. DEFINE z == Tiles[t].width * Height
                e == encs[t]
    <3>3. z \in Nat /\ Worded(e, z)
      BY <1>8, <2>3, <3>2
    <3>. HIDE DEF z, e
    <3>4. AList(segment(kind, Tiles[t], e))
      BY <3>3, SegmentFacts DEF Laid
    <3>. QED
      BY <3>1, <3>4 DEF e
  <2>. HIDE DEF segments
  <2>4. AList(segments)
    BY <1>2, <2>2 DEF AList
  <2>. QED
    BY <1>2, <2>1, <2>3, <2>4
<1>11. Announces(Tiled(kind, frames, off), program)
  <2>. HIDE DEF segments
  <2>. QED
    BY <1>7, <1>10, CompiledAnnounces
<1>12. Shining(program, kind, frames, off)
  <2>. SUFFICES ASSUME NEW f \in DOMAIN frames, NEW x \in 0 .. Width - 1, NEW y \in 0 .. Height - 1
                PROVE  Lights(program, f, x, y) = {[word |-> Word(frames[f][<<x, y>>], off), kind |-> kind]}
    BY DEF Shining
  <2>0. f \in 1 .. n
    BY <1>1
  <2>1. PICK t \in DOMAIN Tiles :
           /\ x \in Columns(Tiles[t])
           /\ Lights(program, f, x, y)
                = {[word |-> encs[t][f][(x - Tiles[t].start) * Height + y + 1], kind |-> kind]}
    BY <1>9, <2>0, LightsOfProgram
  <2>2. encs[t][f] = encoded(frames[f], Tiles[t])
    BY <1>5, <2>0, <2>1
  <2>3. encoded(frames[f], Tiles[t])[(x - Tiles[t].start) * Height + y + 1] = Word(frames[f][<<x, y>>], off)
    BY <1>4, <2>1
  <2>. QED
    BY <2>1, <2>2, <2>3
<1>. HIDE DEF program
<1>. QED
  BY <1>11, <1>12

------------------------------------------------------------------------------
(* Every plan carries its content.                                         *)

\* What is known of the display is what it does.
Sound ==
  /\ device.driver \in {"coolledux", "coolledx"}
  /\ known \in Behaviour /\ learned \in Behaviour /\ known.black # "none"
  /\ "true-black" \in {known.black, learned.black} => device.black = "true-black"

\* A light with the word of a pixel looks like the pixel.
LEMMA ShiningLooks ==
  ASSUME NEW program, NEW kind, NEW frames, NEW off, Shining(program, kind, frames, off),
         off \in {Black, DimBlue}, off = Black /\ kind = "graffiti" => device.black = "true-black",
         NEW f \in DOMAIN frames, NEW x \in 0 .. Width - 1, NEW y \in 0 .. Height - 1
  PROVE  /\ Lights(program, f, x, y) # {}
         /\ \A light \in Lights(program, f, x, y) : LooksLike(frames[f][<<x, y>>], light)
<1>. DEFINE pixel == frames[f][<<x, y>>]
            only == [word |-> Word(pixel, off), kind |-> kind]
<1>1. Lights(program, f, x, y) = {only}
  BY DEF Shining
<1>2. off # Raw
  <2>1. Len(Black) = 3 /\ Len(DimBlue) = 3 /\ Len(Raw) = 0
    BY DEF Black, DimBlue, Raw
  <2>. QED
    BY <2>1
<1>3. only.word = (IF isOff(pixel) THEN off ELSE rgb444PixelColor(pixel)) /\ only.kind = kind
  BY <1>2 DEF Word
<1>. HIDE DEF only, pixel
<1>4. LooksLike(pixel, only)
  BY <1>3 DEF LooksLike
<1>. QED
  BY <1>1, <1>4 DEF pixel

\* A static image, with each of the three strategies.
LEMMA StaticShows ==
  ASSUME Sound, device.driver = "coolledux", NEW content \in Contents, content.type = "ShowFrame"
  PROVE  \E program : Announces(PacketsOf(content), program) /\ Shows(program, content)
<1>. DEFINE frame == content.frames[1]
<1>0. DOMAIN content.frames = 1 .. 1
  BY UploadAssumption DEF IsList
<1>1. PacketsOf(content) = compileStaticRaster(frame)
  BY DEF PacketsOf
<1>. HIDE DEF frame
<1>2. selectStaticStrategy \in Strategies
  BY DEF selectStaticStrategy, Sound, Behaviour, Strategies
<1>. DEFINE off == offColorForBehavior("graffiti", graffitiBlackFor)
<1>3. off \in {Black, DimBlue} /\ (off = Black => device.black = "true-black")
  <2>1. Black # DimBlue
    BY DEF Black, DimBlue
  <2>2. graffitiBlackFor = "true-black" => device.black = "true-black"
    BY DEF graffitiBlackFor, Sound
  <2>3. off = IF graffitiBlackFor = "true-black" THEN Black ELSE DimBlue
    BY DEF offColorForBehavior
  <2>. QED
    BY <2>1, <2>2, <2>3
<1>4. offColorForBehavior("animation", "none") = Black
  BY DEF offColorForBehavior
<1>5. IsList(<<frame>>) /\ IsList(<<frame, frame>>)
  <2>1. DOMAIN <<frame>> = 1 .. 1 /\ Len(<<frame>>) = 1
    OBVIOUS
  <2>2. DOMAIN <<frame, frame>> = 1 .. 2 /\ Len(<<frame, frame>>) = 2
    OBVIOUS
  <2>. QED
    BY <2>1, <2>2 DEF IsList
<1>. HIDE DEF off
<1>6. \E kind \in {"graffiti", "animation"}, frames \in {<<frame>>, <<frame, frame>>}, o \in {Black, DimBlue} :
        /\ PacketsOf(content) = Tiled(kind, frames, o)
        /\ o = Black /\ kind = "graffiti" => device.black = "true-black"
  <2>1. CASE selectStaticStrategy = "graffiti"
    <3>1. compileStaticRaster(frame) = Tiled("graffiti", <<frame>>, off)
      BY <2>1 DEF compileStaticRaster, compileGraffitiFrame, off
    <3>. QED
      BY <1>1, <1>3, <3>1
  <2>2. CASE selectStaticStrategy = "animation-single-frame"
    <3>1. compileStaticRaster(frame) = Tiled("animation", <<frame>>, Black)
      BY <1>4, <2>2 DEF compileStaticRaster, compileAnimation
    <3>. QED
      BY <1>1, <3>1
  <2>3. CASE selectStaticStrategy = "animation-identical-frames"
    <3>1. compileStaticRaster(frame) = Tiled("animation", <<frame, frame>>, Black)
      BY <1>4, <2>3 DEF compileStaticRaster, compileAnimation
    <3>. QED
      BY <1>1, <3>1
  <2>. QED
    BY <1>2, <2>1, <2>2, <2>3 DEF Strategies
<1>7. PICK kind \in {"graffiti", "animation"}, frames \in {<<frame>>, <<frame, frame>>}, o \in {Black, DimBlue} :
        /\ PacketsOf(content) = Tiled(kind, frames, o)
        /\ o = Black /\ kind = "graffiti" => device.black = "true-black"
  BY <1>6
<1>8. IsList(frames) /\ kind # "gif" /\ 1 \in DOMAIN frames /\ frames[1] = frame
  <2>1. CASE frames = <<frame>>
    BY <1>5, <1>7, <2>1
  <2>2. CASE frames = <<frame, frame>>
    BY <1>5, <1>7, <2>2
  <2>. QED
    BY <1>7, <2>1, <2>2
<1>9. PICK program : Announces(Tiled(kind, frames, o), program) /\ Shining(program, kind, frames, o)
  BY <1>8, TiledShines
<1>10. Shows(program, content)
  <2>. SUFFICES ASSUME NEW f \in DOMAIN content.frames, NEW x \in 0 .. Width - 1, NEW y \in 0 .. Height - 1
                PROVE  /\ Lights(program, f, x, y) # {}
                       /\ \A light \in Lights(program, f, x, y) : LooksLike(content.frames[f][<<x, y>>], light)
    BY DEF Shows
  <2>1. f = 1
    BY <1>0
  <2>2. /\ Lights(program, 1, x, y) # {}
        /\ \A light \in Lights(program, 1, x, y) : LooksLike(frames[1][<<x, y>>], light)
    BY <1>7, <1>8, <1>9, ShiningLooks
  <2>. QED
    BY <1>8, <2>1, <2>2 DEF frame
<1>. QED
  BY <1>7, <1>9, <1>10

\* An animation.
LEMMA AnimationShows ==
  ASSUME Sound, device.driver = "coolledux", NEW content \in Contents, content.type = "ShowAnimation"
  PROVE  \E program : Announces(PacketsOf(content), program) /\ Shows(program, content)
<1>. DEFINE frames == content.frames
<1>1. PacketsOf(content) = Tiled("animation", frames, Black)
  BY DEF PacketsOf, compileAnimation, offColorForBehavior
<1>2. IsList(frames) /\ "animation" # "gif" /\ "animation" # "graffiti"
  BY UploadAssumption
<1>3. PICK program : Announces(Tiled("animation", frames, Black), program)
                     /\ Shining(program, "animation", frames, Black)
  BY <1>2, TiledShines
<1>4. Shows(program, content)
  <2>1. \A f \in DOMAIN frames, x \in 0 .. Width - 1, y \in 0 .. Height - 1 :
          /\ Lights(program, f, x, y) # {}
          /\ \A light \in Lights(program, f, x, y) : LooksLike(frames[f][<<x, y>>], light)
    BY <1>2, <1>3, ShiningLooks
  <2>. QED
    BY <2>1 DEF Shows
<1>. QED
  BY <1>1, <1>3, <1>4

\* The words of a diagnostic program, unconverted.
LEMMA DiagnosticShows ==
  ASSUME device.driver = "coolledux", NEW content \in Contents, content.type = "ShowDiagnostic"
  PROVE  \E program : Announces(PacketsOf(content), program) /\ Shows(program, content)
<1>. DEFINE frames == content.frames
            kind == content.kind
<1>1. PacketsOf(content) = Tiled(kind, frames, Raw)
  BY DEF PacketsOf, compileRawWords
<1>2. IsList(frames) /\ kind # "gif"
  BY UploadAssumption
<1>. HIDE DEF kind
<1>3. PICK program : Announces(Tiled(kind, frames, Raw), program) /\ Shining(program, kind, frames, Raw)
  BY <1>2, TiledShines
<1>4. Shows(program, content)
  BY <1>3 DEF Shows, Shining, Word, kind
<1>. QED
  BY <1>1, <1>3, <1>4

\* A GIF, in a single segment.
LEMMA GifShows ==
  ASSUME device.driver = "coolledux", NEW content \in Contents, content.type = "ShowGif"
  PROVE  \E program : Announces(PacketsOf(content), program) /\ Shows(program, content)
<1>. DEFINE only == segment("gif", [start |-> 0, width |-> content.width], content.frames)
            list == <<only>>
            program == buildProgram(list)
<1>1. PacketsOf(content) = compileProgram(list)
  BY DEF PacketsOf, compileGif
<1>2. AList(only)
  <2>1. Indexed(content.frames) /\ \A f \in DOMAIN content.frames : Indexed(content.frames[f])
    BY UploadAssumption DEF IsList, Indexed
  <2>. QED
    BY <2>1, SegmentIsList
<1>. HIDE DEF only
<1>3. /\ AList(list) /\ Len(list) = 1 /\ DOMAIN list = 1 .. 1 /\ list[1] = only
      /\ \A t \in DOMAIN list : AList(list[t])
  <2>1. list \in Seq({only}) /\ Len(list) = 1 /\ DOMAIN list = 1 .. 1 /\ list[1] = only
    OBVIOUS
  <2>2. AList(list)
    BY <2>1, SequencesAreLists
  <2>. QED
    BY <1>2, <2>1, <2>2
<1>. HIDE DEF list
<1>4. Announces(PacketsOf(content), program)
  BY <1>1, <1>3, CompiledAnnounces
<1>5. FlattenSeq(list) = only
  <2>1. Even(list, 0)
    BY <1>3 DEF Even
  <2>. DEFINE flat == FlattenSeq(list)
  <2>2. /\ AList(flat) /\ Len(flat) = (1 - 1) * 0 + Len(only)
        /\ \A j \in Nat : j \in 1 .. Len(only) => flat[(1 - 1) * 0 + j] = only[j]
    <3>. DEFINE z == 0
    <3>0. z \in Nat /\ Even(list, z) /\ z = 0
      BY <2>1
    <3>. HIDE DEF z
    <3>a. /\ AList(flat)
          /\ Len(list) > 0 => Len(flat) = (Len(list) - 1) * z + Len(list[Len(list)])
          /\ \A i \in 1 .. Len(list), j \in Nat : j \in 1 .. Len(list[i]) =>
               flat[(i - 1) * z + j] = list[i][j]
      BY <3>0, EvenParts
    <3>1. /\ Len(list) > 0 => Len(flat) = (Len(list) - 1) * 0 + Len(list[Len(list)])
          /\ \A i \in 1 .. Len(list), j \in Nat : j \in 1 .. Len(list[i]) =>
               flat[(i - 1) * 0 + j] = list[i][j]
      BY <3>0, <3>a
    <3>2. AList(flat)
      BY <3>a
    <3>. HIDE DEF flat
    <3>3. 1 \in 1 .. Len(list) /\ Len(list) = 1 /\ list[1] = only /\ Len(list) > 0
      BY <1>3
    <3>4. Len(flat) = (1 - 1) * 0 + Len(only)
      BY <3>1, <3>2, <3>3
    <3>5. \A j \in Nat : j \in 1 .. Len(only) => flat[(1 - 1) * 0 + j] = only[j]
      BY <3>1, <3>3
    <3>. QED
      BY <3>2, <3>4, <3>5
  <2>3. Len(only) \in Nat /\ only \in Seq({only[i] : i \in DOMAIN only})
    BY <1>2, ListFacts
  <2>4. AList(flat) /\ Len(flat) = Len(only) /\ \A j \in 1 .. Len(only) : flat[j] = only[j]
    <3>1. \A j \in 1 .. Len(only) : j \in Nat /\ (1 - 1) * 0 + j = j
      BY <2>3
    <3>2. (1 - 1) * 0 + Len(only) = Len(only)
      BY <2>3
    <3>. QED
      BY <2>2, <3>1, <3>2
  <2>. HIDE DEF flat
  <2>5. flat \in Seq({flat[i] : i \in DOMAIN flat})
    BY <2>4, ListFacts
  <2>6. flat = [j \in 1 .. Len(only) |-> flat[j]]
    BY <2>4, <2>5
  <2>7. only = [j \in 1 .. Len(only) |-> only[j]]
    BY <2>3
  <2>8. flat = only
    BY <2>4, <2>6, <2>7
  <2>. QED
    BY <2>8 DEF flat
<1>6. Tail(program) = only
  <2>1. program = <<<<"program", Len(list)>>>> \o only
    BY <1>5 DEF buildProgram
  <2>. DEFINE h == <<"program", Len(list)>>
  <2>2. program = <<h>> \o only
    BY <2>1
  <2>. HIDE DEF h, program
  <2>. QED
    BY <1>2, <2>2, HeadThen
<1>7. Shows(program, content)
  BY <1>6 DEF Shows, only
<1>. QED
  BY <1>4, <1>7

\* The position of a column of bits among all planes of all frames.
LEMMA PlaneOffsets ==
  ASSUME NEW a \in Nat, NEW c \in Nat, NEW w \in Nat
  PROVE  (a * 3 + c) * w = a * (3 * w) + c * w /\ a * (3 * w) \in Nat /\ c * w \in Nat
<1>1. (a * 3 + c) * w = (a * 3) * w + c * w
  OBVIOUS
<1>2. a * 3 * w = a * (3 * w)
  BY Associated
<1>3. 3 * w \in Nat /\ a * 3 \in Nat
  OBVIOUS
<1>4. a * (3 * w) \in Nat /\ c * w \in Nat
  BY <1>3, Times
<1>. QED
  BY <1>1, <1>2, <1>4

Bits(frame, channel, x) == [y \in 0 .. Height - 1 |-> frame[<<x - 1, y>>][channel] > 127]
\* A frame is packed plane by plane, column by column.
LEMMA PackedFrame ==
  ASSUME NEW frame
  PROVE  LET packed == packCoolLedPixels(frame) IN
         /\ AList(packed) /\ Len(packed) = 3 * Width
         /\ \A channel \in 1 .. 3, x \in 1 .. Width :
              packed[(channel - 1) * Width + x] = Bits(frame, channel, x)
<1>. DEFINE planes == [channel \in 1 .. 3 |-> [x \in 1 .. Width |-> Bits(frame, channel, x)]]
            packed == FlattenSeq(planes)
<1>1. packCoolLedPixels(frame) = packed
  BY DEF packCoolLedPixels, Bits
<1>2. Width \in Nat
  BY UploadAssumption
<1>3. /\ AList(planes) /\ Len(planes) = 3 /\ DOMAIN planes = 1 .. 3
      /\ \A c \in 1 .. 3 : AList(planes[c]) /\ Len(planes[c]) = Width
                           /\ \A x \in 1 .. Width : planes[c][x] = Bits(frame, c, x)
  <2>1. planes = [c \in 1 .. 3 |-> planes[c]] /\ DOMAIN planes = 1 .. 3
        /\ \A c \in 1 .. 3 : planes[c] = [x \in 1 .. Width |-> Bits(frame, c, x)]
    OBVIOUS
  <2>. HIDE DEF planes
  <2>2. AList(planes)
    <3>. DEFINE n == 3
    <3>1. n \in Int /\ planes = [c \in 1 .. n |-> planes[c]]
      BY <2>1
    <3>. HIDE DEF n
    <3>. QED
      BY <3>1 DEF AList
  <2>3. Len(planes) = 3
    BY <2>1, <2>2, ListFacts
  <2>4. ASSUME NEW c \in 1 .. 3
        PROVE  AList(planes[c]) /\ Len(planes[c]) = Width
               /\ \A x \in 1 .. Width : planes[c][x] = Bits(frame, c, x)
    <3>. DEFINE p == planes[c]
    <3>1. p = [x \in 1 .. Width |-> Bits(frame, c, x)]
      BY <2>1, <2>4
    <3>. HIDE DEF p
    <3>2. p = [x \in 1 .. Width |-> p[x]] /\ DOMAIN p = 1 .. Width /\ \A x \in 1 .. Width : p[x] = Bits(frame, c, x)
      BY <3>1
    <3>3. AList(p)
      BY <1>2, <3>2 DEF AList
    <3>4. Len(p) = Width
      BY <1>2, <3>2, <3>3, ListFacts
    <3>. QED
      BY <3>2, <3>3, <3>4 DEF p
  <2>. QED
    BY <2>1, <2>2, <2>3, <2>4
<1>. HIDE DEF planes
<1>4. Even(planes, Width)
  BY <1>3 DEF Even
<1>5. AList(packed) /\ Len(packed) = 2 * Width + Width
  <2>1. /\ AList(packed)
        /\ Len(planes) > 0 => Len(packed) = (Len(planes) - 1) * Width + Len(planes[Len(planes)])
    BY <1>2, <1>4, EvenParts
  <2>2. Len(planes) > 0 /\ Len(planes) - 1 = 2 /\ Len(planes[Len(planes)]) = Width
    BY <1>3
  <2>. HIDE DEF packed
  <2>. QED
    BY <2>1, <2>2
<1>6. ASSUME NEW c \in 1 .. 3, NEW x \in 1 .. Width
      PROVE  packed[(c - 1) * Width + x] = Bits(frame, c, x)
  <2>1. \A i \in 1 .. Len(planes), j \in Nat : j \in 1 .. Len(planes[i]) =>
          packed[(i - 1) * Width + j] = planes[i][j]
    BY <1>2, <1>4, EvenParts
  <2>2. c \in 1 .. Len(planes) /\ x \in Nat /\ x \in 1 .. Len(planes[c]) /\ planes[c][x] = Bits(frame, c, x)
    BY <1>2, <1>3
  <2>. HIDE DEF packed
  <2>. QED
    BY <2>1, <2>2
<1>7. Len(packed) = 3 * Width
  <2>. HIDE DEF packed
  <2>. QED
    BY <1>2, <1>5
<1>. HIDE DEF packed
<1>. QED
  BY <1>1, <1>5, <1>6, <1>7

\* What is joined of a CoolLEDX transfer has every bit of every frame in its place.
LEMMA TransferTurnsOn ==
  ASSUME NEW content \in Contents
  PROVE  TurnsOn(Joined(encodeTransferPackets(content)), content)
<1>. DEFINE frames == content.frames
            packs == [f \in DOMAIN frames |-> packCoolLedPixels(frames[f])]
            bytes == FlattenSeq(packs)
            h == [type |-> content.type, frames |-> Len(frames)]
            payload == <<h>> \o bytes
            pieces == Pieces(payload)
            packets == encodeTransferPackets(content)
            n == Len(frames)
            z == 3 * Width
<1>1. Width \in Nat \ {0} /\ Height \in Nat \ {0} /\ n \in Nat /\ DOMAIN frames = 1 .. n
  BY UploadAssumption DEF IsList
<1>2. packets = [i \in DOMAIN pieces |->
         [type |-> "chunk", total |-> Len(payload), index |-> i - 1, data |-> pieces[i]]]
  BY DEF encodeTransferPackets
<1>. HIDE DEF packets, n, z, h
<1>3. z \in Nat
  BY <1>1 DEF z
<1>4. ASSUME NEW f \in 1 .. n
      PROVE  /\ AList(packs[f]) /\ Len(packs[f]) = z
             /\ \A c \in 1 .. 3, x \in 1 .. Width : packs[f][(c - 1) * Width + x] = Bits(frames[f], c, x)
  <2>1. packs[f] = packCoolLedPixels(frames[f])
    BY <1>1
  <2>. QED
    BY <2>1, PackedFrame DEF z
<1>5. AList(packs) /\ Len(packs) = n /\ DOMAIN packs = 1 .. n
  <2>1. packs = [f \in 1 .. n |-> packs[f]] /\ DOMAIN packs = 1 .. n
    BY <1>1
  <2>. HIDE DEF packs
  <2>2. AList(packs)
    BY <1>1, <2>1 DEF AList
  <2>3. Len(packs) = n
    BY <1>1, <2>1, <2>2, ListFacts
  <2>. QED
    BY <2>1, <2>2, <2>3
<1>. HIDE DEF packs
<1>6. Even(packs, z)
  BY <1>4, <1>5 DEF Even
<1>7. /\ AList(bytes)
      /\ n > 0 => Len(bytes) = (n - 1) * z + Len(packs[n])
      /\ \A i \in 1 .. n, j \in Nat : j \in 1 .. Len(packs[i]) => bytes[(i - 1) * z + j] = packs[i][j]
  BY <1>3, <1>5, <1>6, EvenParts
<1>. HIDE DEF bytes
<1>8. /\ AList(payload) /\ Len(payload) = 1 + Len(bytes) /\ Len(bytes) \in Nat
      /\ \A i \in 1 .. Len(bytes) : payload[1 + i] = bytes[i]
  BY <1>7, HeadThen, ListFacts
<1>. HIDE DEF payload
<1>9. AList(pieces) /\ Len(pieces) > 0 /\ FlattenSeq(pieces) = payload
  BY <1>8, PiecesJoin
<1>. HIDE DEF pieces
<1>10. Joined(packets) = payload
  <2>1. Len(pieces) \in Nat /\ DOMAIN pieces = 1 .. Len(pieces) /\ pieces = [i \in 1 .. Len(pieces) |-> pieces[i]]
    <3>1. pieces \in Seq({pieces[i] : i \in DOMAIN pieces})
      BY <1>9, ListFacts
    <3>. QED
      BY <3>1
  <2>2. packets[1].type = "chunk"
    <3>1. 1 \in DOMAIN pieces
      BY <1>9, <2>1
    <3>. QED
      BY <1>2, <3>1
  <2>3. Chunked(packets) = packets
    BY <2>2 DEF Chunked
  <2>4. DOMAIN packets = DOMAIN pieces /\ \A i \in DOMAIN pieces : packets[i].data = pieces[i]
    BY <1>2
  <2>5. [i \in DOMAIN packets |-> packets[i].data] = pieces
    BY <2>1, <2>4
  <2>6. Joined(packets) = FlattenSeq([i \in DOMAIN packets |-> packets[i].data])
    BY <2>3 DEF Joined
  <2>. QED
    BY <1>9, <2>5, <2>6
<1>11. ASSUME NEW f \in 1 .. n, NEW x \in 0 .. Width - 1, NEW y \in 0 .. Height - 1, NEW c \in 1 .. 3
       PROVE  payload[1 + ((f - 1) * 3 + c - 1) * Width + x + 1][y] = (frames[f][<<x, y>>][c] > 127)
  <2>. DEFINE k == (c - 1) * Width + (x + 1)
              m == (f - 1) * z
              a == f - 1
              b == c - 1
  <2>1. a \in Nat /\ b \in Nat /\ b <= 2 /\ n - 1 \in Nat /\ a <= n - 1 /\ n > 0 /\ n \in 1 .. n
        /\ x + 1 \in 1 .. Width /\ x + 1 \in Nat
    BY <1>1, <1>11
  <2>2. (a * 3 + b) * Width = a * z + b * Width /\ a * z \in Nat /\ b * Width \in Nat
    <3>. HIDE DEF a, b
    <3>. QED
      BY <1>1, <2>1, PlaneOffsets DEF z
  <2>3. b * Width <= 2 * Width /\ a * z <= (n - 1) * z
    <3>. HIDE DEF a, b
    <3>. QED
      BY <1>1, <1>3, <2>1, Order
  <2>4. k \in 1 .. z /\ k \in Nat
    <3>. HIDE DEF b
    <3>1. b * Width + (x + 1) \in 1 .. 3 * Width
      BY <1>1, <2>1, <2>2, <2>3
    <3>. QED
      BY <3>1 DEF z, b
  <2>5. packs[f][k] = Bits(frames[f], c, x + 1)
    BY <1>4, <1>11, <2>1
  <2>6. bytes[m + k] = packs[f][k]
    BY <1>4, <1>7, <1>11, <2>4
  <2>7. m + k \in 1 .. Len(bytes)
    <3>1. Len(bytes) = (n - 1) * z + z
      BY <1>4, <1>7, <2>1
    <3>2. m \in Nat /\ m <= (n - 1) * z
      BY <2>2, <2>3
    <3>3. (n - 1) * z \in Nat
      BY <1>3, <2>1, Times
    <3>. HIDE DEF m, k
    <3>. QED
      BY <1>3, <2>4, <3>1, <3>2, <3>3
  <2>8. payload[1 + (m + k)] = bytes[m + k]
    BY <1>8, <2>7
  <2>9. 1 + ((f - 1) * 3 + c - 1) * Width + x + 1 = 1 + (m + k)
    <3>1. (f - 1) * 3 + c - 1 = a * 3 + b
      BY <1>1, <1>11
    <3>2. m = a * z /\ k = b * Width + (x + 1)
      OBVIOUS
    <3>. HIDE DEF m, k, a, b
    <3>3. 1 + (a * 3 + b) * Width + x + 1 = 1 + (m + k)
      BY <1>1, <2>2, <3>2
    <3>. QED
      BY <3>1, <3>3
  <2>10. payload[1 + ((f - 1) * 3 + c - 1) * Width + x + 1] = Bits(frames[f], c, x + 1)
    <3>. HIDE DEF m, k
    <3>. QED
      BY <2>5, <2>6, <2>8, <2>9
  <2>11. (x + 1) - 1 = x
    BY <1>1
  <2>. QED
    BY <2>10, <2>11 DEF Bits
<1>12. TurnsOn(payload, content)
  <2>. SUFFICES ASSUME NEW f \in DOMAIN frames, NEW x \in 0 .. Width - 1, NEW y \in 0 .. Height - 1
                PROVE  Unpacked(payload, f, x, y) = [c \in 1 .. 3 |-> frames[f][<<x, y>>][c] > 127]
    BY Zenon DEF TurnsOn
  <2>0. f \in 1 .. n
    BY <1>1
  <2>1. \A c \in 1 .. 3 : payload[1 + ((f - 1) * 3 + c - 1) * Width + x + 1][y]
                            = (frames[f][<<x, y>>][c] > 127)
    BY <1>11, <2>0
  <2>2. Unpacked(payload, f, x, y)
          = [c \in 1 .. 3 |-> payload[1 + ((f - 1) * 3 + c - 1) * Width + x + 1][y]]
    BY DEF Unpacked
  <2>. QED
    BY <2>1, <2>2, Zenon
<1>. QED
  BY <1>10, <1>12 DEF packets

\* What every plan of a CoolLEDUX display announces shows the content.
LEMMA PlansShow ==
  ASSUME Sound, device.driver = "coolledux", NEW content \in Contents
  PROVE  \E program : Announces(PacketsOf(content), program) /\ Shows(program, content)
BY StaticShows, AnimationShows, DiagnosticShows, GifShows, UploadAssumption

------------------------------------------------------------------------------
(* Every upload that arrives is shown.                                     *)

Program == plan.packets[1].program
\* The plan carries its content.
Carried ==
  /\ plan.live => /\ plan.content \in Contents
                  /\ Announces(plan.packets, Program) /\ Shows(Program, plan.content)
  /\ ~plan.live /\ plan # NoPlannedUpload => TurnsOn(Joined(plan.packets), plan.content)
\* As long as nothing was lost, the display has what was written.
Received ==
  plan.live =>
    /\ written \in 0 .. Len(plan.packets) /\ arrived \subseteq 1 .. written
    /\ arrived = 1 .. written /\ written > 0 =>
         /\ DOMAIN reception = {"program", "total", "chunks"}
         /\ reception = [field \in DOMAIN reception |-> reception[field]]
         /\ reception.program = Program
         /\ reception.chunks = [i \in 1 .. written - 1 |-> plan.packets[1 + i].data]
         /\ written > 1 => reception.total = Len(lzssCompressSafe(Program))
         /\ written = Len(plan.packets) => shown = Program
ContentInv == plan.live \in BOOLEAN /\ Sound /\ Carried /\ Received

\* Packets are numbered from one; the first is the announcement.
LEMMA AnnouncedPackets ==
  ASSUME NEW packets, NEW program, Announces(packets, program)
  PROVE  /\ Len(packets) \in Nat /\ Len(packets) > 1 /\ DOMAIN packets = 1 .. Len(packets)
         /\ packets[1] = [type |-> "announce", program |-> program] /\ program # <<>>
         /\ \A i \in 2 .. Len(packets) :
              packets[i] = [type |-> "chunk", total |-> Len(lzssCompressSafe(program)),
                            index |-> i - 2, data |-> Pieces(lzssCompressSafe(program))[i - 1]]
<1>. DEFINE codes == Len(lzssCompressSafe(program))
            pieces == Pieces(lzssCompressSafe(program))
<1>1. /\ AList(packets) /\ AList(pieces) /\ Len(packets) = 1 + Len(pieces) /\ Len(pieces) > 0
      /\ packets[1] = [type |-> "announce", program |-> program] /\ program # <<>>
      /\ \A i \in 1 .. Len(pieces) :
           packets[1 + i] = [type |-> "chunk", total |-> codes, index |-> i - 1, data |-> pieces[i]]
  BY DEF Announces
<1>. HIDE DEF codes, pieces
<1>2. Len(packets) \in Nat /\ Len(pieces) \in Nat /\ DOMAIN packets = 1 .. Len(packets)
  BY <1>1, ListFacts
<1>3. ASSUME NEW i \in 2 .. Len(packets)
      PROVE  packets[i] = [type |-> "chunk", total |-> codes, index |-> i - 2, data |-> pieces[i - 1]]
  <2>1. i - 1 \in 1 .. Len(pieces) /\ 1 + (i - 1) = i /\ (i - 1) - 1 = i - 2
    BY <1>1, <1>2
  <2>2. packets[1 + (i - 1)] = [type |-> "chunk", total |-> codes, index |-> (i - 1) - 1, data |-> pieces[i - 1]]
    BY <1>1, <2>1
  <2>. QED
    BY <2>1, <2>2
<1>. QED
  BY <1>1, <1>2, <1>3 DEF codes, pieces

\* All chunks, joined, decode to what was announced.
AllOf(packets, chunks) == chunks = [i \in 1 .. Len(packets) - 1 |-> packets[1 + i].data]
LEMMA AllChunks ==
  ASSUME NEW packets, NEW program, Announces(packets, program), NEW chunks, AllOf(packets, chunks)
  PROVE  /\ Len(chunks) = Len(packets) - 1
         /\ FlattenSeq([i \in 1 .. Len(chunks) |-> chunks[i]]) = lzssCompressSafe(program)
         /\ lzssDecompress(lzssCompressSafe(program)) = program
<1>. DEFINE codes == lzssCompressSafe(program)
            pieces == Pieces(codes)
            n == Len(pieces)
<1>1. AList(program) /\ Len(program) > 0 /\ AList(pieces) /\ Len(packets) = 1 + n
  BY DEF Announces
<1>2. \A i \in 1 .. n : packets[1 + i].data = pieces[i]
  <2>1. \A i \in 1 .. n : packets[1 + i]
          = [type |-> "chunk", total |-> Len(codes), index |-> i - 1, data |-> pieces[i]]
    BY DEF Announces
  <2>. HIDE DEF n, codes, pieces
  <2>2. ASSUME NEW i \in 1 .. n PROVE packets[1 + i].data = pieces[i]
    <3>1. packets[1 + i] = [type |-> "chunk", total |-> Len(codes), index |-> i - 1, data |-> pieces[i]]
      BY <2>1, <2>2
    <3>. QED
      BY <3>1
  <2>. QED
    BY <2>2
<1>3. AList(codes) /\ Len(codes) = Len(program) /\ lzssDecompress(codes) = program
  BY <1>1, SafeCodes
<1>4. FlattenSeq(pieces) = codes
  BY <1>1, <1>3, PiecesJoin
<1>. HIDE DEF codes, pieces
<1>5. n \in Nat /\ pieces = [i \in 1 .. n |-> pieces[i]]
  <2>1. pieces \in Seq({pieces[i] : i \in DOMAIN pieces})
    BY <1>1, ListFacts
  <2>. QED
    BY <2>1
<1>6. Len(packets) - 1 = n
  BY <1>1, <1>5
<1>. HIDE DEF n
<1>7. chunks = pieces
  BY <1>2, <1>5, <1>6 DEF AllOf
<1>8. [i \in 1 .. Len(chunks) |-> chunks[i]] = pieces
  <2>1. Len(chunks) = n
    BY <1>7 DEF n
  <2>. QED
    BY <1>5, <1>7, <2>1
<1>. QED
  BY <1>3, <1>4, <1>6, <1>7, <1>8 DEF n, codes

\* What a program shows depends only on the display.
LEMMA ShowsStays ==
  ASSUME NEW program, NEW content \in Contents, Shows(program, content), device' = device
  PROVE  Shows(program, content)'
<1>1. \A pixel, light : LooksLike(pixel, light) => LooksLike(pixel, light)'
  BY DEF LooksLike
<1>2. CASE content.type \in {"ShowFrame", "ShowAnimation"}
  BY <1>1, <1>2 DEF Shows
<1>3. CASE content.type = "ShowDiagnostic"
  BY <1>3 DEF Shows
<1>4. CASE content.type = "ShowGif"
  BY <1>4 DEF Shows
<1>. QED
  BY <1>2, <1>3, <1>4, UploadAssumption

\* Nothing is planned at first.
LEMMA ContentStart == UploadInit => ContentInv
<1>. SUFFICES ASSUME UploadInit PROVE ContentInv
  OBVIOUS
<1>1. Sound
  BY DEF UploadInit, Sound, Behaviour, Strategies, Blacks
<1>2. plan.live = FALSE /\ plan = NoPlannedUpload
  BY DEF UploadInit, NoPlannedUpload
<1>. QED
  BY <1>1, <1>2 DEF ContentInv, Carried, Received

\* A plan that stays carries what it carried.
LEMMA PlanStays == ASSUME Carried, UNCHANGED <<device, plan>> PROVE Carried'
<1>2. CASE plan.live
  <2>0. PICK program : program = Program
    OBVIOUS
  <2>1. PICK content \in Contents : content = plan.content
    BY <1>2 DEF Carried
  <2>2. Shows(program, content)'
    BY <1>2, <2>0, <2>1, ShowsStays DEF Carried
  <2>3. Program' = program /\ plan'.content = content
    BY <2>0, <2>1 DEF Program
  <2>. QED
    BY <1>2, <2>0, <2>1, <2>2, <2>3 DEF Carried
<1>3. CASE ~plan.live
  BY <1>3 DEF Carried
<1>. QED
  BY <1>2, <1>3

LEMMA SteadyCarries ==
  ASSUME Sound, Carried, UNCHANGED <<device, known, learned, plan>> PROVE Sound' /\ Carried'
BY PlanStays DEF Sound

\* Every new plan carries its content.
LEMMA PlanCarries ==
  ASSUME ContentInv, NEW content \in Contents, Plan(content) PROVE ContentInv'
<1>1. /\ plan' = [content |-> content, packets |-> PacketsOf(content),
                  live |-> device.driver = "coolledux"]
      /\ written' = 0 /\ arrived' = {}
      /\ device' = device /\ known' = known /\ learned' = learned
  BY DEF Plan
<1>2. /\ plan'.content = content /\ plan'.packets = PacketsOf(content)
      /\ plan'.live = (device.driver = "coolledux")
  BY <1>1
<1>3. Sound /\ Sound'
  BY <1>1 DEF ContentInv, Sound
<1>4. CASE device.driver = "coolledux"
  <2>1. PICK program : Announces(PacketsOf(content), program) /\ Shows(program, content)
    BY <1>3, <1>4, PlansShow
  <2>2. PacketsOf(content)[1] = [type |-> "announce", program |-> program] /\ Len(PacketsOf(content)) \in Nat
    BY <2>1, AnnouncedPackets
  <2>3. Program' = program
    BY <1>2, <2>2 DEF Program
  <2>4. Shows(program, content)'
    BY <1>1, <2>1, ShowsStays
  <2>5. plan'.live = TRUE
    BY <1>2, <1>4
  <2>6. Carried'
    BY <1>2, <2>1, <2>3, <2>4, <2>5 DEF Carried
  <2>7. Received'
    BY <1>1, <1>2, <2>2 DEF Received
  <2>. QED
    BY <1>3, <2>5, <2>6, <2>7 DEF ContentInv
<1>5. CASE device.driver = "coolledx"
  <2>1. PacketsOf(content) = encodeTransferPackets(content)
    BY <1>5 DEF PacketsOf
  <2>2. TurnsOn(Joined(PacketsOf(content)), content)
    BY <2>1, TransferTurnsOn
  <2>3. plan'.live = FALSE
    BY <1>2, <1>5
  <2>4. Carried'
    BY <1>2, <2>2, <2>3 DEF Carried
  <2>. QED
    BY <1>3, <2>3, <2>4 DEF ContentInv, Received
<1>. QED
  BY <1>3, <1>4, <1>5 DEF Sound

\* A packet that arrives continues what the display has; the last one completes it.
LEMMA TransmitCarries == ASSUME ContentInv, Transmit PROVE ContentInv'
<1>. DEFINE packets == plan.packets
            n == Len(packets)
            codes == lzssCompressSafe(Program)
            k == written + 1
            packet == packets[k]
<1>1. /\ plan' = plan /\ written' = k /\ written < n /\ plan.live
      /\ device' = device /\ known' = known /\ learned' = learned
      /\ \/ reception' = reception /\ shown' = shown /\ arrived' = arrived
         \/ /\ reception' = After(reception, packet)
            /\ shown' = IF Complete(reception') THEN reception'.program ELSE shown
            /\ arrived' = arrived \cup {k}
  BY DEF Transmit, Sending
<1>2. plan'.live = plan.live /\ Sound' /\ Carried' /\ Program' = Program
  BY <1>1, SteadyCarries DEF ContentInv, Program
<1>3. Announces(packets, Program)
  BY <1>1 DEF ContentInv, Carried
<1>4. /\ n \in Nat /\ n > 1
      /\ packets[1] = [type |-> "announce", program |-> Program] /\ Program # <<>>
      /\ \A i \in 2 .. n :
           /\ packets[i].type = "chunk" /\ packets[i].total = Len(codes) /\ packets[i].index = i - 2
  <2>. DEFINE pieces == Pieces(codes)
  <2>1. /\ n \in Nat /\ n > 1
        /\ packets[1] = [type |-> "announce", program |-> Program] /\ Program # <<>>
        /\ \A i \in 2 .. n : packets[i] = [type |-> "chunk", total |-> Len(codes), index |-> i - 2,
                                         data |-> pieces[i - 1]]
    BY <1>3, AnnouncedPackets
  <2>. HIDE DEF packets, n, codes, pieces
  <2>2. ASSUME NEW i \in 2 .. n
        PROVE  packets[i].type = "chunk" /\ packets[i].total = Len(codes) /\ packets[i].index = i - 2
    <3>1. packets[i] = [type |-> "chunk", total |-> Len(codes), index |-> i - 2, data |-> pieces[i - 1]]
      BY <2>1, <2>2
    <3>. QED
      BY <3>1
  <2>. QED
    BY <2>1, <2>2
<1>5. /\ written \in 0 .. n /\ arrived \subseteq 1 .. written
      /\ arrived = 1 .. written /\ written > 0 =>
           /\ DOMAIN reception = {"program", "total", "chunks"}
           /\ reception = [field \in DOMAIN reception |-> reception[field]]
           /\ reception.program = Program
           /\ reception.chunks = [i \in 1 .. written - 1 |-> packets[1 + i].data]
           /\ written > 1 => reception.total = Len(codes)
  BY <1>1 DEF ContentInv, Received
<1>. HIDE DEF packets, n, codes
<1>6. k \in 1 .. n /\ k \notin 1 .. written /\ arrived' \subseteq 1 .. k
  <2>1. k \in 1 .. n /\ k \notin 1 .. written /\ k \in 1 .. k /\ \A i \in 1 .. written : i \in 1 .. k
    BY <1>1, <1>4, <1>5
  <2>. HIDE DEF k
  <2>. QED
    BY <1>1, <1>5, <2>1
<1>7. ASSUME arrived' = 1 .. k
      PROVE  /\ DOMAIN reception' = {"program", "total", "chunks"}
             /\ reception' = [field \in DOMAIN reception' |-> reception'[field]]
             /\ reception'.program = Program
             /\ reception'.chunks = [i \in 1 .. k - 1 |-> packets[1 + i].data]
             /\ k > 1 => reception'.total = Len(codes)
             /\ k = n => shown' = Program
  <2>1. k \in arrived' /\ k \notin arrived
    BY <1>5, <1>6, <1>7
  <2>2. /\ reception' = After(reception, packet)
        /\ shown' = IF Complete(reception') THEN reception'.program ELSE shown
        /\ arrived' = arrived \cup {k}
    BY <1>1, <2>1
  <2>3. arrived = 1 .. written
    <3>1. arrived = (1 .. k) \ {k}
      BY <1>7, <2>1, <2>2
    <3>2. (1 .. k) \ {k} = 1 .. written
      BY <1>5
    <3>. QED
      BY <3>1, <3>2
  <2>4. CASE written = 0
    <3>1. k = 1 /\ packet = [type |-> "announce", program |-> Program]
      BY <1>4, <2>4
    <3>2. reception' = [program |-> Program, total |-> 0, chunks |-> <<>>]
      BY <2>2, <3>1 DEF After, NoReception
    <3>3. <<>> = [i \in 1 .. k - 1 |-> packets[1 + i].data]
      BY <3>1
    <3>4. /\ DOMAIN reception' = {"program", "total", "chunks"}
          /\ reception' = [field \in DOMAIN reception' |-> reception'[field]]
      BY <3>2
    <3>5. reception'.program = Program /\ reception'.chunks = <<>>
      BY <3>2
    <3>6. k # n /\ ~(k > 1)
      BY <1>4, <3>1
    <3>. QED
      BY <3>3, <3>4, <3>5, <3>6
  <2>5. CASE written > 0
    <3>1. /\ reception.program = Program
          /\ reception.chunks = [i \in 1 .. written - 1 |-> packets[1 + i].data]
          /\ DOMAIN reception = {"program", "total", "chunks"}
          /\ reception = [field \in DOMAIN reception |-> reception[field]]
      BY <1>5, <2>3, <2>5
    <3>2. packet.type = "chunk" /\ packet.total = Len(codes) /\ packet.index = written - 1
      <4>1. k \in 2 .. n /\ k - 2 = written - 1
        BY <1>5, <1>6, <2>5
      <4>. QED
        BY <1>4, <4>1
    <3>. DEFINE A == {packets[i].data : i \in 2 .. n}
                c == reception.chunks
                m == written - 1
    <3>3. m \in Nat /\ k = m + 2 /\ m + 1 = k - 1 /\ m < n
      <4>1. written \in Nat /\ written < n
        BY <1>1, <1>4, <1>5
      <4>. QED
        BY <1>4, <2>5, <4>1
    <3>4. c \in Seq(A) /\ Len(c) = m /\ \A i \in 1 .. m : c[i] = packets[1 + i].data
      <4>1. c = [i \in 1 .. m |-> packets[1 + i].data]
        BY <3>1
      <4>2. \A i \in 1 .. m : packets[1 + i].data \in A
        <5>1. \A i \in 1 .. m : 1 + i \in 2 .. n
          BY <1>1, <1>4, <1>5
        <5>. QED
          BY <5>1
      <4>. HIDE DEF A, c, m
      <4>. QED
        BY <3>3, <4>1, <4>2
    <3>5. packet.data \in A /\ packet.data = packets[1 + (m + 1)].data
      <4>1. k \in 2 .. n /\ 1 + (m + 1) = k
        BY <1>6, <3>3
      <4>. QED
        BY <4>1
    <3>6. reception' = [reception EXCEPT !.total = packet.total, !.chunks = Append(c, packet.data)]
      <4>1. packet.type # "announce"
        BY <3>2
      <4>2. packet.index = Len(reception.chunks)
        BY <3>2, <3>4
      <4>. QED
        BY <2>2, <4>1, <4>2 DEF After
    <3>. HIDE DEF A, c, m, packet
    <3>. DEFINE d == Append(c, packet.data)
    <3>7. d = [i \in 1 .. k - 1 |-> packets[1 + i].data]
      <4>1. /\ d \in Seq(A) /\ Len(d) = m + 1 /\ d[m + 1] = packet.data
            /\ \A i \in 1 .. m : d[i] = c[i]
        BY <3>3, <3>4, <3>5
      <4>2. \A i \in 1 .. m + 1 : d[i] = packets[1 + i].data
        <5>1. \A i \in 1 .. m + 1 : i \in 1 .. m \/ i = m + 1
          BY <3>3
        <5>. HIDE DEF d
        <5>. QED
          BY <3>4, <3>5, <4>1, <5>1
      <4>. HIDE DEF d
      <4>3. d = [i \in 1 .. m + 1 |-> d[i]]
        BY <4>1
      <4>. QED
        BY <3>3, <4>2, <4>3
    <3>. HIDE DEF d
    <3>8. /\ reception'.program = Program /\ reception'.chunks = d /\ reception'.total = Len(codes)
          /\ DOMAIN reception' = {"program", "total", "chunks"}
          /\ reception' = [field \in DOMAIN reception' |-> reception'[field]]
      BY <3>1, <3>2, <3>6 DEF d
    <3>9. ASSUME k = n PROVE shown' = Program
      <4>1. AllOf(packets, d)
        BY <3>7, <3>9 DEF n, AllOf
      <4>2. /\ Len(d) = Len(packets) - 1
            /\ FlattenSeq([i \in 1 .. Len(d) |-> d[i]]) = codes
            /\ lzssDecompress(codes) = Program
        BY <1>3, <4>1, AllChunks DEF codes
      <4>3. Complete(reception')
        BY <1>4, <3>8, <4>2 DEF Complete
      <4>. QED
        BY <2>2, <3>8, <4>3
    <3>. QED
      BY <3>7, <3>8, <3>9
  <2>. QED
    BY <1>5, <2>4, <2>5
<1>8. Received'
  <2>1. plan'.packets = packets /\ written' = k /\ Program' = Program
    BY <1>1, <1>2 DEF packets
  <2>2. written' \in 0 .. Len(plan'.packets) /\ arrived' \subseteq 1 .. written'
    BY <1>4, <1>6, <2>1 DEF n
  <2>3. arrived' = 1 .. written' /\ written' > 0 =>
          /\ DOMAIN reception' = {"program", "total", "chunks"}
          /\ reception' = [field \in DOMAIN reception' |-> reception'[field]]
          /\ reception'.program = Program'
          /\ reception'.chunks = [i \in 1 .. written' - 1 |-> plan'.packets[1 + i].data]
          /\ written' > 1 => reception'.total = Len(lzssCompressSafe(Program'))
          /\ written' = Len(plan'.packets) => shown' = Program'
    <3>. HIDE DEF k
    <3>. QED
      BY <1>7, <2>1 DEF n, codes
  <2>. QED
    BY <2>2, <2>3 DEF Received
<1>. QED
  BY <1>1, <1>2, <1>8 DEF ContentInv

LEMMA ContentStep == ASSUME ContentInv, [UploadNext]_uploadVars PROVE ContentInv'
<1>1. ASSUME NEW strategy \in Strategies \cup {"none"}, NEW black \in Blacks \cup {"none"},
             Learn(strategy, black)
      PROVE  ContentInv'
  <2>1. Sound'
    <3>1. learned' \in Behaviour
      BY <1>1 DEF Learn, Behaviour
    <3>2. learned'.black = "true-black" => device.black = "true-black"
      BY <1>1 DEF Learn
    <3>. QED
      BY <1>1, <3>1, <3>2 DEF Learn, ContentInv, Sound
  <2>2. Carried'
    BY <1>1, PlanStays DEF Learn, ContentInv
  <2>3. Received' /\ plan'.live \in BOOLEAN
    BY <1>1 DEF Learn, ContentInv, Received, Program
  <2>. QED
    BY <2>1, <2>2, <2>3 DEF ContentInv
<1>2. ASSUME UNCHANGED <<device, known, learned, plan, written, reception, shown, arrived>>
      PROVE  ContentInv'
  <2>1. Sound' /\ Carried'
    BY <1>2, SteadyCarries DEF ContentInv
  <2>2. Received' /\ plan'.live \in BOOLEAN
    BY <1>2 DEF ContentInv, Received, Program
  <2>. QED
    BY <2>1, <2>2 DEF ContentInv
<1>3. CASE Abort
  <2>1. plan'.live = FALSE /\ plan' = NoPlannedUpload
    BY <1>3 DEF Abort, NoPlannedUpload
  <2>2. Sound'
    BY <1>3 DEF Abort, ContentInv, Sound
  <2>. QED
    BY <2>1, <2>2 DEF ContentInv, Carried, Received
<1>4. CASE ReceiptArrives
  BY <1>2, <1>4 DEF ReceiptArrives
<1>5. CASE Analyse
  BY <1>2, <1>5 DEF Analyse
<1>6. CASE UNCHANGED uploadVars
  BY <1>2, <1>6 DEF uploadVars
<1>. QED
  BY <1>1, <1>3, <1>4, <1>5, <1>6, PlanCarries, TransmitCarries DEF UploadNext

\* Whatever is planned, on a display of any size, with any strategy and any knowledge of how black
\* comes out: the packets carry every pixel of the content, and an upload of which no packet was
\* lost shows it, whatever was cut off before (createContentPlan, compileProgram, wire.ts).
THEOREM ContentAlwaysReachesTheLights == UploadSpec => []ContentReachesTheLights
<1>1. ASSUME ContentInv PROVE ContentReachesTheLights
  <2>1. PacketsCarryTheContent
    <3>1. CASE plan.live
      <4>1. lzssDecompress(Joined(plan.packets)) = Program /\ Shows(Program, plan.content)
        BY <1>1, <3>1, AnnouncedDecodes DEF ContentInv, Carried
      <4>. QED
        BY <3>1, <4>1 DEF PacketsCarryTheContent
    <3>2. CASE ~plan.live
      BY <1>1, <3>2 DEF ContentInv, Carried, PacketsCarryTheContent
    <3>. QED
      BY <3>1, <3>2
  <2>2. WholeUploadsAreShown
    <3>. SUFFICES ASSUME plan.live, ~Sending, arrived = DOMAIN plan.packets
                  PROVE  shown # <<>> /\ Shows(shown, plan.content)
      BY DEF WholeUploadsAreShown
    <3>1. Announces(plan.packets, Program) /\ Shows(Program, plan.content)
      BY <1>1 DEF ContentInv, Carried
    <3>2. /\ Len(plan.packets) \in Nat /\ Len(plan.packets) > 1 /\ Program # <<>>
          /\ DOMAIN plan.packets = 1 .. Len(plan.packets)
      BY <3>1, AnnouncedPackets
    <3>3. written \in 0 .. Len(plan.packets) /\ ~(written < Len(plan.packets))
      BY <1>1 DEF ContentInv, Received, Sending
    <3>4. written = Len(plan.packets) /\ written > 0 /\ arrived = 1 .. written
      BY <3>2, <3>3
    <3>5. shown = Program
      BY <1>1, <3>4 DEF ContentInv, Received
    <3>. QED
      BY <3>1, <3>2, <3>5
  <2>. QED
    BY <2>1, <2>2 DEF ContentReachesTheLights
<1>2. ContentInv /\ [UploadNext]_uploadVars => ContentInv'
  BY ContentStep
<1>. QED
  BY <1>1, <1>2, ContentStart, PTL DEF UploadSpec
===============================================================================
