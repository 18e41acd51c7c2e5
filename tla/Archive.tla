-------------------------------- MODULE Archive --------------------------------
(***************************************************************************)
(* What becomes of investigations outside the memory of one page: the      *)
(* history in local storage that all tabs share (src/src/storage),         *)
(* resuming, files that are exported and opened as an offline workspace    *)
(* (diagnostics/bundle.ts), and the validation that every record from      *)
(* outside passes (investigation/serialization.ts).  A record is reduced   *)
(* to its results with the scope of their evidence, the runs they come     *)
(* from, its display and the program believed to be on the panel.  All     *)
(* displays are of one model.                                              *)
(***************************************************************************)
EXTENDS Naturals, Sequences, FiniteSets

CONSTANTS
  Pages,       \* tabs of the browser
  Panels,      \* displays
  MaxStored,   \* records in the history (8 in the code)
  MaxRecords,  \* bound on the investigations
  MaxResults,  \* bound on the results
  MaxMoves,    \* bound on connecting, resuming, reloading, exporting, opening and editing
  OneHolder    \* a record is worked on in one place; reports are only read
ASSUME ArchiveAssumption ==
  /\ {MaxStored, MaxRecords, MaxResults, MaxMoves} \subseteq Nat /\ MaxStored > 0
  /\ OneHolder \in BOOLEAN /\ "none" \notin Panels

VARIABLES
  pages,   \* of each tab: the workspace shown, the live one behind it, its own results
  localHistory, \* local storage
  refusing, \* the history is over its limit (2 MiB), or the browser refuses to write it
  kept,    \* (history) what accepted saves promised, most recent first
  file,    \* an exported file
  records, results, \* numbers given so far
  moves    \* (bound) moves so far
archiveVars == <<pages, localHistory, refusing, kept, file, records, results, moves>>

------------------------------------------------------------------------------
(* Records.                                                                *)

EvidenceScopes == {"current-session", "previous-local-session", "imported-external", "built-in-profile"}
NoRecord == [id |-> 0, bound |-> "none", active |-> FALSE, evidence |-> {}, runs |-> {}, panel |-> 0]
createInvestigation(id, display) ==
  [NoRecord EXCEPT !.id = id, !.bound = display, !.active = TRUE]
Scoped(record, scope) ==
  [record EXCEPT !.evidence = {[e EXCEPT !.scope = scope] : e \in record.evidence}]
\* A mutant that believes the scopes a record claims.
demoteOnlyThePanel(record, scope) == [record EXCEPT !.panel = 0]
demoteInvestigationEvidence(record, scope) == [Scoped(record, scope) EXCEPT !.panel = 0]
Detached(record) ==
  [demoteInvestigationEvidence(record, "previous-local-session") EXCEPT !.active = FALSE]
bindingAllowsSessionContinuity(bound, display) == bound # "none" /\ bound = display
ResultsOf(record) == {e.n : e \in record.evidence}

\* Entries that are malformed are dropped, one by one; nothing is known of the panel.
sanitizeOrchestration(record, malformed) ==
  [record EXCEPT !.runs = @ \ malformed, !.panel = 0]
sanitizeInvestigation(record, malformed) ==
  [sanitizeOrchestration(record, malformed) EXCEPT
     !.evidence = {e \in @ : e.n \notin malformed}]

------------------------------------------------------------------------------
(* The history.                                                            *)

\* The places of a set in their order, and the entries of a list that are at them: a filter.
InOrder(places) ==
  CHOOSE p \in [1 .. Cardinality(places) -> places] : \A i, j \in DOMAIN p : i < j => p[i] < p[j]
EntriesAt(list, places) == [k \in DOMAIN InOrder(places) |-> list[InOrder(places)[k]]]

Stored(record) == [record |-> record, malformed |-> {}, unreadable |-> FALSE]
loadStore(entries) ==
  LET readable == EntriesAt(entries, {i \in DOMAIN entries : ~entries[i].unreadable})
  IN  [i \in DOMAIN readable |-> sanitizeInvestigation(readable[i].record, readable[i].malformed)]
Limited(s) == IF Len(s) > MaxStored THEN SubSeq(s, 1, MaxStored) ELSE s

Others(list, id) == EntriesAt(list, {i \in DOMAIN list : list[i].id # id})
\* A mutant that puts the record saved last at the end.
SavedLast(record, entries) ==
  Limited(Append(Others(loadStore(entries), record.id), sanitizeInvestigation(record, {})))
Saved(record, entries) ==
  Limited(<<sanitizeInvestigation(record, {})>> \o Others(loadStore(entries), record.id))
Promised(record, promises) ==
  LET before == {p \in {promises[i] : i \in DOMAIN promises} : p.id = record.id}
  IN  Limited(<<[id |-> record.id,
                 results |-> ResultsOf(record) \cup UNION {p.results : p \in before},
                 runs |-> record.runs \cup UNION {p.runs : p \in before}]>>
                \o Others(promises, record.id))
saveInvestigation(store, record) ==
  LET next == Saved(record, store.history)
  IN  IF record = NoRecord \/ refusing THEN store
      ELSE [history |-> [i \in DOMAIN next |-> Stored(next[i])],
            kept |-> Promised(record, store.kept)]
Persist(first, second) ==
  LET store == saveInvestigation(saveInvestigation([history |-> localHistory, kept |-> kept], first), second)
  IN  localHistory' = store.history /\ kept' = store.kept /\ UNCHANGED refusing

------------------------------------------------------------------------------
(* Workspaces.                                                             *)

NoWorkspace == [display |-> "none", imported |-> FALSE, current |-> NoRecord,
                detached |-> NoRecord, fresh |-> FALSE]
NewPage == [shown |-> NoWorkspace, live |-> NoWorkspace, own |-> {}]
Held(workspace) == {workspace.current.id, workspace.detached.id} \ {0}
HeldElsewhere(t) ==
  (UNION {Held(pages[u].shown) : u \in Pages \ {t}}) \cup (UNION {Held(pages[u].live) : u \in Pages})
    \cup ({pages[t].shown.detached.id} \ {0})

IsRecord(r) ==
  /\ r.id \in 0 .. records /\ r.bound \in Panels \cup {"none"} /\ r.active \in BOOLEAN
  /\ r.runs \subseteq 1 .. results /\ r.panel \in 0 .. results
  /\ \A e \in r.evidence : e.n \in 1 .. results /\ e.on \in Panels /\ e.scope \in EvidenceScopes
ArchiveTypeOK ==
  /\ records \in 0 .. MaxRecords /\ results \in 0 .. MaxResults
  /\ \A t \in Pages : \A w \in {pages[t].shown, pages[t].live} :
       /\ w.display \in Panels \cup {"none"} /\ w.imported \in BOOLEAN /\ w.fresh \in BOOLEAN
       /\ IsRecord(w.current) /\ IsRecord(w.detached)
  /\ Len(localHistory) <= MaxStored /\ \A i \in DOMAIN localHistory : IsRecord(localHistory[i].record)
  /\ Cardinality({localHistory[i].record.id : i \in DOMAIN localHistory}) = Len(localHistory)
  /\ IsRecord(file.record) /\ file.full \in BOOLEAN

ArchiveInit ==
  /\ pages = [t \in Pages |-> NewPage]
  /\ localHistory = <<>> /\ refusing = FALSE /\ kept = <<>> /\ file = [record |-> NoRecord, full |-> FALSE]
  /\ records = 0 /\ results = 0 /\ moves = 0

Shown(t, workspace) == pages' = [pages EXCEPT ![t].shown = workspace]
KeepStorage == UNCHANGED <<localHistory, refusing, kept>>

\* connect(): the current record is saved first, the detached one last.
ConnectPanel(t, d) ==
  LET w == pages[t].shown
      same == bindingAllowsSessionContinuity(w.current.bound, d)
  IN  /\ ~w.imported /\ w.display = "none"
      /\ Shown(t, [w EXCEPT !.display = d, !.fresh = TRUE, !.detached = NoRecord,
                           !.current = IF same THEN [@ EXCEPT !.panel = 0] ELSE NoRecord])
      /\ Persist(w.current, IF w.current = NoRecord \/ same THEN w.detached ELSE Detached(w.current))
      /\ UNCHANGED <<file, records, results>>
\* A connection that fails has saved the current record.
ConnectPanelFails(t) ==
  /\ ~pages[t].shown.imported /\ pages[t].shown.display = "none"
  /\ Persist(pages[t].shown.current, NoRecord)
  /\ UNCHANGED <<pages, file, records, results>>

\* The link of the workspace that is shown, or of the live one behind it, ends.
Unlinked(w, unexpected) ==
  [w EXCEPT !.display = "none", !.current.panel = 0, !.fresh = @ /\ ~unexpected]
LoseThePanel(t) ==
  /\ \E unexpected \in BOOLEAN :
       \/ /\ ~pages[t].shown.imported /\ pages[t].shown.display # "none"
          /\ Shown(t, Unlinked(pages[t].shown, unexpected))
       \/ /\ pages[t].live.display # "none"
          /\ pages' = [pages EXCEPT ![t].live = Unlinked(@, unexpected)]
  /\ KeepStorage /\ UNCHANGED <<file, records, results>>

startInvestigation(w) ==
  IF w.current.active /\ w.fresh THEN w
  ELSE [w EXCEPT !.detached = IF w.current = NoRecord THEN @ ELSE Detached(w.current),
                 !.current = createInvestigation(records + 1, w.display), !.fresh = TRUE]
ensureInvestigation(w) ==
  IF w.current.active THEN w
  ELSE IF w.current # NoRecord /\ w.fresh THEN [w EXCEPT !.current.active = TRUE] ELSE startInvestigation(w)
CountRecords(w) ==
  /\ w.current.id <= MaxRecords
  /\ records' = IF w.current.id > records THEN w.current.id ELSE records
MayWork(t) == OneHolder => ~pages[t].shown.imported

BeginInvestigation(t) ==
  LET w == ensureInvestigation(pages[t].shown)
  IN  /\ MayWork(t) /\ Shown(t, w) /\ CountRecords(w)
      /\ KeepStorage /\ UNCHANGED <<file, results>>
Troubleshoot(t) ==
  LET w == startInvestigation(pages[t].shown)
  IN  /\ MayWork(t) /\ Shown(t, w) /\ CountRecords(w) /\ Persist(w.current, NoRecord)
      /\ UNCHANGED <<file, results>>
StopAndSave(t) ==
  LET w == [pages[t].shown EXCEPT !.current.active = FALSE]
  IN  /\ MayWork(t) /\ pages[t].shown.current.active
      /\ Shown(t, w) /\ Persist(w.current, NoRecord)
      /\ UNCHANGED <<file, records, results>>
\* A test was run on the connected display and its result is recorded and saved.
RecordResult(t) ==
  LET w == ensureInvestigation(pages[t].shown)
      n == results + 1
      evidence == w.current.evidence
                    \cup {[n |-> n, on |-> w.display, scope |-> "current-session"]}
      recorded == [w EXCEPT !.current.evidence = evidence, !.current.runs = @ \cup {n},
                            !.current.panel = n]
  IN  /\ ~w.imported /\ w.display # "none" /\ results < MaxResults /\ results' = n
      /\ pages' = [pages EXCEPT ![t].shown = recorded, ![t].own = @ \cup {n}]
      /\ CountRecords(recorded) /\ Persist(recorded.current, NoRecord)
      /\ UNCHANGED file

\* resumeStoredInvestigation and adoptInvestigation
Adopted(record, w) ==
  LET same == bindingAllowsSessionContinuity(record.bound, w.display)
  IN  [demoteInvestigationEvidence(record, "previous-local-session") EXCEPT
         !.active = TRUE, !.bound = IF w.display = "none" /\ ~w.imported THEN @ ELSE w.display,
         !.runs = IF same THEN @ ELSE {}]
ResumeStored(t) ==
  LET stored == loadStore(localHistory)
      w == pages[t].shown
  IN  /\ stored # <<>> /\ (OneHolder => stored[1].id \notin HeldElsewhere(t))
      /\ Shown(t, [w EXCEPT !.current = Adopted(stored[1], w), !.fresh = TRUE])
      /\ KeepStorage /\ UNCHANGED <<file, records, results>>

ForgetHistory ==
  /\ localHistory # <<>> /\ localHistory' = <<>> /\ kept' = <<>> /\ refusing' = FALSE
  /\ UNCHANGED <<pages, file, records, results>>

------------------------------------------------------------------------------
(* Files.                                                                  *)

\* A shareable file does not say which display it was.
redactBundle(record) == [record EXCEPT !.bound = "none"]
ExportFile(t) ==
  LET w == pages[t].shown
  IN  /\ w.display # "none" \/ w.imported
      /\ w.current # NoRecord
      /\ \E full \in BOOLEAN :
           file' = [record |-> IF full THEN w.current ELSE redactBundle(w.current),
                    full |-> full]
      /\ KeepStorage /\ UNCHANGED <<pages, records, results>>

\* What somebody with an editor can make a record claim: all results are of this session, the
\* panel shows the last one.
Claiming(record) == {record, [Scoped(record, "current-session") EXCEPT !.panel = results]}

\* A file with a malformed entry is refused as a whole.
ValidBundle(record, malformed) ==
  sanitizeInvestigation(record, malformed) = sanitizeInvestigation(record, {})

\* importBundle: an offline workspace; a connected one stays behind it.
ImportFile(t) ==
  /\ file.record # NoRecord
  /\ \E claimed \in Claiming(file.record), malformed \in {{}, {results}} :
       LET record == demoteInvestigationEvidence(sanitizeInvestigation(claimed, malformed), "imported-external")
           w == pages[t].shown
       IN  /\ ValidBundle(claimed, malformed)
           /\ pages' = [pages EXCEPT
                ![t].live = IF ~w.imported /\ w.display # "none" THEN w ELSE @,
                ![t].shown = [NoWorkspace EXCEPT !.imported = TRUE, !.fresh = TRUE,
                                                 !.display = record.bound, !.current = record]]
  /\ KeepStorage /\ UNCHANGED <<file, records, results>>
BackToTheDisplay(t) ==
  /\ pages[t].live # NoWorkspace
  /\ pages' = [pages EXCEPT ![t].shown = pages[t].live, ![t].live = NoWorkspace]
  /\ KeepStorage /\ UNCHANGED <<file, records, results>>

\* The tab is closed or reloaded.
Reload(t) ==
  /\ pages[t] # NewPage /\ pages' = [pages EXCEPT ![t] = NewPage]
  /\ KeepStorage /\ UNCHANGED <<file, records, results>>

\* The history passes its limit or the browser its own, or comes below it again.
StorageRefuses ==
  /\ refusing' = ~refusing
  /\ UNCHANGED <<pages, localHistory, kept, file, records, results>>
\* Local storage is edited: one record claims what it likes, has malformed entries or is unreadable.
EditStorage ==
  /\ \E i \in DOMAIN localHistory, malformed \in {{}, {results}}, unreadable \in BOOLEAN :
       \E claimed \in Claiming(localHistory[i].record) :
         /\ localHistory[i].malformed = {} /\ ~localHistory[i].unreadable
         /\ localHistory' = [localHistory EXCEPT ![i] =
              [record |-> claimed, malformed |-> malformed, unreadable |-> unreadable]]
         /\ LET p == CHOOSE j \in DOMAIN kept : kept[j].id = localHistory[i].record.id
            IN  kept' = IF unreadable THEN Others(kept, kept[p].id)
                        ELSE [kept EXCEPT ![p].results = @ \ malformed, ![p].runs = @ \ malformed]
  /\ UNCHANGED <<refusing, pages, file, records, results>>

ArchiveNext ==
  \/ /\ UNCHANGED moves
     /\ \E t \in Pages :
          \/ ConnectPanelFails(t) \/ LoseThePanel(t) \/ BackToTheDisplay(t)
          \/ BeginInvestigation(t) \/ Troubleshoot(t) \/ StopAndSave(t) \/ RecordResult(t)
  \/ /\ moves < MaxMoves /\ moves' = moves + 1
     /\ \/ \E t \in Pages :
             \/ \E d \in Panels : ConnectPanel(t, d)
             \/ ResumeStored(t) \/ ExportFile(t) \/ ImportFile(t) \/ Reload(t)
        \/ ForgetHistory \/ StorageRefuses \/ EditStorage
ArchiveSpec == ArchiveInit /\ [][ArchiveNext]_archiveVars

------------------------------------------------------------------------------
\* Evidence counts for the session only where it was made: recorded by this very tab since it was
\* loaded, on the display the record is bound to.  No file and no stored record brings authority
\* or a belief about the panel with it, whatever it claims (serialization.ts, investigation.ts
\* demoteInvestigationEvidence, adoptInvestigation, importBundle).
OutsideRecordsAuthorizeNothing ==
  \A t \in Pages : \A w \in {pages[t].shown, pages[t].live} :
    /\ \A e \in w.current.evidence :
         /\ e.scope # "built-in-profile"
         /\ e.scope = "current-session" => ~w.imported /\ e.n \in pages[t].own /\ e.on = w.current.bound
    /\ w.current.panel # 0 => ~w.imported /\ w.current.panel \in pages[t].own /\ w.display # "none"

\* The history is what the accepted saves promised: the records saved last, the last one first,
\* each with every result that any accepted save of it had, whatever happened in other tabs,
\* in opened reports or to other records since (saveInvestigation).
SavedResultsStay ==
  LET stored == loadStore(localHistory)
  IN  /\ Len(stored) = Len(kept)
      /\ \A i \in DOMAIN kept :
           stored[i].id = kept[i].id /\ kept[i].results \subseteq ResultsOf(stored[i])

\* Records from outside authorize nothing, and what was saved is found again.
ArchiveIsSound == OutsideRecordsAuthorizeNothing /\ SavedResultsStay

\* "Semantic orchestration - experiments, their attempts, transfers and their reasons - persists
\* too" (storage/investigations.ts): the runs of a saved record are in the history as long as it is.
SavedRunsSurvive ==
  LET stored == loadStore(localHistory)
  IN  \A i \in DOMAIN kept : kept[i].runs \subseteq stored[i].runs
================================================================================
