-------------------------- MODULE LanguageService ---------------------------
(***************************************************************************)
(* internal/language.Service for one document URI, and the diagnostics     *)
(* that internal/lsp publishes from it: editor overlays over the saved     *)
(* file, the analysis cache with its shared entries, and requests that     *)
(* resolve a snapshot, analyse it and use the result later.                *)
(* A cache entry is named by the request that starts its analysis.         *)
(***************************************************************************)
EXTENDS Naturals, FiniteSets

CONSTANTS Requests,   \* calls of analyzedDocument, numbered as they begin
          Versions,   \* document versions the client sends
          Workspaces, \* workspaces whose root holds the file, numbered by depth
          MaxSaves,   \* bound: changes of the saved file and of the open workspaces
          None

ASSUME RequestsNat == Requests \subseteq Nat
ASSUME VersionsNat == Versions \subseteq Nat
ASSUME WorkspacesNat == Workspaces \subseteq Nat
ASSUME MaxSavesNat == MaxSaves \in Nat

VARIABLES
  overlay,     \* Service.overlays[uri]: [gen, version, text] or None
  generation,  \* Service.generation
  open,        \* the open workspaces
  next,        \* Workspace.nextDocumentGeneration
  saved,       \* the file's document in a workspace: [gen, text] or None
  saves,       \* changes of these so far
  texts,       \* texts seen so far; each edit or save has a new one
  editor,      \* lifecycle handler: "ready", "clearing" (didClose before its notification)
  cache,       \* Service.cache[uri]: entry or None
  entry,       \* analysisEntry.snapshot
  analysis,    \* of an entry: "none", "running", "ready"
  stage,       \* request: program counter
  purpose,     \* "feature", or "publish" for publishDiagnosticsAsync
  snap,        \* snapshot the request resolved
  waits,       \* entry the request waits for
  since        \* history: snapshots that were current since the request began

fileVars == <<open, next, saved, saves>>
docVars == <<overlay, generation, fileVars, texts, editor>>
cacheVars == <<cache, entry, analysis>>
reqVars == <<stage, purpose, snap, waits>>
languageVars == <<docVars, cacheVars, reqVars, since>>

\* A snapshot carries its identity and, for the properties, its text.
Overlay(o) == [id |-> <<"overlay", o.gen>>, text |-> o.text]
Saved(w) == [id |-> <<"workspace", w, saved[w].gen>>, text |-> saved[w].text]

\* LookupDocument: the deepest open workspace decides, also when it has no such file.
Deepest(w) == w \in open /\ \A v \in open : v <= w
LookupDocument ==
  LET found == {w \in Workspaces : Deepest(w) /\ saved[w] # None}
  IN  IF found = {} THEN None ELSE Saved(CHOOSE w \in found : TRUE)

\* The source a request should see.
Current ==
  IF overlay # None THEN Overlay(overlay) ELSE LookupDocument

LanguageInit ==
  /\ overlay = None /\ generation = 0
  /\ open \in SUBSET Workspaces
  /\ next = [w \in Workspaces |-> IF w \in open THEN 1 ELSE 0]
  /\ saved = [w \in Workspaces |-> IF w \in open THEN [gen |-> 1, text |-> 0] ELSE None]
  /\ saves = 0 /\ texts = 0 /\ editor = "ready"
  /\ cache = None
  /\ entry = [r \in Requests |-> None]
  /\ analysis = [r \in Requests |-> "none"]
  /\ stage = [r \in Requests |-> "idle"]
  /\ purpose = [r \in Requests |-> "feature"]
  /\ snap = [r \in Requests |-> None]
  /\ waits = [r \in Requests |-> None]
  /\ since = [r \in Requests |-> {}]

\* History: every request in progress has now also seen the new current source.
observe ==
  since' = [r \in Requests |-> IF stage'[r] \in {"idle", "done"} THEN {}
                               ELSE since[r] \cup {Current'}]

begin(r, k) ==
  /\ stage[r] = "idle" /\ \A q \in Requests : q < r => stage[q] # "idle"
  /\ stage' = [stage EXCEPT ![r] = "resolve"]
  /\ purpose' = [purpose EXCEPT ![r] = k]
  /\ UNCHANGED <<snap, waits>>
-----------------------------------------------------------------------------
(* The editor's notifications, one at a time, and the saved file *)

\* Mutant: the client's version serves as the overlay's generation.
OpenDocumentByVersion(v) ==
  /\ overlay' = [gen |-> v, version |-> v, text |-> texts + 1]
  /\ texts' = texts + 1
  /\ cache' = None
  /\ UNCHANGED generation

OpenDocument(v) ==
  /\ generation' = generation + 1
  /\ overlay' = [gen |-> generation + 1, version |-> v, text |-> texts + 1]
  /\ texts' = texts + 1
  /\ cache' = None

\* A document that is not open, or a version that does not advance, is refused
\* without effect.
ChangeDocument(v) ==
  /\ overlay # None
  /\ v > overlay.version
  /\ generation' = generation + 1
  /\ overlay' = [gen |-> generation + 1, version |-> v, text |-> texts + 1]
  /\ texts' = texts + 1
  /\ cache' = None

\* The handlers store the text and start publishDiagnosticsAsync as request r.
didOpen(r, v) ==
  /\ editor = "ready"
  /\ OpenDocument(v)
  /\ begin(r, "publish")
  /\ UNCHANGED <<fileVars, editor, entry, analysis>>
  /\ observe

didChange(r, v) ==
  /\ editor = "ready"
  /\ ChangeDocument(v)
  /\ begin(r, "publish")
  /\ UNCHANGED <<fileVars, editor, entry, analysis>>
  /\ observe

\* didClose: CloseDocument, and then the notification that clears the client.
CloseDocument ==
  /\ editor = "ready"
  /\ editor' = "clearing"
  /\ overlay' = None
  /\ cache' = None
  /\ UNCHANGED <<generation, fileVars, texts, entry, analysis, reqVars>>
  /\ observe

clear ==
  /\ editor = "clearing"
  /\ editor' = "ready"
  /\ UNCHANGED <<overlay, generation, fileVars, texts, cacheVars, reqVars, since>>

\* Workspace w applies a saved change, or drops the file; its document generations
\* only grow.
change(w) ==
  /\ w \in open
  /\ next' = [next EXCEPT ![w] = @ + 1]
  /\ saved' = [saved EXCEPT ![w] = [gen |-> next[w] + 1, text |-> texts + 1]]
  /\ texts' = texts + 1
  /\ UNCHANGED open

drop(w) ==
  /\ w \in open /\ saved[w] # None
  /\ saved' = [saved EXCEPT ![w] = None]
  /\ UNCHANGED <<open, next, texts>>

\* Open loads a workspace under a new ID, with the file or without it; a closed one
\* is no longer found.
openWorkspace(w) ==
  /\ w \notin open /\ next[w] = 0
  /\ open' = open \cup {w}
  /\ next' = [next EXCEPT ![w] = 1]
  /\ \/ saved' = [saved EXCEPT ![w] = [gen |-> 1, text |-> texts + 1]] /\ texts' = texts + 1
     \/ UNCHANGED <<saved, texts>>

closeWorkspace(w) ==
  /\ w \in open
  /\ open' = open \ {w}
  /\ UNCHANGED <<next, saved, texts>>

\* The workspaces change behind the language service.
save(w) ==
  /\ saves < MaxSaves
  /\ saves' = saves + 1
  /\ change(w) \/ drop(w) \/ openWorkspace(w) \/ closeWorkspace(w)
  /\ UNCHANGED <<overlay, generation, editor, cacheVars, reqVars>>
  /\ observe
-----------------------------------------------------------------------------
(* analyzedDocument *)

\* A feature request: hover, definition, completion and the others.
request(r) ==
  /\ begin(r, "feature")
  /\ UNCHANGED <<docVars, cacheVars>>
  /\ observe

\* resolveSnapshot reads the overlay under Service.mu ...
resolveSnapshot(r) ==
  /\ stage[r] = "resolve"
  /\ IF overlay # None
     THEN /\ snap' = [snap EXCEPT ![r] = Overlay(overlay)]
          /\ stage' = [stage EXCEPT ![r] = "acquire"]
     ELSE /\ stage' = [stage EXCEPT ![r] = "lookup"]
          /\ UNCHANGED snap
  /\ UNCHANGED <<docVars, cacheVars, purpose, waits, since>>

\* ... and, without one, the workspace after releasing it.
lookup(r) ==
  /\ stage[r] = "lookup"
  /\ IF LookupDocument = None
     THEN stage' = [stage EXCEPT ![r] = "done"] /\ UNCHANGED snap
     ELSE /\ stage' = [stage EXCEPT ![r] = "acquire"]
          /\ snap' = [snap EXCEPT ![r] = LookupDocument]
  /\ UNCHANGED <<docVars, cacheVars, purpose, waits, since>>

snapshotCurrent(s) == Current # None /\ s.id = Current.id

newEntry(r) ==
  /\ cache' = r
  /\ entry' = [entry EXCEPT ![r] = snap[r]]
  /\ analysis' = [analysis EXCEPT ![r] = "running"]
  /\ waits' = [waits EXCEPT ![r] = r]
  /\ stage' = [stage EXCEPT ![r] = "wait"]

\* Under the lock: start over if the snapshot is no longer current, share the
\* cached entry of the same snapshot, or start an analysis of its own.
acquire(r) ==
  /\ stage[r] = "acquire"
  /\ IF ~snapshotCurrent(snap[r])
     THEN stage' = [stage EXCEPT ![r] = "resolve"] /\ UNCHANGED <<waits, cacheVars>>
     ELSE IF cache # None /\ entry[cache].id = snap[r].id
     THEN /\ waits' = [waits EXCEPT ![r] = cache]
          /\ stage' = [stage EXCEPT ![r] = "wait"]
          /\ UNCHANGED cacheVars
     ELSE newEntry(r)
  /\ snap' = [snap EXCEPT ![r] = None]
  /\ UNCHANGED <<docVars, purpose, since>>

\* Mutant: waiters of an entry that left the cache are not released.
RunAnalysisDrops(e) ==
  /\ analysis[e] = "running"
  /\ cache = e
  /\ analysis' = [analysis EXCEPT ![e] = "ready"]
  /\ UNCHANGED <<docVars, cache, entry, reqVars, since>>

\* The analysis ends; a stale entry leaves the cache, and its waiters go on.
runAnalysis(e) ==
  /\ analysis[e] = "running"
  /\ analysis' = [analysis EXCEPT ![e] = "ready"]
  /\ cache' = IF cache = e /\ ~snapshotCurrent(entry[e]) THEN None ELSE cache
  /\ UNCHANGED <<docVars, entry, reqVars, since>>

\* The result, or the entry's error, or (giveUp) the caller's cancellation.
await(r) ==
  /\ stage[r] = "wait"
  /\ analysis[waits[r]] = "ready"
  /\ \/ purpose[r] = "publish" /\ stage' = [stage EXCEPT ![r] = "check"]
     \/ stage' = [stage EXCEPT ![r] = "done"]
  /\ UNCHANGED <<docVars, cacheVars, purpose, snap, waits, since>>

giveUp(r) ==
  /\ stage[r] \in {"resolve", "wait"}
  /\ stage' = [stage EXCEPT ![r] = "done"]
  /\ UNCHANGED <<docVars, cacheVars, purpose, snap, waits, since>>
-----------------------------------------------------------------------------
(* publishDiagnosticsAsync *)

IsCurrent(r) ==
  /\ stage[r] = "check"
  /\ stage' = [stage EXCEPT ![r] = IF snapshotCurrent(entry[waits[r]]) THEN "send" ELSE "done"]
  /\ UNCHANGED <<docVars, cacheVars, purpose, snap, waits, since>>

sendNotification(r) ==
  /\ stage[r] = "send"
  /\ stage' = [stage EXCEPT ![r] = "done"]
  /\ UNCHANGED <<docVars, cacheVars, purpose, snap, waits, since>>
-----------------------------------------------------------------------------
step(r) ==
  \/ resolveSnapshot(r) \/ lookup(r) \/ acquire(r) \/ await(r)
  \/ IsCurrent(r) \/ sendNotification(r)

LanguageNext ==
  \/ \E r \in Requests, v \in Versions : didOpen(r, v) \/ didChange(r, v)
  \/ CloseDocument \/ clear
  \/ \E w \in Workspaces : save(w)
  \/ \E r \in Requests : request(r) \/ step(r) \/ giveUp(r) \/ runAnalysis(r)

LanguageSpec == LanguageInit /\ [][LanguageNext]_languageVars

\* Requests and analyses run on; the editor and the file system owe nothing.
LanguageFairness == \A r \in Requests : WF_languageVars(step(r)) /\ WF_languageVars(runAnalysis(r))

FairLanguageSpec == LanguageSpec /\ LanguageFairness
-----------------------------------------------------------------------------
(* Properties *)

Snapshots ==
  [id : ({"overlay"} \X (1..Cardinality(Requests)))
          \cup ({"workspace"} \X Workspaces \X (1..(MaxSaves + 1))),
   text : 0..(Cardinality(Requests) + MaxSaves)]

\* Every variable has the values of the service's maps; a request that asks for
\* an entry has resolved a snapshot.
LanguageTypeOK ==
  /\ overlay # None => Overlay(overlay) \in Snapshots /\ overlay.version \in Versions
  /\ open \subseteq Workspaces
  /\ next \in [Workspaces -> 0..(MaxSaves + 1)]
  /\ \A w \in Workspaces : saved[w] # None => Saved(w) \in Snapshots
  /\ generation \in 0..Cardinality(Requests)
  /\ editor \in {"ready", "clearing"}
  /\ cache \in Requests \cup {None}
  /\ entry \in [Requests -> Snapshots \cup {None}]
  /\ analysis \in [Requests -> {"none", "running", "ready"}]
  /\ stage \in [Requests -> {"idle", "resolve", "lookup", "acquire", "wait", "check", "send", "done"}]
  /\ purpose \in [Requests -> {"feature", "publish"}]
  /\ snap \in [Requests -> Snapshots \cup {None}]
  /\ \A r \in Requests : stage[r] = "acquire" => snap[r] # None
  /\ waits \in [Requests -> Requests \cup {None}]

\* What a request is given was the current source at some moment of the
\* request, although it may share an entry another request began.
ServedWasCurrent ==
  \A r \in Requests : stage[r] \in {"wait", "check", "send"} => entry[waits[r]] \in since[r]

\* An identity names one text: closing and reopening with the same version, or
\* recreating the file, never makes an old analysis pass for the new text.
IdIdentifiesText ==
  \A r \in Requests :
    entry[r] # None /\ Current # None /\ entry[r].id = Current.id => entry[r].text = Current.text

\* What the documentation says of diagnostics: stale ones are not published.
StaleSuppressed ==
  [][\A r \in Requests : sendNotification(r) => snapshotCurrent(entry[waits[r]])]_languageVars

\* A request returns, however often the source changed under it.
RequestReturns == \A r \in Requests : stage[r] = "resolve" ~> stage[r] = "done"

\* A request is served an analysis of the text that was current during it: the
\* entry it shares is of a current identity, and an identity names one text.
ServedItsText == ServedWasCurrent /\ IdIdentifiesText
=============================================================================
