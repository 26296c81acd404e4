----------------------------- MODULE ModelPicker -----------------------------
(* The model picker of the terminal interface: the rows it shows             *)
(* (browser.rs), what Enter and `c` on a row start (tui/mod.rs), the download *)
(* of a catalog model (download.rs) and the refresh of the swarm's models,    *)
(* which both run as tasks beside the event loop and report through channels. *)
EXTENDS Naturals, FiniteSets, SequencesExt

CONSTANTS Names,      \* names of models
          Catalog,     \* those the program can download
          Fits,        \* those this machine has the memory for
          MaxInstalls, \* bound: downloads ever started
          MaxRefresh   \* bound: refreshes ever started

ASSUME PickerAssumption ==
  /\ Catalog \subseteq Names /\ Fits \subseteq Names /\ IsFiniteSet(Names)
  /\ MaxInstalls \in Nat /\ MaxRefresh \in Nat

VARIABLES disk,     \* the model directory: has a model its GGUF, its tokenizer?
          kept,     \* models with a kept_ranges.json: hosted by us
          scan,     \* local_scan: what the last look at the directory found
          swarm,    \* swarm_models: off-catalog models, fully served or not
          refresh,  \* swarm_rx: the refresh whose answer is awaited
          browser,  \* the rows on the screen and the selected one
          chosen,   \* mode and model of the next turn
          tasks,    \* downloads ever started
          download, \* the download whose events are received, 0 for none
          asked     \* refreshes ever started

picker_vars == <<disk, kept, scan, swarm, refresh, browser, chosen, tasks, download, asked>>

NoModel == [mode |-> "none", model |-> "none"]
Chat == [rows |-> <<>>, sel |-> 0]
Quiet == [state |-> "none", models |-> [m \in {} |-> FALSE]]

Coverage == UNION {[S -> BOOLEAN] : S \in SUBSET (Names \ Catalog)}

Row == [kind : {"local", "swarm", "hub"}, model : Names, enabled : BOOLEAN,
        contribute : BOOLEAN]

PickerTypeOK ==
  /\ disk \in [Names -> [gguf : BOOLEAN, tok : BOOLEAN]]
  /\ kept \subseteq Names
  /\ scan \in [listed : SUBSET Names, usable : SUBSET Names]
  /\ swarm \in Coverage
  /\ refresh \in [state : {"none", "asked", "answered"}, models : Coverage]
  /\ browser.rows \in Seq(Row) /\ browser.sel \in 0 .. Len(browser.rows)
  /\ chosen \in [mode : {"none", "local", "network"}, model : Names \cup {"none"}]
  /\ tasks \in Seq([model : Names, step : {"tokenizer", "gguf", "done", "error"}])
  /\ download \in 0 .. Len(tasks)
  /\ asked \in 0 .. MaxRefresh

\* The weights are there, and a tokenizer: its own or, as a last resort, any other
\* one of the same directory (Tok::locate_for).
Usable(m) == disk[m].gguf /\ \E n \in Names : disk[n].tok

\* list_models: every GGUF is listed, usable with a tokenizer next to it.
Scanned == [listed |-> {m \in Names : disk[m].gguf},
            usable |-> {m \in Names : Usable(m)}]

-----------------------------------------------------------------------------
(* build_rows: usable local models, swarm models outside the catalog, catalog *)
(* models not cached here.                                                    *)

RowOf(kind, m, enabled, contribute) ==
  [kind |-> kind, model |-> m, enabled |-> enabled, contribute |-> contribute]

LocalRow(m) == RowOf("local", m, TRUE, m \in Catalog)
SwarmRow(sw, m) == RowOf("swarm", m, sw[m], TRUE)
HubRow(m) == RowOf("hub", m, m \in Fits, m \in Fits)

build_rows(sc, sw) ==
  SetToSeq({LocalRow(m) : m \in sc.usable})
    \o SetToSeq({SwarmRow(sw, m) : m \in DOMAIN sw \ Catalog})
    \o SetToSeq({HubRow(m) : m \in Catalog \ sc.listed})

\* BrowserState::new: the first enabled row is selected, or else the first.
Shown(rows) ==
  [rows |-> rows,
   sel |-> IF rows = <<>> THEN 0
           ELSE IF \E i \in DOMAIN rows : rows[i].enabled
           THEN SelectInSeq(rows, LAMBDA r : r.enabled) ELSE 1]

InBrowser == browser.rows # <<>>
Current == browser.rows[browser.sel]

PickerInit ==
  /\ disk \in [Names -> {[gguf |-> FALSE, tok |-> FALSE], [gguf |-> TRUE, tok |-> TRUE]}]
  /\ kept \in SUBSET Names
  /\ scan = Scanned
  /\ swarm = Quiet.models
  /\ refresh = Quiet
  /\ browser = Chat
  /\ chosen = NoModel
  /\ tasks = <<>> /\ download = 0
  /\ asked = 0

-----------------------------------------------------------------------------
\* /models: look at the directory again, show the rows with what is known of the
\* swarm, and ask it anew; an earlier refresh loses its receiver.
OpenBrowser ==
  /\ ~InBrowser
  /\ asked < MaxRefresh /\ asked' = asked + 1
  /\ scan' = Scanned
  /\ browser' = Shown(build_rows(scan', swarm))
  /\ refresh' = [Quiet EXCEPT !.state = "asked"]
  /\ UNCHANGED <<disk, kept, swarm, chosen, tasks, download>>

\* The DHT was asked for every catalog model and every model with a sidecar.
RefreshAnswers ==
  /\ refresh.state = "asked"
  /\ \E answer \in [kept \ Catalog -> BOOLEAN] :
       refresh' = [state |-> "answered", models |-> answer]
  /\ UNCHANGED <<disk, kept, scan, swarm, browser, chosen, tasks, download, asked>>

\* Mutation of DrainSwarm: the rows of an open picker stay.
DrainSwarmRowsStay ==
  /\ refresh.state = "answered"
  /\ swarm' = refresh.models
  /\ refresh' = Quiet
  /\ UNCHANGED <<disk, kept, scan, browser, chosen, tasks, download, asked>>

\* drain_swarm: new rows if the picker is open, with a new selection.
DrainSwarm ==
  /\ refresh.state = "answered"
  /\ swarm' = refresh.models
  /\ browser' = IF InBrowser THEN Shown(build_rows(scan, swarm')) ELSE browser
  /\ refresh' = Quiet
  /\ UNCHANGED <<disk, kept, scan, chosen, tasks, download, asked>>

\* Up and down go round the rows that can be run or contributed.
Selectable == {i \in DOMAIN browser.rows : browser.rows[i].enabled \/ browser.rows[i].contribute}

Move ==
  /\ InBrowser
  /\ \E i \in Selectable \ {browser.sel} : browser' = [browser EXCEPT !.sel = i]
  /\ UNCHANGED <<disk, kept, scan, swarm, refresh, chosen, tasks, download, asked>>

CloseBrowser ==
  /\ InBrowser
  /\ browser' = Chat
  /\ UNCHANGED <<disk, kept, scan, swarm, refresh, chosen, tasks, download, asked>>

\* Enter on a row of a local model.
CommitLocal ==
  /\ InBrowser /\ Current.kind = "local"
  /\ chosen' = [mode |-> "local", model |-> Current.model]
  /\ browser' = Chat
  /\ UNCHANGED <<disk, kept, scan, swarm, refresh, tasks, download, asked>>

\* Enter on a row of a swarm model, which is looked up again.  A chain of its
\* providers may not come together: none with a forward address in a range.
CommitSwarm ==
  /\ InBrowser /\ Current.kind = "swarm" /\ Current.enabled
  /\ \/ Current.model \in DOMAIN swarm
          /\ chosen' = [mode |-> "network", model |-> Current.model]
     \/ UNCHANGED chosen
  /\ browser' = Chat
  /\ UNCHANGED <<disk, kept, scan, swarm, refresh, tasks, download, asked>>

\* Enter on a row of the catalog: start_install refuses a second download.
StartInstall ==
  /\ InBrowser /\ Current.kind = "hub" /\ Current.enabled
  /\ IF download # 0 THEN UNCHANGED <<tasks, download>>
     ELSE /\ Len(tasks) < MaxInstalls
          /\ tasks' = Append(tasks, [model |-> Current.model, step |-> "tokenizer"])
          /\ download' = Len(tasks')
  /\ browser' = Chat
  /\ UNCHANGED <<disk, kept, scan, swarm, refresh, chosen, asked>>

\* `c` on a row: a split of a cached model or a pull from the swarm starts, and
\* may in time write the model's kept_ranges.json.
Contribute ==
  /\ InBrowser /\ Current.contribute
  /\ Current.kind = "hub" => Current.model \in scan.usable
  /\ kept' \in {kept, kept \cup {Current.model}}
  /\ browser' = Chat
  /\ UNCHANGED <<disk, scan, swarm, refresh, chosen, tasks, download, asked>>

\* Mutation of FileArrives: the weights first, as the comment of install_entry says.
FileArrivesWeightsFirst(i) ==
  LET m == tasks[i].model IN
  /\ tasks[i].step \in {"tokenizer", "gguf"}
  /\ IF tasks[i].step = "tokenizer"
     THEN disk' = [disk EXCEPT ![m].gguf = TRUE] /\ tasks' = [tasks EXCEPT ![i].step = "gguf"]
     ELSE disk' = [disk EXCEPT ![m].tok = TRUE] /\ tasks' = [tasks EXCEPT ![i].step = "done"]
  /\ UNCHANGED <<kept, scan, swarm, refresh, browser, chosen, download, asked>>

\* A file of a download is complete and renamed into place.
FileArrives(i) ==
  LET m == tasks[i].model IN
  /\ tasks[i].step \in {"tokenizer", "gguf"}
  /\ IF tasks[i].step = "tokenizer"
     THEN disk' = [disk EXCEPT ![m].tok = TRUE] /\ tasks' = [tasks EXCEPT ![i].step = "gguf"]
     ELSE disk' = [disk EXCEPT ![m].gguf = TRUE] /\ tasks' = [tasks EXCEPT ![i].step = "done"]
  /\ UNCHANGED <<kept, scan, swarm, refresh, browser, chosen, download, asked>>

DownloadFails(i) ==
  /\ tasks[i].step \in {"tokenizer", "gguf"}
  /\ tasks' = [tasks EXCEPT ![i].step = "error"]
  /\ UNCHANGED <<disk, kept, scan, swarm, refresh, browser, chosen, download, asked>>

\* Mutation of DrainDownload: local_scan is not renewed.
DrainDownloadUnscanned ==
  /\ download # 0 /\ tasks[download].step \in {"done", "error"}
  /\ chosen' = IF tasks[download].step = "done"
               THEN [mode |-> "local", model |-> tasks[download].model] ELSE chosen
  /\ download' = 0
  /\ UNCHANGED <<disk, kept, scan, swarm, refresh, browser, tasks, asked>>

\* drain_download: the model that arrived is listed and chosen; the rows of an
\* open picker stay.
DrainDownload ==
  /\ download # 0 /\ tasks[download].step \in {"done", "error"}
  /\ IF tasks[download].step = "done"
     THEN /\ scan' = Scanned
          /\ chosen' = [mode |-> "local", model |-> tasks[download].model]
     ELSE UNCHANGED <<scan, chosen>>
  /\ download' = 0
  /\ UNCHANGED <<disk, kept, swarm, refresh, browser, tasks, asked>>

\* The window is closed, or killed, and opened again: its tasks are gone.
Restart ==
  /\ tasks' = [i \in DOMAIN tasks |->
                 IF tasks[i].step = "done" THEN tasks[i] ELSE [tasks[i] EXCEPT !.step = "error"]]
  /\ scan' = Scanned
  /\ swarm' = Quiet.models /\ refresh' = Quiet
  /\ browser' = Chat /\ chosen' = NoModel /\ download' = 0
  /\ UNCHANGED <<disk, kept, asked>>

PickerNext ==
  \/ OpenBrowser \/ RefreshAnswers \/ DrainSwarm \/ Move \/ CloseBrowser
  \/ CommitLocal \/ CommitSwarm \/ StartInstall \/ Contribute
  \/ \E i \in DOMAIN tasks : FileArrives(i) \/ DownloadFails(i)
  \/ DrainDownload \/ Restart

PickerSpec == PickerInit /\ [][PickerNext]_picker_vars

-----------------------------------------------------------------------------
(* Properties.                                                               *)

\* "swarm cache lost this model" cannot be said: a swarm row on the screen is
\* one of a model in the cache, however refreshes come in between (commit_browser,
\* drain_swarm).
SwarmRowsKnown ==
  /\ PickerTypeOK
  /\ \A i \in DOMAIN browser.rows :
       browser.rows[i].kind = "swarm" =>
         /\ browser.rows[i].model \in DOMAIN swarm
         /\ browser.rows[i].enabled = swarm[browser.rows[i].model]

\* No catalog model drops out of the picker: wherever a download failed or died,
\* the next look shows a row to run or to install it (install_entry's order,
\* build_rows).
NothingVanishes ==
  \A m \in Catalog : \E r \in Range(build_rows(Scanned, swarm)) : r.model = m

\* Nothing that is complete on disk stays unlisted once its download has been
\* reported, and nothing is chosen to run locally that is not there
\* (drain_download, commit_browser).
InstalledIsListed ==
  /\ \A m \in Names :
       Usable(m) => m \in scan.usable \/ (download # 0 /\ tasks[download].model = m)
  /\ chosen.mode = "local" => Usable(chosen.model)
=============================================================================
