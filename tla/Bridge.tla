--------------------------------- MODULE Bridge ---------------------------------
(***************************************************************************)
(* Managed runs in the browser.  ComfyUI's page carries a plugin whose     *)
(* bridge (bridge-runtime.js) holds an iframe with Studio's panel          *)
(* (ManagedPanelPage of App.tsx); the two talk by postMessage.             *)
(*                                                                         *)
(* An iframe that is put into the page again loads a new document in a new *)
(* window, so documents are numbered.  Messages of one window to another   *)
(* arrive in order and once; the load event of a document is not ordered   *)
(* with the messages its scripts post.  A run view is abstracted to the    *)
(* number of changes (news) the list of runs has gone through.             *)
(*                                                                         *)
(* Left out: bridge.error and the notices both pages show; the checks of   *)
(* origin, nonce, shape and replay that a message of the other page's own  *)
(* code passes; a revision that the user sends to the canvas, and what the *)
(* canvas does with a graph; a frame whose document navigates or reloads.  *)
(***************************************************************************)
EXTENDS Integers, Sequences

CONSTANTS
  MaxDocs,    \* bound: documents of the panel
  MaxClicks,  \* bound: clicks on Managed Run
  MaxNews,    \* bound: changes of the list of runs
  MaxSignOuts \* bound

ASSUME BridgeAssumption ==
  /\ MaxDocs \in Nat \ {0} /\ MaxClicks \in Nat
  /\ MaxNews \in Nat /\ MaxSignOuts \in Nat

VARIABLES
  active,    \* the bridge is not destroyed
  shown,     \* the sidebar tab is open
  docs,      \* documents so far
  frame,     \* the one in the iframe; 0 while the iframe is out of the page
  connected, \* 0, or the document whose panel.ready set the flag
  status,    \* latestStatus and its sender
  clicks,    \* by click: how far its export is
  loaded,    \* by document: its load event has fired
  panel,     \* by document: the page in it
  toComfy,   \* by document: messages it posted, undelivered
  toPanel,   \* by document: messages posted to it, undelivered
  token,     \* Studio's session storage holds a token
  signOuts,
  news       \* changes of the list of runs at the API

bridge == <<active, shown, docs, frame, connected, status, loaded>>
vars == <<bridge, clicks, panel, toComfy, toPanel, token, signOuts, news>>

Doc == 1..MaxDocs
Click == 1..MaxClicks

NoStatus == [doc |-> 0, news |-> 0]
NotLoaded == -1

Panel ==
  [ phase    : {"none", "loading", "gate", "mounted", "gone"},
    ready    : BOOLEAN,               \* bridgeReady
    news     : NotLoaded..MaxNews,    \* the runs it has loaded
    told     : 0..MaxNews,            \* statusSent
    template : BOOLEAN,               \* defaultLoadSent
    handled  : SUBSET Click ]         \* handledExports

(* A page without the panel mounted, and one that just mounted it.          *)
Page(phase) ==
  [ phase |-> phase, ready |-> FALSE, news |-> NotLoaded,
    told |-> 0, template |-> FALSE, handled |-> {} ]

Ready == [type |-> "panel.ready", news |-> 0]
Template == [type |-> "workflow.load", news |-> 0]
RunStatus(n) == [type |-> "run.status", news |-> n]
Context == [type |-> "comfy.context", click |-> 0]
Exported(c) == [type |-> "workflow.exported", click |-> c]

ComfyMessage ==
  [type : {"panel.ready", "workflow.load", "run.status"}, news : 0..MaxNews]
PanelMessage ==
  [type : {"comfy.context"}, click : {0}] \cup
  [type : {"workflow.exported"}, click : Click]

(* "dropped": posted to no window; "unheard": nobody listened in the window. *)
Outcome ==
  { "none", "exporting", "refused", "dropped", "sent", "unheard",
    "posting", "failed", "run" }

TypeOK ==
  /\ active \in BOOLEAN /\ shown \in BOOLEAN /\ token \in BOOLEAN
  /\ docs \in Doc /\ frame \in 0..docs /\ connected \in 0..docs
  /\ status \in [doc : 0..docs, news : 0..MaxNews]
  /\ clicks \in [Click -> Outcome]
  /\ loaded \in [Doc -> BOOLEAN]
  /\ panel \in [Doc -> Panel]
  /\ toComfy \in [Doc -> Seq(ComfyMessage)]
  /\ toPanel \in [Doc -> Seq(PanelMessage)]
  /\ signOuts \in 0..MaxSignOuts /\ news \in 0..MaxNews

(* createVideoOpsBridge appends the hidden iframe: the first document.       *)
Init ==
  /\ active = TRUE /\ shown = FALSE
  /\ docs = 1 /\ frame = 1
  /\ connected = 0 /\ status = NoStatus
  /\ clicks = [c \in Click |-> "none"]
  /\ loaded = [d \in Doc |-> FALSE]
  /\ panel = [d \in Doc |-> Page(IF d = 1 THEN "loading" ELSE "none")]
  /\ toComfy = [d \in Doc |-> <<>>]
  /\ toPanel = [d \in Doc |-> <<>>]
  /\ token \in BOOLEAN /\ signOuts = 0
  /\ news = 0

Gone(p) == IF frame = 0 THEN p ELSE [p EXCEPT ![frame] = Page("gone")]

-----------------------------------------------------------------------------
(* ComfyUI's page.                                                           *)

(* The tab opens: attach puts the iframe into its container, which loads it  *)
(* anew wherever it was before.                                              *)
Attach ==
  /\ active /\ ~shown /\ docs < MaxDocs
  /\ shown' = TRUE
  /\ docs' = docs + 1 /\ frame' = docs + 1
  /\ panel' = [Gone(panel) EXCEPT ![docs + 1] = Page("loading")]
  /\ UNCHANGED <<active, connected, status, loaded, clicks, toComfy, toPanel,
                 token, signOuts, news>>

(* The user turns to another tab: detach takes the iframe out of the page.   *)
Detach ==
  /\ active /\ shown
  /\ shown' = FALSE /\ frame' = 0
  /\ panel' = Gone(panel)
  /\ UNCHANGED <<active, docs, connected, status, loaded, clicks, toComfy,
                 toPanel, token, signOuts, news>>

(* pagehide: destroy.                                                        *)
Destroy ==
  /\ active
  /\ active' = FALSE /\ frame' = 0
  /\ panel' = Gone(panel)
  /\ UNCHANGED <<shown, docs, connected, status, loaded, clicks, toComfy,
                 toPanel, token, signOuts, news>>

(* handleLoad *)
LoadEvent(d) ==
  /\ active /\ d = frame /\ ~loaded[d]
  /\ loaded' = [loaded EXCEPT ![d] = TRUE]
  /\ connected' = 0 /\ status' = NoStatus
  /\ UNCHANGED <<active, shown, docs, frame, clicks, panel, toComfy, toPanel,
                 token, signOuts, news>>

(* postToPanel: FALSE without a window to post to.                           *)
CanPost == active /\ frame # 0
PostToPanel(m) == toPanel' = [toPanel EXCEPT ![frame] = Append(@, m)]

FromAnyWindow(d) == active
FromFirstWindow(d) == active /\ d = frame /\ d = 1

(* handleMessage heeds the window that is now in the iframe.                 *)
FromFrame(d) == active /\ d = frame

SendContext == PostToPanel(Context)

TakeFirstReady(d) ==
  /\ connected' = d /\ UNCHANGED status
  /\ IF connected = 0 THEN SendContext ELSE UNCHANGED toPanel
TakeReady(d) == connected' = d /\ SendContext /\ UNCHANGED status
TakeStatus(d, m) ==
  status' = [doc |-> d, news |-> m.news] /\ UNCHANGED <<connected, toPanel>>

HandleMessage(d) ==
  /\ toComfy[d] # <<>>
  /\ toComfy' = [toComfy EXCEPT ![d] = Tail(@)]
  /\ LET m == Head(toComfy[d])
     IN  \/ FromFrame(d) /\ m.type = "panel.ready" /\ TakeReady(d)
         \/ FromFrame(d) /\ m.type = "run.status" /\ TakeStatus(d, m)
         \/ /\ FromFrame(d) => m.type = "workflow.load"
            /\ UNCHANGED <<connected, status, toPanel>>
  /\ UNCHANGED <<active, shown, docs, frame, loaded, clicks, panel, token,
                 signOuts, news>>

(* exportCurrentWorkflow up to the await of graphToPrompt, and after it.     *)
ClickRun(c) ==
  /\ active /\ clicks[c] = "none" /\ \A b \in 1..c - 1 : clicks[b] # "none"
  /\ clicks' = [clicks EXCEPT ![c] = IF connected # 0 THEN "exporting" ELSE "refused"]
  /\ UNCHANGED <<bridge, panel, toComfy, toPanel, token, signOuts, news>>

FinishExport(c) ==
  /\ clicks[c] = "exporting"
  /\ \/ /\ clicks' = [clicks EXCEPT ![c] = "refused"]    \* GRAPH_EXPORT_*
        /\ UNCHANGED toPanel
     \/ /\ CanPost /\ PostToPanel(Exported(c))
        /\ clicks' = [clicks EXCEPT ![c] = "sent"]
     \/ /\ ~CanPost /\ UNCHANGED toPanel
        /\ clicks' = [clicks EXCEPT ![c] = "dropped"]
  /\ UNCHANGED <<bridge, panel, toComfy, token, signOuts, news>>

-----------------------------------------------------------------------------
(* The panel's page.                                                         *)

(* ManagedPanelPage mounts: it listens and announces itself.                 *)
Mount(d) ==
  /\ panel' = [panel EXCEPT ![d] = Page("mounted")]
  /\ toComfy' = [toComfy EXCEPT ![d] = Append(@, Ready)]

(* App renders the panel, or the token gate if there is no token.            *)
Render(d) ==
  /\ panel[d].phase = "loading"
  /\ \/ token /\ Mount(d)
     \/ ~token /\ panel' = [panel EXCEPT ![d] = Page("gate")] /\ UNCHANGED toComfy
  /\ UNCHANGED <<bridge, clicks, toPanel, token, signOuts, news>>

SignIn(d) ==
  /\ panel[d].phase = "gate"
  /\ token' = TRUE /\ Mount(d)
  /\ UNCHANGED <<bridge, clicks, toPanel, signOuts, news>>

SignOut(d) ==
  /\ panel[d].phase = "mounted" /\ signOuts < MaxSignOuts
  /\ token' = FALSE /\ signOuts' = signOuts + 1
  /\ panel' = [panel EXCEPT ![d] = Page("gate")]
  /\ UNCHANGED <<bridge, clicks, toComfy, toPanel, news>>

HearOnceReady(d, m) ==
  \/ /\ m.type = "comfy.context"
     /\ panel' = [panel EXCEPT ![d].ready = TRUE]
     /\ UNCHANGED clicks
  \/ /\ m.type = "workflow.exported" /\ panel[d].ready
     /\ panel' = [panel EXCEPT ![d].handled = @ \cup {m.click}]
     /\ clicks' = [clicks EXCEPT ![m.click] = "posting"]
  \/ /\ m.type = "workflow.exported" /\ ~panel[d].ready
     /\ UNCHANGED <<panel, clicks>>

(* The panel's handleMessage; without the panel nobody listens.              *)
Hear(d, m) ==
  \/ /\ m.type = "comfy.context"
     /\ panel' = [panel EXCEPT ![d].ready = TRUE]
     /\ UNCHANGED clicks
  \/ /\ m.type = "workflow.exported" /\ m.click \notin panel[d].handled
     /\ panel' = [panel EXCEPT ![d].handled = @ \cup {m.click}]
     /\ clicks' = [clicks EXCEPT ![m.click] = "posting"]
  \/ /\ m.type = "workflow.exported" /\ m.click \in panel[d].handled
     /\ UNCHANGED <<panel, clicks>>

Miss(m) ==
  /\ clicks' = IF m.type = "workflow.exported"
                 THEN [clicks EXCEPT ![m.click] = "unheard"] ELSE clicks
  /\ UNCHANGED panel

HandleParentMessage(d) ==
  /\ toPanel[d] # <<>>
  /\ toPanel' = [toPanel EXCEPT ![d] = Tail(@)]
  /\ IF panel[d].phase = "mounted" THEN Hear(d, Head(toPanel[d]))
                                   ELSE Miss(Head(toPanel[d]))
  /\ UNCHANGED <<bridge, toComfy, token, signOuts, news>>

MoreNews == news' = IF news < MaxNews THEN news + 1 ELSE news

(* The mutation of createRun: POST /v1/runs, once, for a graph the profile   *)
(* can resolve.                                                              *)
CreateRun(c) ==
  /\ clicks[c] = "posting"
  /\ \/ clicks' = [clicks EXCEPT ![c] = "run"] /\ MoreNews
     \/ clicks' = [clicks EXCEPT ![c] = "failed"] /\ UNCHANGED news
  /\ UNCHANGED <<bridge, panel, toComfy, toPanel, token, signOuts>>

(* A run makes progress, or another client creates one.                      *)
Progress ==
  /\ news < MaxNews /\ news' = news + 1
  /\ UNCHANGED <<bridge, clicks, panel, toComfy, toPanel, token, signOuts>>

(* RunView polls and hands the snapshot up.                                  *)
Poll(d) ==
  /\ panel[d].phase = "mounted" /\ panel[d].news # news
  /\ panel' = [panel EXCEPT ![d].news = news]
  /\ UNCHANGED <<bridge, clicks, toComfy, toPanel, token, signOuts, news>>

PostToComfy(d, m) == toComfy' = [toComfy EXCEPT ![d] = Append(@, m)]

(* The effects of the panel.  The first opens the template for a user        *)
(* without runs, once; the second reports a run that changed.                *)
RunsEmpty(p) == p.news <= 0
NoRunsYet(p) == p.news = 0

SendTemplate(d) ==
  /\ panel[d].phase = "mounted" /\ panel[d].ready
  /\ NoRunsYet(panel[d]) /\ ~panel[d].template
  /\ panel' = [panel EXCEPT ![d].template = TRUE]
  /\ PostToComfy(d, Template)
  /\ UNCHANGED <<bridge, clicks, toPanel, token, signOuts, news>>

Untold(p) == p.news > 0 /\ p.news # p.told

SendStatus(d) ==
  /\ panel[d].phase = "mounted" /\ panel[d].ready /\ Untold(panel[d])
  /\ panel' = [panel EXCEPT ![d].told = panel[d].news]
  /\ PostToComfy(d, RunStatus(panel[d].news))
  /\ UNCHANGED <<bridge, clicks, toPanel, token, signOuts, news>>

-----------------------------------------------------------------------------
Next ==
  \/ Attach \/ Detach \/ Destroy \/ Progress
  \/ \E d \in Doc :
       \/ LoadEvent(d) \/ HandleMessage(d) \/ HandleParentMessage(d)
       \/ Render(d) \/ SignIn(d) \/ SignOut(d)
       \/ Poll(d) \/ SendTemplate(d) \/ SendStatus(d)
  \/ \E c \in Click : ClickRun(c) \/ FinishExport(c) \/ CreateRun(c)

Spec == Init /\ [][Next]_vars

(* Both browsers' event loops go on: documents load and render, messages are *)
(* delivered, promises settle.  Users need do nothing.                       *)
Fairness ==
  /\ \A d \in Doc :
       /\ WF_vars(LoadEvent(d)) /\ WF_vars(Render(d))
       /\ WF_vars(HandleMessage(d)) /\ WF_vars(HandleParentMessage(d))
  /\ \A c \in Click : WF_vars(FinishExport(c)) /\ WF_vars(CreateRun(c))

FairSpec == Spec /\ Fairness

-----------------------------------------------------------------------------
Mounted(d) == panel[d].phase = "mounted"
Posted(d, type) == \E i \in DOMAIN toComfy[d] : toComfy[d][i].type = type

(* What the bridge says after the frame has loaded comes from the panel in   *)
(* the frame, not from one that a change of tabs took away (the source check *)
(* of handleMessage and the resets of handleLoad).                           *)
FeedIsOfThisFrame ==
  frame # 0 /\ loaded[frame] =>
    connected \in {0, frame} /\ status.doc \in {0, frame}

(* Once a run is shown, the template no longer replaces the canvas: none is  *)
(* on its way from the panel in the frame, and that panel will send none.    *)
NoTemplateOverRun ==
  status.doc # 0 /\ frame # 0 =>
    ~Posted(frame, "workflow.load") /\ panel[frame].news # 0

(* Documents to come are blank.                                              *)
FutureIsBlank ==
  \A d \in Doc : d > docs =>
    panel[d] = Page("none") /\ ~loaded[d] /\ toComfy[d] = <<>>

(* Whoever reports or shows a run learned of it from the API.                *)
NewsIsReal ==
  /\ status.doc # 0 => news > 0
  /\ \A d \in Doc : panel[d].news > 0 \/ Posted(d, "run.status") => news > 0

(* A panel that reported a run sends no template after it.                   *)
StatusComesLast ==
  \A d \in Doc : \A i \in DOMAIN toComfy[d] : toComfy[d][i].type = "run.status" =>
    /\ panel[d].news # 0
    /\ \A j \in DOMAIN toComfy[d] : j > i => toComfy[d][j].type # "workflow.load"

IInv ==
  /\ TypeOK /\ FutureIsBlank /\ FeedIsOfThisFrame
  /\ NewsIsReal /\ StatusComesLast /\ NoTemplateOverRun

(* A panel.ready that arrives after its document has loaded connects, unless *)
(* the frame is taken away.                                                  *)
ReadyAfterLoadConnects ==
  \A d \in Doc :
    (loaded[d] /\ d = frame /\ Posted(d, "panel.ready"))
      ~> (connected = d \/ d # frame)

(* A panel learns that it is in ComfyUI, whatever the order of load and      *)
(* handshake and whatever came before it.                                    *)
EveryPanelGetsContext ==
  \A d \in Doc : Mounted(d) ~> (panel[d].ready \/ ~Mounted(d))

(* An export on its way to a panel becomes the POST of a run, each of them,  *)
(* unless the panel goes.                                                    *)
HeardExportIsPosted ==
  \A d \in Doc, c \in Click :
    (Mounted(d) /\ \E i \in DOMAIN toPanel[d] : toPanel[d][i] = Exported(c))
      ~> (clicks[c] \in {"failed", "run"} \/ ~Mounted(d))

(* bridge-runtime.js:277 says of detach that "the panel re-runs its          *)
(* handshake and `panel.ready` restores `connected`".                        *)
ReadyRestoresConnected ==
  \A d \in Doc :
    (Mounted(d) /\ d = frame) ~> (connected = d \/ ~Mounted(d))
=============================================================================
