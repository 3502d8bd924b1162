----------------------------- MODULE Bridge_proofs ------------------------------
(***************************************************************************)
(* Proofs about Bridge, for any number of documents, clicks, changes of    *)
(* the runs and times the user signs out.                                  *)
(***************************************************************************)
EXTENDS Bridge, TLAPS

USE BridgeAssumption

LEMMA Snoc ==
  ASSUME NEW S, NEW q \in Seq(S), NEW m \in S
  PROVE  /\ Append(q, m) \in Seq(S)
         /\ \A i \in DOMAIN Append(q, m) :
              \/ i \in DOMAIN q /\ Append(q, m)[i] = q[i]
              \/ i = Len(q) + 1 /\ Append(q, m)[i] = m
         /\ \A i \in DOMAIN q : i \in DOMAIN Append(q, m) /\ i < Len(q) + 1
OBVIOUS

LEMMA Pop ==
  ASSUME NEW S, NEW q \in Seq(S), q # <<>>
  PROVE  /\ Tail(q) \in Seq(S) /\ Head(q) \in S
         /\ 1 \in DOMAIN q /\ Head(q) = q[1]
         /\ \A i \in DOMAIN Tail(q) :
              /\ i \in Nat /\ i + 1 \in DOMAIN q /\ i + 1 > 1
              /\ Tail(q)[i] = q[i + 1]
<1>1. Len(q) \in Nat \ {0} /\ DOMAIN q = 1..Len(q)
  OBVIOUS
<1>2. Tail(q) \in Seq(S) /\ Len(Tail(q)) = Len(q) - 1 /\ DOMAIN Tail(q) = 1..Len(q) - 1
  BY <1>1
<1>3. \A i \in 1..Len(q) - 1 : Tail(q)[i] = q[i + 1]
  BY <1>1
<1> QED  BY <1>1, <1>2, <1>3

LEMMA Messages ==
  /\ Ready \in ComfyMessage /\ Ready.type = "panel.ready"
  /\ Template \in ComfyMessage /\ Template.type = "workflow.load"
  /\ \A n \in 0..MaxNews :
       /\ RunStatus(n) \in ComfyMessage
       /\ RunStatus(n).type = "run.status" /\ RunStatus(n).news = n
  /\ Context \in PanelMessage
  /\ \A c \in Click : Exported(c) \in PanelMessage
BY DEF Ready, Template, RunStatus, Context, Exported, ComfyMessage, PanelMessage, Click

LEMMA Pages ==
  \A phase \in {"none", "loading", "gate", "mounted", "gone"} :
    Page(phase) \in Panel /\ Page(phase).news = -1 /\ Page(phase).phase = phase
BY DEF Page, Panel, NotLoaded

LEMMA PanelChanges ==
  ASSUME NEW p \in Panel
  PROVE  /\ [p EXCEPT !.ready = TRUE] \in Panel
         /\ [p EXCEPT !.template = TRUE] \in Panel
         /\ \A n \in 0..MaxNews : /\ [p EXCEPT !.news = n] \in Panel
                                /\ [p EXCEPT !.told = n] \in Panel
         /\ \A c \in Click : [p EXCEPT !.handled = @ \cup {c}] \in Panel
<1>1. [p EXCEPT !.ready = TRUE] \in Panel /\ [p EXCEPT !.template = TRUE] \in Panel
  BY DEF Panel
<1>2. ASSUME NEW n \in 0..MaxNews
      PROVE  [p EXCEPT !.news = n] \in Panel /\ [p EXCEPT !.told = n] \in Panel
  <2>1. n \in NotLoaded..MaxNews
    BY DEF NotLoaded
  <2> QED  BY <2>1 DEF Panel
<1>3. ASSUME NEW c \in Click PROVE [p EXCEPT !.handled = @ \cup {c}] \in Panel
  <2>1. p.handled \cup {c} \in SUBSET Click
    BY DEF Panel
  <2> QED  BY <2>1 DEF Panel
<1> QED  BY <1>1, <1>2, <1>3

LEMMA InitIInv == Init => IInv
<1> SUFFICES ASSUME Init PROVE IInv
  OBVIOUS
<1>1. TypeOK
  <2>1. Doc # {} /\ 1 \in Doc
    BY DEF Doc
  <2>2. panel \in [Doc -> Panel]
    BY Pages DEF Init
  <2>3. toComfy \in [Doc -> Seq(ComfyMessage)] /\ toPanel \in [Doc -> Seq(PanelMessage)]
    BY DEF Init
  <2>4. status \in [doc : 0..docs, news : 0..MaxNews]
    BY DEF Init, NoStatus
  <2>5. clicks \in [Click -> Outcome] /\ loaded \in [Doc -> BOOLEAN]
    BY DEF Init, Outcome
  <2>6. /\ active \in BOOLEAN /\ shown \in BOOLEAN /\ token \in BOOLEAN
        /\ docs \in Doc
    BY <2>1 DEF Init
  <2>7. frame \in 0..docs /\ connected \in 0..docs /\ signOuts \in 0..MaxSignOuts
        /\ news \in 0..MaxNews
    BY DEF Init
  <2> QED  BY <2>2, <2>3, <2>4, <2>5, <2>6, <2>7 DEF TypeOK
<1>2. /\ \A d \in Doc : panel[d].news = -1 /\ toComfy[d] = <<>> /\ ~loaded[d]
      /\ \A d \in Doc : DOMAIN toComfy[d] = {}
  BY Pages DEF Init
<1>3. FutureIsBlank
  BY <1>2 DEF Init, FutureIsBlank
<1>4. FeedIsOfThisFrame
  BY DEF Init, FeedIsOfThisFrame, NoStatus
<1>5. NewsIsReal /\ StatusComesLast /\ NoTemplateOverRun
  BY <1>2 DEF Init, NewsIsReal, StatusComesLast, NoTemplateOverRun, NoStatus, Posted
<1> QED  BY <1>1, <1>3, <1>4, <1>5 DEF IInv


(* Types first, action by action.                                           *)
LEMMA TypeNext == TypeOK /\ Next => TypeOK'
<1> SUFFICES ASSUME TypeOK, Next PROVE TypeOK'
  OBVIOUS
<1> USE DEF bridge
<1>1. \A p \in [Doc -> Panel] : Gone(p) \in [Doc -> Panel]
  BY Pages DEF Gone, TypeOK, Doc
<1>2. CASE Attach
  <2>1. docs + 1 \in Doc
    BY <1>2 DEF Attach, TypeOK, Doc
  <2>2. panel' \in [Doc -> Panel]
    BY <1>1, <1>2, Pages DEF Attach, TypeOK
  <2> QED  BY <1>2, <2>1, <2>2 DEF Attach, TypeOK, Doc
<1>3. CASE Detach \/ Destroy
  <2>1. panel' \in [Doc -> Panel]
    BY <1>1, <1>3 DEF Detach, Destroy, TypeOK
  <2>2. active' \in BOOLEAN /\ shown' \in BOOLEAN /\ token' \in BOOLEAN
    BY <1>3 DEF Detach, Destroy, TypeOK
  <2>3. frame' = 0 /\ 0 \in 0..docs
    BY <1>3 DEF Detach, Destroy, TypeOK, Doc
  <2> QED  BY <1>3, <2>1, <2>2, <2>3 DEF Detach, Destroy, TypeOK
<1>4. ASSUME NEW d \in Doc, LoadEvent(d) PROVE TypeOK'
  BY <1>4 DEF LoadEvent, TypeOK, NoStatus, Doc
<1>5. ASSUME NEW d \in Doc, HandleMessage(d) PROVE TypeOK'
  <2>1. Tail(toComfy[d]) \in Seq(ComfyMessage) /\ Head(toComfy[d]) \in ComfyMessage
    BY <1>5, Pop DEF HandleMessage, TypeOK
  <2>2. toComfy' \in [Doc -> Seq(ComfyMessage)]
    BY <1>5, <2>1 DEF HandleMessage, TypeOK
  <2>3. CASE FromFrame(d) /\ TakeReady(d)
    <3>1. d \in 0..docs /\ frame \in Doc
      BY <2>3 DEF FromFrame, TypeOK, Doc
    <3>2. toPanel' \in [Doc -> Seq(PanelMessage)]
      BY <2>3, <3>1, Messages, Snoc DEF TakeReady, SendContext, PostToPanel, TypeOK
    <3> QED  BY <1>5, <2>2, <2>3, <3>1, <3>2 DEF HandleMessage, TakeReady, TypeOK
  <2>4. CASE FromFrame(d) /\ TakeStatus(d, Head(toComfy[d]))
    <3>1. d \in 0..docs /\ Head(toComfy[d]).news \in 0..MaxNews
      BY <2>1, <2>4 DEF FromFrame, TypeOK, Doc, ComfyMessage
    <3> QED  BY <1>5, <2>2, <2>4, <3>1 DEF HandleMessage, TakeStatus, TypeOK
  <2>5. CASE UNCHANGED <<connected, status, toPanel>>
    BY <1>5, <2>2, <2>5 DEF HandleMessage, TypeOK
  <2> QED  BY <1>5, <2>3, <2>4, <2>5 DEF HandleMessage
<1>6. ASSUME NEW c \in Click, ClickRun(c) \/ FinishExport(c) \/ CreateRun(c)
      PROVE  TypeOK'
  <2>1. clicks' \in [Click -> Outcome]
    BY <1>6 DEF ClickRun, FinishExport, CreateRun, TypeOK, Outcome
  <2>2. toPanel' \in [Doc -> Seq(PanelMessage)]
    <3>1. CASE CanPost /\ PostToPanel(Exported(c))
      <4>1. frame \in Doc /\ toPanel[frame] \in Seq(PanelMessage)
        BY <3>1 DEF CanPost, TypeOK, Doc
      <4>2. Append(toPanel[frame], Exported(c)) \in Seq(PanelMessage)
        BY <4>1, Messages, Snoc
      <4> QED  BY <3>1, <4>1, <4>2 DEF PostToPanel, TypeOK
    <3> QED  BY <1>6, <3>1 DEF ClickRun, FinishExport, CreateRun, TypeOK
  <2>3. news' \in 0..MaxNews
    BY <1>6 DEF ClickRun, FinishExport, CreateRun, MoreNews, TypeOK
  <2> QED  BY <1>6, <2>1, <2>2, <2>3 DEF ClickRun, FinishExport, CreateRun, TypeOK
<1>7. ASSUME NEW d \in Doc, HandleParentMessage(d) PROVE TypeOK'
  <2>1. /\ Tail(toPanel[d]) \in Seq(PanelMessage)
        /\ Head(toPanel[d]) \in PanelMessage
    BY <1>7, Pop DEF HandleParentMessage, TypeOK
  <2> DEFINE m == Head(toPanel[d])
  <2>2. toPanel' \in [Doc -> Seq(PanelMessage)]
    BY <1>7, <2>1 DEF HandleParentMessage, TypeOK
  <2>3. panel[d] \in Panel
    BY DEF TypeOK
  <2>4. CASE Mounted(d) /\ Hear(d, m)
    <3>1. m.type = "workflow.exported" => m.click \in Click
      BY <2>1 DEF PanelMessage
    <3>2. panel' \in [Doc -> Panel]
      <4>1. CASE panel' = [panel EXCEPT ![d].ready = TRUE]
        BY <2>3, <4>1, PanelChanges DEF TypeOK
      <4>2. CASE /\ m.click \in Click
                 /\ panel' = [panel EXCEPT ![d].handled = @ \cup {m.click}]
        BY <2>3, <4>2, PanelChanges DEF TypeOK
      <4> QED  BY <2>4, <3>1, <4>1, <4>2 DEF Hear, TypeOK
    <3>3. clicks' \in [Click -> Outcome]
      BY <2>4, <3>1 DEF Hear, TypeOK, Outcome
    <3> QED  BY <1>7, <2>2, <3>2, <3>3 DEF HandleParentMessage, TypeOK
  <2>5. CASE Miss(m)
    <3>1. clicks' \in [Click -> Outcome]
      BY <2>1, <2>5 DEF Miss, TypeOK, Outcome, PanelMessage
    <3> QED  BY <1>7, <2>2, <2>5, <3>1 DEF HandleParentMessage, Miss, TypeOK
  <2> QED  BY <1>7, <2>4, <2>5 DEF HandleParentMessage, Mounted
<1>8. ASSUME NEW d \in Doc, NEW phase \in {"gate", "mounted"}
      PROVE  [panel EXCEPT ![d] = Page(phase)] \in [Doc -> Panel]
  BY Pages DEF TypeOK
<1>9. ASSUME NEW d \in Doc, NEW m \in ComfyMessage, PostToComfy(d, m)
      PROVE  toComfy' \in [Doc -> Seq(ComfyMessage)]
  <2>1. Append(toComfy[d], m) \in Seq(ComfyMessage)
    BY Snoc DEF TypeOK
  <2> QED  BY <1>9, <2>1 DEF PostToComfy, TypeOK
<1>10. ASSUME NEW d \in Doc, Render(d) \/ SignIn(d) \/ SignOut(d) PROVE TypeOK'
  <2>1. panel' \in [Doc -> Panel]
    BY <1>8, <1>10 DEF Render, SignIn, SignOut, Mount
  <2>2. toComfy' \in [Doc -> Seq(ComfyMessage)]
    BY <1>9, <1>10, Messages DEF Render, SignIn, SignOut, Mount, PostToComfy, TypeOK
  <2>3. token' \in BOOLEAN
    BY <1>10 DEF Render, SignIn, SignOut, TypeOK
  <2>4. signOuts' \in 0..MaxSignOuts
    BY <1>10 DEF Render, SignIn, SignOut, TypeOK
  <2> QED  BY <1>10, <2>1, <2>2, <2>3, <2>4 DEF Render, SignIn, SignOut, TypeOK
<1>11. ASSUME NEW d \in Doc, Poll(d) PROVE TypeOK'
  <2>1. panel' \in [Doc -> Panel]
    BY <1>11, PanelChanges DEF Poll, TypeOK
  <2> QED  BY <1>11, <2>1 DEF Poll, TypeOK
<1>12. ASSUME NEW d \in Doc, SendTemplate(d) \/ SendStatus(d) PROVE TypeOK'
  <2>1. panel[d] \in Panel
    BY DEF TypeOK
  <2>2. SendStatus(d) => panel[d].news \in 0..MaxNews
    BY <2>1 DEF SendStatus, Untold, Panel, NotLoaded
  <2>3. panel' \in [Doc -> Panel]
    <3>1. CASE panel' = [panel EXCEPT ![d].template = TRUE]
      BY <2>1, <3>1, PanelChanges DEF TypeOK
    <3>2. CASE SendStatus(d) /\ panel' = [panel EXCEPT ![d].told = panel[d].news]
      BY <2>1, <2>2, <3>2, PanelChanges DEF TypeOK
    <3> QED  BY <1>12, <3>1, <3>2 DEF SendTemplate, SendStatus
  <2>4. toComfy' \in [Doc -> Seq(ComfyMessage)]
    BY <1>9, <1>12, <2>2, Messages DEF SendTemplate, SendStatus
  <2> QED  BY <1>12, <2>3, <2>4 DEF SendTemplate, SendStatus, TypeOK
<1>13. CASE Progress
  BY <1>13 DEF Progress, TypeOK
<1> QED
  BY <1>2, <1>3, <1>4, <1>5, <1>6, <1>7, <1>10, <1>11, <1>12, <1>13 DEF Next

(* What a page and a queue look like after a step, as far as the invariants *)
(* go.                                                                      *)
LEMMA PanelNews ==
  ASSUME TypeOK, Next, NEW d \in Doc
  PROVE  /\ panel[d].news \in Int /\ panel'[d].news \in Int
         /\ panel'[d].news \in {-1, panel[d].news, news}
         /\ news \in Nat /\ news' \in Nat /\ news' >= news
<1>1. TypeOK'
  BY TypeNext
<1>2. panel[d].news \in Int /\ panel'[d].news \in Int
  <2>1. panel[d] \in Panel /\ panel'[d] \in Panel
    BY <1>1 DEF TypeOK
  <2>2. \A p \in Panel : p.news \in NotLoaded..MaxNews
    BY DEF Panel
  <2> QED  BY <2>1, <2>2 DEF NotLoaded
<1>3. news \in Nat /\ news' \in Nat
  BY <1>1 DEF TypeOK
<1>4. news' >= news
  BY <1>3 DEF Next, bridge, Attach, Detach, Destroy, Progress, LoadEvent, HandleMessage,
     HandleParentMessage, Render, SignIn, SignOut, Poll, SendTemplate, SendStatus,
     ClickRun, FinishExport, CreateRun, MoreNews
<1>5. \A e \in Doc, phase \in {"loading", "gate", "mounted", "gone"} :
        [panel EXCEPT ![e] = Page(phase)][d].news \in {-1, panel[d].news}
  BY Pages DEF TypeOK
<1>6. Gone(panel)[d].news \in {-1, panel[d].news} /\ Gone(panel) \in [Doc -> Panel]
  BY Pages DEF Gone, TypeOK, Doc
<1>7. ASSUME Attach PROVE panel'[d].news \in {-1, panel[d].news}
  BY <1>6, <1>7, Pages DEF Attach, TypeOK
<1>8. ASSUME Detach \/ Destroy PROVE panel'[d].news \in {-1, panel[d].news}
  BY <1>6, <1>8 DEF Detach, Destroy
<1>9. ASSUME NEW e \in Doc, Render(e) \/ SignIn(e) \/ SignOut(e)
      PROVE  panel'[d].news \in {-1, panel[d].news}
  BY <1>5, <1>9 DEF Render, SignIn, SignOut, Mount
<1>10. ASSUME NEW e \in Doc, Poll(e) PROVE panel'[d].news \in {panel[d].news, news}
  BY <1>10 DEF Poll, TypeOK, Panel
<1>11. ASSUME NEW e \in Doc, HandleParentMessage(e) \/ SendTemplate(e) \/ SendStatus(e)
       PROVE  panel'[d].news = panel[d].news
  <2>1. panel \in [Doc -> Panel]
    BY DEF TypeOK
  <2>2. CASE \/ panel' = [panel EXCEPT ![e].ready = TRUE]
             \/ panel' = [panel EXCEPT ![e].template = TRUE]
             \/ panel' = [panel EXCEPT ![e].told = panel[e].news]
             \/ panel' = panel
    BY <2>1, <2>2 DEF Panel
  <2>3. ASSUME NEW c, panel' = [panel EXCEPT ![e].handled = @ \cup {c}]
        PROVE  panel'[d].news = panel[d].news
    BY <2>1, <2>3 DEF Panel
  <2> QED  BY <1>11, <2>2, <2>3 DEF HandleParentMessage, Hear, Miss, SendTemplate, SendStatus
<1>12. ASSUME UNCHANGED panel PROVE panel'[d].news = panel[d].news
  BY <1>12
<1>13. panel'[d].news \in {-1, panel[d].news, news}
  BY <1>7, <1>8, <1>9, <1>10, <1>11, <1>12
     DEF Next, Progress, LoadEvent, HandleMessage, ClickRun, FinishExport, CreateRun
<1> QED  BY <1>2, <1>3, <1>4, <1>13

LEMMA FutureNext == IInv /\ Next => FutureIsBlank'
<1> SUFFICES ASSUME IInv, Next PROVE FutureIsBlank'
  OBVIOUS
<1> USE DEF bridge
<1> SUFFICES ASSUME NEW d \in Doc, d > docs'
             PROVE  panel'[d] = Page("none") /\ ~loaded'[d] /\ toComfy'[d] = <<>>
  BY DEF FutureIsBlank
<1>1. docs \in Nat /\ docs' \in {docs, docs + 1} /\ d \in Nat /\ d > docs /\ frame <= docs
  <2>1. docs \in Nat /\ d \in Nat /\ frame \in 0..docs
    BY DEF IInv, TypeOK, Doc
  <2>2. docs' \in {docs, docs + 1}
    BY DEF Next, Attach, Detach, Destroy, Progress, LoadEvent, HandleMessage,
       HandleParentMessage, Render, SignIn, SignOut, Poll, SendTemplate, SendStatus,
       ClickRun, FinishExport, CreateRun
  <2> QED  BY <2>1, <2>2
<1>2. panel[d] = Page("none") /\ ~loaded[d] /\ toComfy[d] = <<>>
  BY <1>1 DEF IInv, FutureIsBlank
<1>3. panel[d].phase = "none" /\ d # frame
  BY <1>1, <1>2, Pages DEF IInv, TypeOK, Doc
<1>4. loaded'[d] = loaded[d]
  BY <1>3 DEF IInv, TypeOK, Next, Attach, Detach, Destroy, Progress, LoadEvent,
     HandleMessage, HandleParentMessage, Render, SignIn, SignOut, Poll, SendTemplate,
     SendStatus, ClickRun, FinishExport, CreateRun
<1>5. toComfy'[d] = toComfy[d]
  BY <1>2, <1>3 DEF IInv, TypeOK, Next, Attach, Detach, Destroy, Progress, LoadEvent,
     HandleMessage, HandleParentMessage, Render, SignIn, SignOut, Mount, Poll,
     SendTemplate, SendStatus, PostToComfy, ClickRun, FinishExport, CreateRun
<1>6. panel'[d] = panel[d]
  <2>1. Gone(panel)[d] = panel[d]
    BY <1>3 DEF Gone, IInv, TypeOK
  <2>2. CASE Attach
    BY <1>1, <2>1, <2>2 DEF Attach, Gone, IInv, TypeOK
  <2>3. CASE Detach \/ Destroy
    BY <2>1, <2>3 DEF Detach, Destroy
  <2>4. ASSUME NEW e \in Doc, HandleParentMessage(e) PROVE panel'[d] = panel[d]
    BY <1>3, <2>4 DEF HandleParentMessage, Hear, Miss, IInv, TypeOK
  <2>5. ASSUME NEW e \in Doc, Render(e) \/ SignIn(e) \/ SignOut(e) \/ Poll(e)
                                \/ SendTemplate(e) \/ SendStatus(e)
        PROVE  panel'[d] = panel[d]
    BY <1>3, <2>5 DEF Render, SignIn, SignOut, Mount, Poll, SendTemplate, SendStatus,
       IInv, TypeOK
  <2> QED
    BY <2>2, <2>3, <2>4, <2>5
       DEF Next, Progress, LoadEvent, HandleMessage, ClickRun, FinishExport, CreateRun
<1> QED  BY <1>2, <1>4, <1>5, <1>6

LEMMA FeedNext == IInv /\ Next => FeedIsOfThisFrame'
<1> SUFFICES ASSUME IInv, Next PROVE FeedIsOfThisFrame'
  OBVIOUS
<1> USE DEF bridge, FeedIsOfThisFrame
<1>1. CASE Attach
  <2>1. docs + 1 \in Doc /\ docs + 1 > docs
    BY <1>1 DEF Attach, IInv, TypeOK, Doc
  <2>2. ~loaded[docs + 1]
    BY <2>1 DEF IInv, FutureIsBlank
  <2> QED  BY <1>1, <2>2 DEF Attach
<1>2. CASE Detach \/ Destroy
  BY <1>2 DEF Detach, Destroy
<1>3. ASSUME NEW d \in Doc, LoadEvent(d) PROVE FeedIsOfThisFrame'
  BY <1>3 DEF LoadEvent, NoStatus
<1>4. ASSUME NEW d \in Doc, HandleMessage(d) PROVE FeedIsOfThisFrame'
  BY <1>4 DEF HandleMessage, FromFrame, TakeReady, TakeStatus, IInv
<1>5. CASE UNCHANGED bridge
  BY <1>5 DEF IInv
<1> QED
  BY <1>1, <1>2, <1>3, <1>4, <1>5
     DEF Next, Progress, HandleParentMessage, Render, SignIn, SignOut, Poll, SendTemplate,
         SendStatus, ClickRun, FinishExport, CreateRun

(* The rest says of the runs what is shown and what is on its way.          *)
RunsInv == NewsIsReal /\ StatusComesLast /\ NoTemplateOverRun

(* No message is posted or taken.                                           *)
LEMMA Quiet ==
  ASSUME IInv, Next, UNCHANGED <<toComfy, frame>>,
         status' = status \/ status'.doc = 0
  PROVE  RunsInv'
<1>1. NewsIsReal'
  <2>1. \A d \in Doc : Posted(d, "run.status")' => Posted(d, "run.status")
    BY DEF Posted
  <2>2. ASSUME NEW d \in Doc
        PROVE  panel'[d].news > 0 \/ Posted(d, "run.status")' => news' > 0
    BY <2>1, PanelNews DEF IInv, NewsIsReal
  <2>3. status'.doc # 0 => news' > 0
    <3>1. Doc # {}
      BY DEF Doc
    <3> QED  BY <3>1, PanelNews DEF IInv, NewsIsReal
  <2> QED  BY <2>2, <2>3 DEF NewsIsReal
<1>2. StatusComesLast'
  <2> SUFFICES ASSUME NEW d \in Doc, NEW i \in DOMAIN toComfy[d],
                      toComfy[d][i].type = "run.status"
               PROVE  panel'[d].news # 0
    BY DEF StatusComesLast, IInv
  <2>1. Posted(d, "run.status") /\ panel[d].news # 0
    BY DEF Posted, IInv, StatusComesLast
  <2>2. news > 0
    BY <2>1 DEF IInv, NewsIsReal
  <2> QED  BY <2>1, <2>2, PanelNews DEF IInv
<1>3. NoTemplateOverRun'
  <2> SUFFICES ASSUME status'.doc # 0, frame # 0
               PROVE  ~Posted(frame, "workflow.load") /\ panel'[frame].news # 0
    BY DEF NoTemplateOverRun, Posted
  <2>1. frame \in Doc /\ news > 0
    BY DEF IInv, TypeOK, Doc, NewsIsReal
  <2> QED  BY <2>1, PanelNews DEF IInv, NoTemplateOverRun
<1> QED  BY <1>1, <1>2, <1>3 DEF RunsInv

(* A panel posts a message: a status only if it knows of a run, a template  *)
(* only if it knows that there is none.                                     *)
LEMMA Posting ==
  ASSUME IInv, Next, NEW d \in Doc, NEW m \in ComfyMessage, PostToComfy(d, m),
         UNCHANGED <<frame, status, news>>,
         m.type = "run.status" => panel[d].news > 0,
         m.type = "workflow.load" => panel[d].news = 0,
         panel'[d].news \in {-1, panel[d].news}
  PROVE  RunsInv'
<1>1. /\ \A e \in Doc : e # d => toComfy'[e] = toComfy[e]
      /\ toComfy'[d] = Append(toComfy[d], m)
      /\ toComfy[d] \in Seq(ComfyMessage)
  BY DEF PostToComfy, IInv, TypeOK
<1>2. \A i \in DOMAIN toComfy'[d] :
        \/ i \in DOMAIN toComfy[d] /\ toComfy'[d][i] = toComfy[d][i]
        \/ i = Len(toComfy[d]) + 1 /\ toComfy'[d][i] = m
  BY <1>1, Snoc
<1>3. \A e \in Doc, type \in {"run.status", "workflow.load"} :
        Posted(e, type)' => Posted(e, type) \/ (e = d /\ m.type = type)
  BY <1>1, <1>2 DEF Posted
<1>4. NewsIsReal'
  <2> SUFFICES ASSUME NEW e \in Doc
               PROVE  panel'[e].news > 0 \/ Posted(e, "run.status")' => news > 0
    BY DEF NewsIsReal, IInv
  <2> QED  BY <1>3, PanelNews DEF IInv, NewsIsReal
<1>5. StatusComesLast'
  <2> SUFFICES ASSUME NEW e \in Doc, NEW i \in DOMAIN toComfy'[e],
                      toComfy'[e][i].type = "run.status"
               PROVE  /\ panel'[e].news # 0
                      /\ \A j \in DOMAIN toComfy'[e] :
                           j > i => toComfy'[e][j].type # "workflow.load"
    BY DEF StatusComesLast
  <2>1. CASE e # d
    <3>1. Posted(e, "run.status") /\ panel[e].news # 0
      BY <1>1, <2>1 DEF Posted, IInv, StatusComesLast
    <3>2. news > 0
      BY <3>1 DEF IInv, NewsIsReal
    <3> QED  BY <1>1, <2>1, <3>1, <3>2, PanelNews DEF IInv, StatusComesLast
  <2>2. CASE e = d /\ i \in DOMAIN toComfy[d] /\ toComfy'[d][i] = toComfy[d][i]
    <3>1. panel[d].news # 0 /\ m.type # "workflow.load"
      BY <2>2 DEF IInv, StatusComesLast
    <3>2. \A j \in DOMAIN toComfy[d] : j > i => toComfy[d][j].type # "workflow.load"
      BY <2>2 DEF IInv, StatusComesLast
    <3>3. \A j \in DOMAIN toComfy'[d] : j > i => toComfy'[d][j].type # "workflow.load"
      BY <1>2, <3>1, <3>2
    <3> QED  BY <2>2, <3>1, <3>3
  <2>3. CASE e = d /\ i = Len(toComfy[d]) + 1 /\ toComfy'[d][i] = m
    <3>1. panel'[d].news # 0
      BY <2>3, PanelNews DEF IInv
    <3>2. \A j \in DOMAIN toComfy'[d] : ~(j > i)
      BY <1>1, <2>3
    <3> QED  BY <2>3, <3>1, <3>2
  <2> QED  BY <1>2, <2>1, <2>2, <2>3
<1>6. NoTemplateOverRun'
  <2> SUFFICES ASSUME status.doc # 0, frame # 0
               PROVE  ~Posted(frame, "workflow.load")' /\ panel'[frame].news # 0
    BY DEF NoTemplateOverRun, Posted
  <2>1. frame \in Doc /\ news > 0
    BY DEF IInv, TypeOK, Doc, NewsIsReal
  <2> QED  BY <1>3, <2>1, PanelNews DEF IInv, NoTemplateOverRun
<1> QED  BY <1>4, <1>5, <1>6 DEF RunsInv

(* ComfyUI's page takes the oldest message.                                 *)
LEMMA Taking ==
  ASSUME IInv, Next, NEW d \in Doc, HandleMessage(d)
  PROVE  RunsInv'
<1> DEFINE m == Head(toComfy[d])
<1> USE DEF bridge
<1>1. /\ toComfy[d] \in Seq(ComfyMessage) /\ toComfy[d] # <<>>
      /\ toComfy'[d] = Tail(toComfy[d])
      /\ \A e \in Doc : e # d => toComfy'[e] = toComfy[e]
      /\ UNCHANGED <<frame, panel, news>>
  BY DEF HandleMessage, IInv, TypeOK
<1>2. /\ 1 \in DOMAIN toComfy[d] /\ m = toComfy[d][1]
      /\ \A i \in DOMAIN toComfy'[d] :
           /\ i \in Nat /\ i + 1 \in DOMAIN toComfy[d] /\ i + 1 > 1
           /\ toComfy'[d][i] = toComfy[d][i + 1]
  BY <1>1, Pop
<1>3. ASSUME NEW e \in Doc, NEW type, NEW i \in DOMAIN toComfy'[e],
             toComfy'[e][i].type = type
      PROVE  Posted(e, type)
  <2> SUFFICES \E j \in DOMAIN toComfy[e] : toComfy[e][j].type = type
    BY DEF Posted
  <2>1. CASE e # d
    BY <1>1, <1>3, <2>1
  <2>2. CASE e = d
    <3>1. i + 1 \in DOMAIN toComfy[e] /\ toComfy[e][i + 1].type = type
      BY <1>2, <1>3, <2>2
    <3> QED  BY <3>1
  <2> QED  BY <2>1, <2>2
<1>4. \/ status' = status
      \/ d = frame /\ m.type = "run.status" /\ status'.doc = d
  BY DEF HandleMessage, TakeReady, TakeStatus, FromFrame
<1>5. m.type = "run.status" =>
        /\ Posted(d, "run.status") /\ panel[d].news # 0
        /\ \A j \in DOMAIN toComfy'[d] : toComfy'[d][j].type # "workflow.load"
  <2> SUFFICES ASSUME m.type = "run.status"
               PROVE  /\ Posted(d, "run.status") /\ panel[d].news # 0
                      /\ \A j \in DOMAIN toComfy'[d] :
                           toComfy'[d][j].type # "workflow.load"
    OBVIOUS
  <2>1. panel[d].news # 0 /\ \A j \in DOMAIN toComfy[d] :
                               j > 1 => toComfy[d][j].type # "workflow.load"
    BY <1>2 DEF IInv, StatusComesLast
  <2> QED  BY <1>2, <2>1 DEF Posted
<1>6. NewsIsReal'
  <2>1. status'.doc # 0 => news > 0
    BY <1>4, <1>5 DEF IInv, NewsIsReal
  <2>2. \A e \in Doc : Posted(e, "run.status")' => Posted(e, "run.status")
    BY <1>3 DEF Posted
  <2> QED  BY <1>1, <2>1, <2>2 DEF IInv, NewsIsReal
<1>7. StatusComesLast'
  <2> SUFFICES ASSUME NEW e \in Doc, NEW i \in DOMAIN toComfy'[e],
                      toComfy'[e][i].type = "run.status"
               PROVE  /\ panel[e].news # 0
                      /\ \A j \in DOMAIN toComfy'[e] :
                           j > i => toComfy'[e][j].type # "workflow.load"
    BY <1>1 DEF StatusComesLast
  <2>1. CASE e # d
    BY <1>1, <2>1 DEF IInv, StatusComesLast
  <2>2. CASE e = d
    <3>1. i + 1 \in DOMAIN toComfy[d] /\ toComfy[d][i + 1].type = "run.status" /\ i \in Nat
      BY <1>2, <2>2
    <3>2. panel[d].news # 0 /\ \A j \in DOMAIN toComfy[d] :
                                 j > i + 1 => toComfy[d][j].type # "workflow.load"
      BY <3>1 DEF IInv, StatusComesLast
    <3>3. \A j \in DOMAIN toComfy'[d] : j > i => j + 1 > i + 1
      BY <1>2, <3>1
    <3> QED  BY <1>2, <2>2, <3>2, <3>3
  <2> QED  BY <2>1, <2>2
<1>8. NoTemplateOverRun'
  <2> SUFFICES ASSUME status'.doc # 0, frame # 0
               PROVE  /\ ~\E j \in DOMAIN toComfy'[frame] :
                           toComfy'[frame][j].type = "workflow.load"
                      /\ panel[frame].news # 0
    BY <1>1 DEF NoTemplateOverRun, Posted
  <2>1. frame \in Doc
    BY DEF IInv, TypeOK, Doc
  <2>2. CASE status' = status
    BY <1>3, <2>1, <2>2 DEF IInv, NoTemplateOverRun
  <2>3. CASE d = frame /\ m.type = "run.status"
    BY <1>5, <2>3
  <2> QED  BY <1>4, <2>2, <2>3
<1> QED  BY <1>6, <1>7, <1>8 DEF RunsInv

LEMMA RunsNext == IInv /\ Next => RunsInv'
<1> SUFFICES ASSUME IInv, Next PROVE RunsInv'
  OBVIOUS
<1> USE DEF bridge
<1>1. CASE Attach
  <2>1. /\ docs + 1 \in Doc /\ docs + 1 > docs /\ frame' = docs + 1
        /\ UNCHANGED <<toComfy, status, news>>
    BY <1>1 DEF Attach, IInv, TypeOK, Doc
  <2>2. toComfy[docs + 1] = <<>> /\ DOMAIN toComfy[docs + 1] = {}
    BY <2>1 DEF IInv, FutureIsBlank
  <2>3. Gone(panel) \in [Doc -> Panel]
    BY Pages DEF Gone, IInv, TypeOK, Doc
  <2>4. panel'[docs + 1].news = -1
    BY <1>1, <2>1, <2>3, Pages DEF Attach
  <2>5. NoTemplateOverRun'
    BY <2>1, <2>2, <2>4 DEF NoTemplateOverRun, Posted
  <2>6. NewsIsReal'
    BY <2>1, PanelNews DEF IInv, NewsIsReal, Posted
  <2>7. StatusComesLast'
    <3> SUFFICES ASSUME NEW d \in Doc, NEW i \in DOMAIN toComfy[d],
                        toComfy[d][i].type = "run.status"
                 PROVE  panel'[d].news # 0
      BY <2>1 DEF StatusComesLast, IInv
    <3>1. Posted(d, "run.status") /\ panel[d].news # 0
      BY DEF Posted, IInv, StatusComesLast
    <3>2. news > 0
      BY <3>1 DEF IInv, NewsIsReal
    <3> QED  BY <3>1, <3>2, PanelNews DEF IInv
  <2> QED  BY <2>5, <2>6, <2>7 DEF RunsInv
<1>2. CASE Detach \/ Destroy
  <2>1. frame' = 0 /\ UNCHANGED <<toComfy, status, news>>
    BY <1>2 DEF Detach, Destroy
  <2>2. NoTemplateOverRun'
    BY <2>1 DEF NoTemplateOverRun
  <2>3. NewsIsReal'
    BY <2>1, PanelNews DEF IInv, NewsIsReal, Posted
  <2>4. StatusComesLast'
    <3> SUFFICES ASSUME NEW d \in Doc, NEW i \in DOMAIN toComfy[d],
                        toComfy[d][i].type = "run.status"
                 PROVE  panel'[d].news # 0
      BY <2>1 DEF StatusComesLast, IInv
    <3>1. Posted(d, "run.status") /\ panel[d].news # 0
      BY DEF Posted, IInv, StatusComesLast
    <3>2. news > 0
      BY <3>1 DEF IInv, NewsIsReal
    <3> QED  BY <3>1, <3>2, PanelNews DEF IInv
  <2> QED  BY <2>2, <2>3, <2>4 DEF RunsInv
<1>3. ASSUME NEW d \in Doc, HandleMessage(d) PROVE RunsInv'
  BY <1>3, Taking
<1>4. CASE Progress \/ \E c \in Click : ClickRun(c) \/ FinishExport(c) \/ CreateRun(c)
  <2>1. UNCHANGED <<toComfy, frame, status>>
    BY <1>4 DEF Progress, ClickRun, FinishExport, CreateRun
  <2> QED  BY <2>1, Quiet
<1>5. ASSUME NEW d \in Doc, LoadEvent(d) \/ HandleParentMessage(d) \/ SignOut(d) \/ Poll(d)
      PROVE  RunsInv'
  <2>1. UNCHANGED <<toComfy, frame>> /\ (status' = status \/ status'.doc = 0)
    BY <1>5 DEF LoadEvent, NoStatus, HandleParentMessage, SignOut, Poll
  <2> QED  BY <2>1, Quiet
<1>6. ASSUME NEW d \in Doc, Render(d) \/ SignIn(d) PROVE RunsInv'
  <2>1. UNCHANGED <<frame, status, news>>
    BY <1>6 DEF Render, SignIn
  <2>2. CASE UNCHANGED toComfy
    BY <2>1, <2>2, Quiet
  <2>3. CASE Mount(d)
    <3>1. panel'[d].news = -1
      BY <2>3, Pages DEF Mount, IInv, TypeOK
    <3>2. PostToComfy(d, Ready)
      BY <2>3 DEF Mount, PostToComfy
    <3> QED  BY <2>1, <3>1, <3>2, Messages, Posting
  <2> QED  BY <1>6, <2>2, <2>3 DEF Render, SignIn
<1>7. ASSUME NEW d \in Doc, SendTemplate(d) PROVE RunsInv'
  <2>1. PostToComfy(d, Template) /\ panel[d].news = 0 /\ UNCHANGED <<frame, status, news>>
    BY <1>7 DEF SendTemplate, NoRunsYet
  <2>2. panel'[d].news = panel[d].news
    BY <1>7 DEF SendTemplate, IInv, TypeOK, Panel
  <2> QED  BY <2>1, <2>2, Messages, Posting
<1>8. ASSUME NEW d \in Doc, SendStatus(d) PROVE RunsInv'
  <2>1. /\ PostToComfy(d, RunStatus(panel[d].news)) /\ panel[d].news > 0
        /\ UNCHANGED <<frame, status, news>>
    BY <1>8 DEF SendStatus, Untold
  <2>2. panel'[d].news = panel[d].news
    BY <1>8 DEF SendStatus, IInv, TypeOK, Panel
  <2>3. panel[d].news \in 0..MaxNews
    <3>1. panel[d] \in Panel
      BY DEF IInv, TypeOK
    <3> QED  BY <2>1, <3>1 DEF Panel, NotLoaded
  <2> QED  BY <2>1, <2>2, <2>3, Messages, Posting
<1> QED
  BY <1>1, <1>2, <1>3, <1>4, <1>5, <1>6, <1>7, <1>8 DEF Next

LEMMA NextIInv == IInv /\ [Next]_vars => IInv'
<1> SUFFICES ASSUME IInv, [Next]_vars PROVE IInv'
  OBVIOUS
<1>1. CASE Next
  BY <1>1, TypeNext, FutureNext, FeedNext, RunsNext DEF IInv, RunsInv
<1>2. CASE UNCHANGED vars
  BY <1>2 DEF vars, bridge, IInv, TypeOK, FutureIsBlank, FeedIsOfThisFrame, NewsIsReal,
     StatusComesLast, NoTemplateOverRun, Posted
<1> QED  BY <1>1, <1>2

(* The bookkeeping of both pages (bridge-runtime.js, ManagedPanelPage)      *)
(* stays sound however documents, messages and the user's gestures          *)
(* interleave.                                                              *)
THEOREM BridgeInvariant == Spec => []IInv
BY InitIInv, NextIInv, PTL DEF Spec

(* What a loaded frame's bridge says comes from the panel in the frame      *)
(* (bridge-runtime.js, handleMessage and handleLoad).                       *)
THEOREM FeedIsCurrent == Spec => []FeedIsOfThisFrame
<1>1. IInv => FeedIsOfThisFrame
  BY DEF IInv
<1> QED  BY <1>1, BridgeInvariant, PTL

(* A user whose run is shown keeps the canvas: no template follows          *)
(* (App.tsx, the template effect of ManagedPanelPage).                      *)
THEOREM CanvasIsSpared == Spec => []NoTemplateOverRun
<1>1. IInv => NoTemplateOverRun
  BY DEF IInv
<1> QED  BY <1>1, BridgeInvariant, PTL
=============================================================================
